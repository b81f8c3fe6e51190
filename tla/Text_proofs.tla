---------------------------- MODULE Text_proofs ----------------------------
(***************************************************************************)
(* The properties of Text.tla for every text over its tokens, whatever the *)
(* tags and secrets in it, for every configuration, every cap and every    *)
(* number of passes of the fence.                                          *)
(*                                                                         *)
(* The rewritings are recursive functions.  That there is a function that  *)
(* solves each recursion, and what it computes, is shown by the least      *)
(* counterexample (Least), for all of them at once (Scan, Rewriting): a    *)
(* rewriting is given by the length of the match at each place.  The       *)
(* invariant TInv says what the row and the message are in terms of these, *)
(* and each property follows from it.                                      *)
(***************************************************************************)
EXTENDS Text, SequenceTheorems, WellFoundedInduction, TLAPS

(* A set of numbers has a least one: what is shown by induction is shown of *)
(* the least counterexample.                                                *)
LEMMA Least ==
  ASSUME NEW S \in SUBSET Nat, S # {}
  PROVE  \E n \in S : \A m \in S : n <= m
<1>1. PICK n \in S : \A m \in S : <<m, n>> \notin OpToRel(<, Nat)
  BY NatLessThanWellFounded, WFMin
<1>2. \A m \in S : <<m, n>> \in OpToRel(<, Nat) <=> m < n
  BY DEF OpToRel
<1>3. \A m \in S : m \in Nat /\ n \in Nat /\ ~(m < n)
  BY <1>1, <1>2
<1>4. \A m, k \in Nat : ~(m < k) => k <= m
  OBVIOUS
<1> QED
  BY <1>3, <1>4

-----------------------------------------------------------------------------
(* Rewriting. *)

(* Matches in t: within it, and a replacement no longer than its match.    *)
Matches(t, length, by) ==
  /\ length \in [DOMAIN t -> Nat]
  /\ \A i \in DOMAIN t : i + length[i] <= Len(t) + 1 /\ (length[i] > 0 => Len(by) <= length[i])

(* What is left when the matches are replaced is in T. *)
Leaves(t, length, by, T) ==
  by \in Seq(T) /\ \A i \in DOMAIN t : length[i] = 0 => t[i] \in T

(* One step of a replacement, given what comes of the rest. *)
Rest(t, length, by, f, i) ==
  IF i > Len(t) THEN <<>>
  ELSE IF length[i] > 0 THEN by \o f[i + length[i]] ELSE <<t[i]>> \o f[i + 1]

(* Of the text from i on: the tokens that are left, no more of them than   *)
(* there were, and all of them where nothing matches.                      *)
Good(t, length, T, s, i) ==
  /\ s \in Seq(T) /\ Len(s) <= Len(t) + 1 - i
  /\ (\A j \in DOMAIN t : length[j] = 0) => s = SubSeq(t, i, Len(t))

(* One step keeps what is good. *)
LEMMA OneStep ==
  ASSUME NEW U, NEW t \in Seq(U), NEW T, NEW length, NEW by, NEW f,
         Matches(t, length, by), Leaves(t, length, by, T),
         NEW i \in 1..(Len(t) + 1),
         \A j \in (i + 1)..(Len(t) + 1) : Good(t, length, T, f[j], j)
  PROVE  Good(t, length, T, Rest(t, length, by, f, i), i)
<1>0. Len(t) \in Nat /\ DOMAIN t = 1..Len(t) /\ i \in Int
  OBVIOUS
<1> DEFINE r == Rest(t, length, by, f, i)
<1> SUFFICES /\ r \in Seq(T) /\ Len(r) <= Len(t) + 1 - i
             /\ (\A j \in DOMAIN t : length[j] = 0) => r = SubSeq(t, i, Len(t))
  BY DEF Good
<1>1. CASE i = Len(t) + 1
  <2>1. Rest(t, length, by, f, i) = <<>>
    BY <1>0, <1>1 DEF Rest
  <2>2. SubSeq(t, i, Len(t)) = <<>>
    <3>1. Len(t) \in Int /\ Len(t) < i
      BY <1>0, <1>1
    <3> QED
      BY <1>0, <3>1, SubSeqEmpty
  <2>3. Len(<<>>) = 0 /\ <<>> \in Seq(T)
    OBVIOUS
  <2>4. r \in Seq(T) /\ Len(r) = 0
    BY <2>1, <2>3
  <2>5. r = SubSeq(t, i, Len(t))
    BY <2>1, <2>2
  <2> HIDE DEF r
  <2> QED
    BY <1>0, <1>1, <2>4, <2>5
<1>2. CASE i # Len(t) + 1 /\ length[i] = 0
  <2>1. i \in 1..Len(t) /\ i + 1 \in (i + 1)..(Len(t) + 1) /\ ~(i > Len(t))
    BY <1>0, <1>2
  <2>2. t[i] \in T /\ Good(t, length, T, f[i + 1], i + 1)
    BY <1>0, <1>2, <2>1 DEF Leaves
  <2>3. Rest(t, length, by, f, i) = <<t[i]>> \o f[i + 1]
    BY <1>2, <2>1 DEF Rest
  <2>4. f[i + 1] \in Seq(T) /\ Len(f[i + 1]) <= Len(t) + 1 - (i + 1)
    BY <2>2 DEF Good
  <2>5. <<t[i]>> \o f[i + 1] \in Seq(T) /\ Len(<<t[i]>> \o f[i + 1]) = 1 + Len(f[i + 1])
    BY <2>2, <2>4
  <2>6. Len(f[i + 1]) \in Nat
    BY <2>4
  <2>7. <<t[i]>> \o SubSeq(t, i + 1, Len(t)) = SubSeq(t, i, Len(t))
    <3>1. Len(t) \in i..Len(t)
      BY <1>0, <2>1
    <3> QED
      BY <2>1, <3>1, SubSeqRecursiveFirst
  <2>8. (\A j \in DOMAIN t : length[j] = 0) => f[i + 1] = SubSeq(t, i + 1, Len(t))
    BY <2>2 DEF Good
  <2>9. r \in Seq(T) /\ Len(r) = 1 + Len(f[i + 1])
    BY <2>3, <2>5
  <2>10. (\A j \in DOMAIN t : length[j] = 0) => r = SubSeq(t, i, Len(t))
    BY <2>3, <2>7, <2>8
  <2> HIDE DEF r
  <2> QED
    BY <1>0, <2>4, <2>6, <2>9, <2>10
<1>3. CASE i # Len(t) + 1 /\ length[i] # 0
  <2>1. i \in 1..Len(t) /\ length[i] \in Nat /\ ~(i > Len(t))
    BY <1>0, <1>3 DEF Matches
  <2>2. length[i] > 0 /\ Len(by) <= length[i] /\ i + length[i] <= Len(t) + 1
    BY <1>0, <1>3, <2>1 DEF Matches
  <2>3. i + length[i] \in (i + 1)..(Len(t) + 1)
    BY <1>0, <2>1, <2>2
  <2>4. f[i + length[i]] \in Seq(T) /\ Len(f[i + length[i]]) <= Len(t) + 1 - (i + length[i])
    BY <2>3 DEF Good
  <2>5. Rest(t, length, by, f, i) = by \o f[i + length[i]]
    BY <2>1, <2>2 DEF Rest
  <2>6. by \in Seq(T)
    BY DEF Leaves
  <2> DEFINE g == f[i + length[i]]
  <2>7. by \o g \in Seq(T) /\ Len(by \o g) = Len(by) + Len(g) /\ Len(by) \in Nat /\ Len(g) \in Nat
    BY <2>4, <2>6
  <2>8. ~\A j \in DOMAIN t : length[j] = 0
    BY <1>0, <1>3, <2>1
  <2> QED
    BY <1>0, <2>1, <2>2, <2>4, <2>5, <2>7, <2>8
<1> QED
  BY <1>1, <1>2, <1>3

(* The recursion of From has a result: there is a function that solves it, *)
(* and any that does is that one.                                          *)
LEMMA Scan ==
  ASSUME NEW U, NEW t \in Seq(U), NEW T, NEW length, NEW by,
         Matches(t, length, by), Leaves(t, length, by, T)
  PROVE  \A i \in 1..(Len(t) + 1) :
           /\ From(t, length, by)[i] = Rest(t, length, by, From(t, length, by), i)
           /\ Good(t, length, T, From(t, length, by)[i], i)
<1> DEFINE n == Len(t)
           Solves(f, d) == f = [i \in (n + 1 - d)..(n + 1) |-> Rest(t, length, by, f, i)]
           unsolved == {d \in 0..n : ~\E f : Solves(f, d)}
<1>0. n \in Nat /\ DOMAIN t = 1..n
  OBVIOUS
<1>1. unsolved = {}
  <2> SUFFICES ASSUME unsolved # {} PROVE FALSE
    OBVIOUS
  <2>0. unsolved \in SUBSET Nat
    BY <1>0
  <2>1. PICK d \in unsolved : \A m \in unsolved : d <= m
    <3> HIDE DEF unsolved
    <3> QED
      BY Least, <2>0
  <2>2. d \in 0..n /\ ~\E f : Solves(f, d)
    OBVIOUS
  <2>3. d # 0
    <3> SUFFICES ASSUME d = 0 PROVE FALSE
      OBVIOUS
    <3> DEFINE f == [i \in (n + 1 - 0)..(n + 1) |-> <<>>]
    <3>1. \A i \in (n + 1 - 0)..(n + 1) : Rest(t, length, by, f, i) = <<>>
      BY <1>0 DEF Rest
    <3>2. f = [i \in (n + 1 - 0)..(n + 1) |-> Rest(t, length, by, f, i)]
      BY <3>1
    <3> HIDE DEF f
    <3>3. Solves(f, 0)
      BY <3>2
    <3> QED
      BY <2>2, <3>3
  <2>4. d - 1 \in 0..n /\ ~(d <= d - 1)
    BY <1>0, <2>2, <2>3
  <2>5. d - 1 \notin unsolved
    <3> HIDE DEF unsolved
    <3> QED
      BY <2>1, <2>4
  <2>6. PICK f : Solves(f, d - 1)
    BY <2>4, <2>5
  <2> DEFINE e == n + 1 - d
             g == [i \in e..(n + 1) |-> IF i = e THEN Rest(t, length, by, f, e) ELSE f[i]]
  <2>7. e \in 1..n /\ e \in Int /\ n + 1 - (d - 1) = e + 1
    BY <1>0, <2>2, <2>3
  <2>8. \A i \in (e + 1)..(n + 1) : f[i] = Rest(t, length, by, f, i)
    BY <2>6, <2>7
  <2>9. ASSUME NEW i \in e..(n + 1) PROVE Rest(t, length, by, g, i) = Rest(t, length, by, f, i)
    <3>1. \A j \in (i + 1)..(n + 1) : g[j] = f[j]
      BY <1>0, <2>7
    <3>2. CASE i > n
      BY <3>2 DEF Rest
    <3>3. CASE ~(i > n)
      <4>1. i \in 1..n /\ length[i] \in Nat /\ i + length[i] <= n + 1
        BY <1>0, <2>7, <3>3 DEF Matches
      <4>2. i + 1 \in (i + 1)..(n + 1) /\ (length[i] > 0 => i + length[i] \in (i + 1)..(n + 1))
        BY <1>0, <4>1
      <4> HIDE DEF g
      <4> QED
        BY <3>1, <3>3, <4>1, <4>2 DEF Rest
    <3> QED
      BY <3>2, <3>3
  <2>10. \A i \in e..(n + 1) : g[i] = Rest(t, length, by, g, i)
    <3> TAKE i \in e..(n + 1)
    <3>1. Rest(t, length, by, g, i) = Rest(t, length, by, f, i)
      BY <2>9
    <3>2. CASE i = e
      BY <2>7, <3>1, <3>2
    <3>3. CASE i # e
      <4>1. i \in (e + 1)..(n + 1) /\ g[i] = f[i]
        BY <1>0, <2>7, <3>3
      <4> QED
        BY <2>8, <3>1, <4>1
    <3> QED
      BY <3>2, <3>3
  <2>11. g = [i \in e..(n + 1) |-> Rest(t, length, by, g, i)]
    BY <2>10
  <2> QED
    <3> HIDE DEF g
    <3> QED
      BY <2>2, <2>11
<1> DEFINE f == From(t, length, by)
           Filled(h) == h = [i \in 1..(n + 1) |-> Rest(t, length, by, h, i)]
<1>2. \E h : Filled(h)
  <2>1. PICK h : Solves(h, n)
    BY <1>0, <1>1
  <2>2. n + 1 - n = 1
    BY <1>0
  <2> QED
    BY <2>1, <2>2
<1>3. f = CHOOSE h : Filled(h)
  BY DEF From, Rest
<1>4. Filled(f)
  BY <1>2, <1>3
<1>5. \A i \in 1..(n + 1) : f[i] = Rest(t, length, by, f, i)
  BY <1>4
<1> HIDE DEF f, Filled
<1> DEFINE bad == {d \in 0..n : ~Good(t, length, T, f[n + 1 - d], n + 1 - d)}
<1>6. bad = {}
  <2> SUFFICES ASSUME bad # {} PROVE FALSE
    OBVIOUS
  <2>0. bad \in SUBSET Nat
    BY <1>0
  <2>1. PICK d \in bad : \A m \in bad : d <= m
    <3> HIDE DEF bad
    <3> QED
      BY Least, <2>0
  <2>2. d \in 0..n /\ ~Good(t, length, T, f[n + 1 - d], n + 1 - d)
    OBVIOUS
  <2> DEFINE i == n + 1 - d
  <2>3. i \in 1..(n + 1)
    BY <1>0, <2>2
  <2>4. ASSUME NEW j \in (i + 1)..(n + 1) PROVE Good(t, length, T, f[j], j)
    <3> DEFINE m == n + 1 - j
    <3>1. m \in 0..n /\ ~(d <= m) /\ n + 1 - m = j
      BY <1>0, <2>2
    <3>2. m \notin bad
      <4> HIDE DEF bad
      <4> QED
        BY <2>1, <3>1
    <3>3. Good(t, length, T, f[n + 1 - m], n + 1 - m)
      BY <3>1, <3>2
    <3> QED
      BY <3>1, <3>3
  <2>5. Good(t, length, T, Rest(t, length, by, f, i), i)
    <3> HIDE DEF i
    <3> QED
      BY OneStep, <2>3, <2>4
  <2> QED
    BY <1>5, <2>2, <2>3, <2>5
<1>7. ASSUME NEW i \in 1..(n + 1) PROVE Good(t, length, T, f[i], i)
  <2> DEFINE d == n + 1 - i
  <2>1. d \in 0..n /\ n + 1 - d = i
    BY <1>0
  <2>2. Good(t, length, T, f[n + 1 - d], n + 1 - d)
    BY <1>6, <2>1
  <2> QED
    BY <2>1, <2>2
<1> QED
  BY <1>5, <1>7 DEF f

(* A replacement leaves a text of what it leaves, no longer than it was,   *)
(* and the text itself where nothing matches.                              *)
LEMMA Rewriting ==
  ASSUME NEW U, NEW t \in Seq(U), NEW T, NEW length, NEW by,
         Matches(t, length, by), Leaves(t, length, by, T)
  PROVE  /\ Replaced(t, length, by) \in Seq(T) /\ Len(Replaced(t, length, by)) <= Len(t)
         /\ (\A i \in DOMAIN t : length[i] = 0) => Replaced(t, length, by) = t
<1>1. Len(t) \in Nat /\ 1 \in 1..(Len(t) + 1) /\ SubSeq(t, 1, Len(t)) = t
  OBVIOUS
<1>2. Good(t, length, T, From(t, length, by)[1], 1)
  BY Scan, <1>1
<1> QED
  BY <1>1, <1>2 DEF Good, Replaced

-----------------------------------------------------------------------------
(* The steps of the pipeline. *)

(* All that the pipeline needs to be able to write. *)
Marks == {"<", ">", "/", " ", "untrusted", "source", "redacted", "cut", "look<", "look>"}

(* The secrets of a text are whole. *)
EveryHalf(t) == \A i \in DOMAIN t : t[i] = "half" => IsSecret(t, i)

(* The secrets of a text are matches in it, and a redaction leaves the     *)
(* rest.                                                                   *)
LEMMA SecretsMatch ==
  ASSUME NEW T, "redacted" \in T, NEW t \in Seq(T)
  PROVE  /\ Matches(t, Secrets(t), <<"redacted">>)
         /\ Leaves(t, Secrets(t), <<"redacted">>, T)
         /\ EveryHalf(t) => Leaves(t, Secrets(t), <<"redacted">>, T \ {"half"})
<1> DEFINE length == Secrets(t)
           by == <<"redacted">>
<1>1. Len(t) \in Nat /\ DOMAIN t = 1..Len(t) /\ \A i \in 1..Len(t) : t[i] \in T
  OBVIOUS
<1>2. Matches(t, length, by)
  <2>1. ASSUME NEW i \in DOMAIN t, IsSecret(t, i) PROVE i + 2 <= Len(t) + 1
    <3>1. i < Len(t)
      BY <2>1, Zenon DEF IsSecret
    <3> QED
      BY <1>1, <3>1
  <2>2. Len(by) = 1
    OBVIOUS
  <2>3. length \in [DOMAIN t -> Nat] /\ \A i \in DOMAIN t : length[i] \in {0, 2}
    BY DEF Secrets
  <2>4. \A i \in DOMAIN t : i + length[i] <= Len(t) + 1
    BY <1>1, <2>1 DEF Secrets
  <2> HIDE DEF length, by
  <2> QED
    BY <2>2, <2>3, <2>4 DEF Matches
<1>3. Leaves(t, length, by, T)
  BY <1>1 DEF Leaves
<1>4. EveryHalf(t) => Leaves(t, length, by, T \ {"half"})
  BY <1>1 DEF Leaves, EveryHalf, Secrets
<1> QED
  BY <1>2, <1>3, <1>4

(* Redaction leaves a text without a secret alone, and no half of one that *)
(* is known.                                                               *)
LEMMA Redacted ==
  ASSUME NEW T, "redacted" \in T, NEW t \in Seq(T), NEW known
  PROVE  /\ Redact(t, known) \in Seq(T) /\ Len(Redact(t, known)) <= Len(t)
         /\ ~HasSecret(t) => Redact(t, known) = t
         /\ known /\ EveryHalf(t) => Redact(t, known) \in Seq(T \ {"half"})
<1> DEFINE length == Secrets(t)
           by == <<"redacted">>
<1>1. Len(t) \in Nat
  OBVIOUS
<1>2. ~HasSecret(t) => \A i \in DOMAIN t : length[i] = 0
  BY DEF HasSecret, Secrets
<1>3. Redact(t, known) = IF known THEN Replaced(t, length, by) ELSE t
  BY DEF Redact
<1>4. /\ Matches(t, length, by) /\ Leaves(t, length, by, T)
      /\ EveryHalf(t) => Leaves(t, length, by, T \ {"half"})
  BY SecretsMatch
<1> HIDE DEF length, by
<1>5. Replaced(t, length, by) \in Seq(T) /\ Len(Replaced(t, length, by)) <= Len(t)
  BY <1>4, Rewriting
<1>6. ~HasSecret(t) => Replaced(t, length, by) = t
  BY <1>2, <1>4, Rewriting
<1>7. EveryHalf(t) => Replaced(t, length, by) \in Seq(T \ {"half"})
  BY <1>4, Rewriting
<1> QED
  BY <1>1, <1>3, <1>5, <1>6, <1>7

Odd == {"wide<", "zero-width"}

(* The characters that are removed are matches in the folded text, and the *)
(* others are left.                                                        *)
LEMMA InvisibleMatch ==
  ASSUME NEW T, "<" \in T, NEW t \in Seq(T)
  PROVE  /\ Fold(t) \in Seq(T) /\ Len(Fold(t)) = Len(t) /\ DOMAIN Fold(t) = 1..Len(t)
         /\ Matches(Fold(t), Invisible(t), <<>>)
         /\ Leaves(Fold(t), Invisible(t), <<>>, T \ Odd)
<1> DEFINE f == Fold(t)
           length == Invisible(t)
           by == <<>>
<1>1. Len(t) \in Nat /\ DOMAIN t = 1..Len(t) /\ \A i \in 1..Len(t) : t[i] \in T
  OBVIOUS
<1>2. f \in Seq(T) /\ Len(f) = Len(t) /\ DOMAIN f = 1..Len(t)
  <2>1. f \in [1..Len(t) -> T]
    BY <1>1 DEF Fold
  <2> HIDE DEF f
  <2> QED
    BY <1>1, <2>1
<1>3. Matches(f, length, by)
  <2>1. \A i \in DOMAIN f : length[i] \in {0, 1}
    BY <1>1, <1>2 DEF Invisible
  <2>2. length \in [DOMAIN f -> Nat] /\ Len(by) = 0
    BY <1>1, <1>2 DEF Invisible
  <2>3. \A i \in DOMAIN f : i + length[i] <= Len(f) + 1 /\ (length[i] > 0 => 0 <= length[i])
    <3> HIDE DEF f, length
    <3> QED
      BY <1>1, <1>2, <2>1
  <2> HIDE DEF f, length, by
  <2> QED
    BY <2>2, <2>3 DEF Matches
<1>4. Leaves(f, length, by, T \ Odd)
  <2>1. by \in Seq(T \ Odd)
    OBVIOUS
  <2>2. \A i \in 1..Len(t) : length[i] = 0 => f[i] \in T \ Odd
    BY <1>1 DEF Fold, Odd, Invisible
  <2> HIDE DEF f, length, by
  <2> QED
    BY <1>2, <2>1, <2>2 DEF Leaves
<1> QED
  BY <1>2, <1>3, <1>4

(* Sanitising leaves nothing to sanitise. *)
LEMMA Sanitized ==
  ASSUME NEW T, "<" \in T, NEW t \in Seq(T)
  PROVE  /\ Sanitize(t) \in Seq(T \ Odd) /\ Len(Sanitize(t)) <= Len(t)
         /\ (\A i \in DOMAIN t : t[i] \notin Odd) => Sanitize(t) = t
<1> DEFINE f == Fold(t)
           length == Invisible(t)
           by == <<>>
<1>1. Len(t) \in Nat /\ DOMAIN t = 1..Len(t)
  OBVIOUS
<1>2. /\ f \in Seq(T) /\ Len(f) = Len(t) /\ DOMAIN f = 1..Len(t)
      /\ Matches(f, length, by) /\ Leaves(f, length, by, T \ Odd)
  BY InvisibleMatch
<1>3. ASSUME \A i \in DOMAIN t : t[i] \notin Odd
      PROVE  f = t /\ \A i \in DOMAIN f : length[i] = 0
  BY <1>1, <1>2, <1>3 DEF Fold, Odd, Invisible
<1>4. Sanitize(t) = Replaced(f, length, by)
  BY DEF Sanitize
<1> HIDE DEF f, length, by
<1>5. Replaced(f, length, by) \in Seq(T \ Odd) /\ Len(Replaced(f, length, by)) <= Len(f)
  BY <1>2, Rewriting
<1>6. (\A i \in DOMAIN f : length[i] = 0) => Replaced(f, length, by) = f
  BY <1>2, Rewriting
<1> QED
  BY <1>2, <1>3, <1>4, <1>5, <1>6

(* A cut keeps what is within the limit. *)
LEMMA Truncated ==
  ASSUME NEW T, "cut" \in T, NEW t \in Seq(T), NEW limit, limit = None \/ limit \in Nat
  PROVE  /\ Truncate(t, limit) \in Seq(T)
         /\ limit = None \/ Len(t) <= limit => Truncate(t, limit) = t
<1>1. CASE limit = None \/ Len(t) <= limit
  BY <1>1 DEF Truncate
<1>2. CASE ~(limit = None \/ Len(t) <= limit)
  <2>1. limit \in Nat /\ limit < Len(t) /\ Len(t) \in Nat
    BY <1>2
  <2>2. \A i \in 1..limit : t[i] \in T
    BY <2>1
  <2>3. SubSeq(t, 1, limit) \in Seq(T)
    BY <2>1, <2>2, SubSeqProperties
  <2> QED
    BY <1>2, <2>3 DEF Truncate
<1> QED
  BY <1>1, <1>2

-----------------------------------------------------------------------------
(* The fence. *)

(* A tag lies within the text, and begins where an opening does. *)
LEMMA TagsLie ==
  ASSUME NEW U, NEW t \in Seq(U), NEW i \in DOMAIN t
  PROVE  /\ TagLength(t, i) \in Nat /\ i + TagLength(t, i) <= Len(t) + 1
         /\ TagLength(t, i) > 0 => i \in Openings(t)
<1> DEFINE ends == {m \in DOMAIN t :
                      \E k \in PrefixEnds(t, i) :
                        /\ m > k /\ t[m] = ">" /\ m - k - 1 <= AttributeCap
                        /\ \A j \in (k + 1)..(m - 1) : t[j] # ">"}
<1>1. Len(t) \in Nat /\ DOMAIN t = 1..Len(t) /\ i \in Nat /\ i <= Len(t)
  OBVIOUS
<1>2. TagLength(t, i) = IF ends = {} THEN 0 ELSE (CHOOSE m \in ends : TRUE) - i + 1
  BY DEF TagLength
<1>3. ASSUME NEW m \in ends PROVE m \in 1..Len(t) /\ m > i /\ PrefixEnds(t, i) # {}
  <2>1. PICK k \in PrefixEnds(t, i) : m > k
    OBVIOUS
  <2>2. k \in (i + 1)..(Len(t) - 1)
    BY DEF PrefixEnds
  <2> QED
    BY <1>1, <2>1, <2>2
<1> HIDE DEF ends
<1>4. CASE ends = {}
  BY <1>1, <1>2, <1>4
<1>5. CASE ends # {}
  <2>1. PICK m \in ends : TagLength(t, i) = m - i + 1
    BY <1>2, <1>5
  <2>2. m \in Nat /\ m <= Len(t) /\ m > i /\ PrefixEnds(t, i) # {}
    BY <1>1, <1>3
  <2> QED
    BY <1>1, <2>1, <2>2 DEF Openings
<1> QED
  BY <1>4, <1>5

(* A pass takes tokens out, and none of a text without an opening. *)
LEMMA Stripped ==
  ASSUME NEW T, NEW t \in Seq(T)
  PROVE  StripTags(t) \in Seq(T) /\ (Openings(t) = {} => StripTags(t) = t)
<1> DEFINE length == Tags(t)
<1>1. Len(t) \in Nat /\ DOMAIN t = 1..Len(t) /\ \A i \in DOMAIN t : t[i] \in T
  OBVIOUS
<1>2. \A i \in DOMAIN t : length[i] \in Nat /\ i + length[i] <= Len(t) + 1
  BY TagsLie DEF Tags
<1>3. length \in [DOMAIN t -> Nat]
  BY <1>2 DEF Tags
<1>4. Openings(t) = {} => \A i \in DOMAIN t : length[i] = 0
  <2>1. \A i \in DOMAIN t : length[i] = TagLength(t, i)
    BY DEF Tags
  <2> HIDE DEF length
  <2>2. \A i \in DOMAIN t : TagLength(t, i) \in Nat /\ (TagLength(t, i) > 0 => i \in Openings(t))
    BY TagsLie
  <2> QED
    BY <2>1, <2>2
<1>5. StripTags(t) = Replaced(t, length, <<>>)
  BY DEF StripTags
<1> HIDE DEF length
<1>6. Matches(t, length, <<>>)
  <2>1. Len(<<>>) = 0
    OBVIOUS
  <2> QED
    BY <1>2, <1>3, <2>1 DEF Matches
<1>7. Leaves(t, length, <<>>, T)
  BY <1>1 DEF Leaves
<1> QED
  BY <1>4, <1>5, <1>6, <1>7, Rewriting

(* The passes of the fence over a text have results, and change nothing    *)
(* in a text without an opening.                                           *)
LEMMA PassesEnd ==
  ASSUME NEW T, NEW t \in Seq(T)
  PROVE  \A n \in 0..MaxPasses : /\ Passes(t)[n] \in Seq(T)
                                 /\ Openings(t) = {} => Passes(t)[n] = t
<1> USE TextAssumption
<1> DEFINE Pass(n, f) == f = [k \in 0..n |-> IF k = 0 THEN t ELSE StripTags(f[k - 1])]
           unsolved == {n \in 0..MaxPasses : ~\E f : Pass(n, f)}
<1>0. MaxPasses \in Nat
  OBVIOUS
<1>1. unsolved = {}
  <2> SUFFICES ASSUME unsolved # {} PROVE FALSE
    OBVIOUS
  <2>0. unsolved \in SUBSET Nat
    OBVIOUS
  <2>1. PICK n \in unsolved : \A m \in unsolved : n <= m
    <3> HIDE DEF unsolved
    <3> QED
      BY Least, <2>0
  <2>2. n \in 0..MaxPasses /\ ~\E f : Pass(n, f)
    OBVIOUS
  <2>3. n # 0
    <3> SUFFICES ASSUME n = 0 PROVE FALSE
      OBVIOUS
    <3> DEFINE f == [k \in 0..0 |-> t]
    <3>1. f = [k \in 0..0 |-> IF k = 0 THEN t ELSE StripTags(f[k - 1])]
      OBVIOUS
    <3> HIDE DEF f
    <3> QED
      BY <2>2, <3>1
  <2>4. n - 1 \in 0..MaxPasses /\ ~(n <= n - 1) /\ n \in 1..MaxPasses
    BY <1>0, <2>2, <2>3
  <2>5. n - 1 \notin unsolved
    <3> HIDE DEF unsolved
    <3> QED
      BY <2>1, <2>4
  <2>6. PICK f : Pass(n - 1, f)
    BY <2>4, <2>5
  <2> DEFINE g == [k \in 0..n |-> IF k = n THEN StripTags(f[n - 1]) ELSE f[k]]
  <2>7. \A k \in 0..n : g[k] = IF k = 0 THEN t ELSE StripTags(g[k - 1])
    <3> TAKE k \in 0..n
    <3>1. CASE k = n
      <4>1. g[k] = StripTags(f[n - 1]) /\ k # 0 /\ g[k - 1] = f[n - 1]
        BY <2>4, <3>1
      <4> QED
        BY <3>1, <4>1
    <3>2. CASE k # n
      <4>1. k \in 0..(n - 1) /\ g[k] = f[k] /\ (k # 0 => g[k - 1] = f[k - 1])
        BY <2>4, <3>2
      <4>2. f[k] = IF k = 0 THEN t ELSE StripTags(f[k - 1])
        BY <2>6, <4>1
      <4> QED
        BY <4>1, <4>2
    <3> QED
      BY <3>1, <3>2
  <2>8. g = [k \in 0..n |-> IF k = 0 THEN t ELSE StripTags(g[k - 1])]
    BY <2>7
  <2> HIDE DEF g
  <2> QED
    BY <2>2, <2>8
<1> DEFINE f == Passes(t)
<1>2. f = CHOOSE h : Pass(MaxPasses, h)
  BY DEF Passes
<1>3. Pass(MaxPasses, f)
  <2>1. MaxPasses \in 0..MaxPasses /\ MaxPasses \notin unsolved
    BY <1>0, <1>1
  <2>2. \E h : Pass(MaxPasses, h)
    BY <2>1
  <2> HIDE DEF Pass, f
  <2> QED
    BY <1>2, <2>2
<1>4. \A k \in 0..MaxPasses : f[k] = IF k = 0 THEN t ELSE StripTags(f[k - 1])
  BY <1>3
<1> HIDE DEF f, Pass
<1> DEFINE Kept(s) == s \in Seq(T) /\ (Openings(t) = {} => s = t)
           bad == {n \in 0..MaxPasses : ~Kept(f[n])}
<1>5. ASSUME NEW s, Kept(s) PROVE Kept(StripTags(s))
  <2>1. s \in Seq(T) /\ (Openings(t) = {} => s = t)
    BY <1>5
  <2>2. StripTags(s) \in Seq(T) /\ (Openings(s) = {} => StripTags(s) = s)
    BY <2>1, Stripped
  <2> QED
    BY <2>1, <2>2
<1>6. bad = {}
  <2> SUFFICES ASSUME bad # {} PROVE FALSE
    OBVIOUS
  <2>0. bad \in SUBSET Nat
    OBVIOUS
  <2>1. PICK n \in bad : \A m \in bad : n <= m
    <3> HIDE DEF bad
    <3> QED
      BY Least, <2>0
  <2>2. n \in 0..MaxPasses /\ ~Kept(f[n])
    <3> HIDE DEF Kept
    <3> QED
      OBVIOUS
  <2>3. CASE n = 0
    BY <1>4, <2>2, <2>3
  <2>4. CASE n # 0
    <3>1. n - 1 \in 0..MaxPasses /\ ~(n <= n - 1)
      BY <1>0, <2>2, <2>4
    <3>2. n - 1 \notin bad
      <4> HIDE DEF bad
      <4> QED
        BY <2>1, <3>1
    <3> HIDE DEF Kept
    <3>3. Kept(f[n - 1])
      BY <3>1, <3>2
    <3>4. f[n] = StripTags(f[n - 1])
      BY <1>4, <2>2, <2>4
    <3> QED
      BY <1>5, <2>2, <3>3, <3>4
  <2> QED
    BY <2>3, <2>4
<1> QED
  BY <1>6 DEF f

(* What the fence is put around has no opening of a tag in it.             *)
LEMMA NothingOpens ==
  ASSUME NEW T, {"look<", "look>"} \subseteq T, NEW t \in Seq(T)
  PROVE  /\ StripFenceTags(t) \in Seq(T) /\ Openings(StripFenceTags(t)) = {}
         /\ Openings(t) = {} => StripFenceTags(t) = t
<1> DEFINE r == Passes(t)[MaxPasses]
<1>0. MaxPasses \in 0..MaxPasses /\ MaxPasses - 1 \in 0..MaxPasses
  BY TextAssumption
<1>1. r \in Seq(T) /\ (Openings(t) = {} => r = t /\ Passes(t)[MaxPasses - 1] = t)
  BY <1>0, PassesEnd
<1>2. Len(r) \in Nat /\ DOMAIN r = 1..Len(r) /\ \A i \in 1..Len(r) : r[i] \in T
  BY <1>1
<1>3. StripFenceTags(t) =
        IF r # Passes(t)[MaxPasses - 1] \/ Openings(r) # {} THEN Neutralise(r) ELSE r
  BY DEF StripFenceTags
<1> HIDE DEF r
<1>4. Neutralise(r) \in [1..Len(r) -> T]
  BY <1>2 DEF Neutralise
<1>5. Neutralise(r) \in Seq(T)
  BY <1>2, <1>4
<1>6. Openings(Neutralise(r)) = {}
  <2>1. \A i \in DOMAIN Neutralise(r) : Neutralise(r)[i] # "<"
    BY <1>2 DEF Neutralise
  <2> QED
    BY <2>1 DEF Openings, PrefixEnds
<1> QED
  BY <1>1, <1>3, <1>5, <1>6

(* Nor has a beginning of such a text. *)
LEMMA Beginning ==
  ASSUME NEW T, NEW t \in Seq(T), Openings(t) = {}, NEW n \in 0..Len(t)
  PROVE  Openings(SubSeq(t, 1, n)) = {}
<1> DEFINE s == SubSeq(t, 1, n)
<1>1. Len(t) \in Nat /\ n \in Nat /\ n <= Len(t) /\ DOMAIN t = 1..Len(t)
  OBVIOUS
<1>2. s \in Seq(T) /\ Len(s) = n /\ DOMAIN s = 1..n /\ \A i \in 1..n : s[i] = t[i]
  BY <1>1
<1> HIDE DEF s
<1> SUFFICES ASSUME NEW i \in Openings(s) PROVE FALSE
  BY DEF s
<1>3. i \in 1..n /\ PrefixEnds(s, i) # {}
  BY <1>2 DEF Openings
<1>4. PICK k \in (i + 1)..(Len(s) - 1) :
        /\ s[i] = "<" /\ s[k] = "untrusted" /\ s[k + 1] \in {" ", ">", "/"}
        /\ \A j \in (i + 1)..(k - 1) : s[j] \in {" ", "/"}
        /\ \A j, l \in (i + 1)..(k - 1) : s[j] = "/" /\ s[l] = "/" => j = l
  BY <1>3 DEF PrefixEnds
<1>5. k \in (i + 1)..(Len(t) - 1) /\ i \in 1..Len(t) /\ k \in 1..n /\ k + 1 \in 1..n
  BY <1>1, <1>2, <1>3
<1>6. \A j \in (i + 1)..(k - 1) : j \in 1..n
  BY <1>1, <1>3, <1>5
<1>7. /\ t[i] = "<" /\ t[k] = "untrusted" /\ t[k + 1] \in {" ", ">", "/"}
      /\ \A j \in (i + 1)..(k - 1) : t[j] \in {" ", "/"}
      /\ \A j, l \in (i + 1)..(k - 1) : t[j] = "/" /\ t[l] = "/" => j = l
  BY <1>2, <1>3, <1>4, <1>5, <1>6
<1>8. k \in PrefixEnds(t, i)
  BY <1>5, <1>7 DEF PrefixEnds
<1> QED
  BY <1>1, <1>5, <1>8 DEF Openings

(* What the tags are made of are texts. *)
LEMMA Short ==
  ASSUME NEW U, NEW a \in U, NEW b \in U, NEW c \in U, NEW d \in U, NEW e \in U
  PROVE  /\ <<a>> \in Seq(U) /\ Len(<<a>>) = 1
         /\ <<a, b, c, d>> \in Seq(U) /\ Len(<<a, b, c, d>>) = 4
         /\ <<a, b, c, d, e>> \in Seq(U) /\ Len(<<a, b, c, d, e>>) = 5
OBVIOUS

(* The first token of two. *)
LEMMA Pair ==
  ASSUME NEW a, NEW b
  PROVE  <<a, b>>[1] = a
OBVIOUS

(* The second token of two. *)
LEMMA Partner ==
  ASSUME NEW a, NEW b
  PROVE  <<a, b>>[2] = b
OBVIOUS

(* Where the tokens of two texts are when these are joined. *)
LEMMA Joined ==
  ASSUME NEW U, NEW s \in Seq(U), NEW t \in Seq(U)
  PROVE  /\ s \o t \in Seq(U) /\ Len(s \o t) = Len(s) + Len(t)
         /\ \A i \in 1..Len(s) : (s \o t)[i] = s[i]
         /\ \A i \in (Len(s) + 1)..(Len(s) + Len(t)) : (s \o t)[i] = t[i - Len(s)]
OBVIOUS

Before == OpenTag \o <<" ">>
After == <<" ">> \o CloseTag

(* Where a field is in its fence. *)
LEMMA Layout ==
  ASSUME NEW T, Marks \subseteq T, NEW t \in Seq(T)
  PROVE  /\ Around(t) \in Seq(T) /\ Len(Around(t)) = Len(t) + 11
         /\ \A i \in 1..6 : Around(t)[i] = Before[i]
         /\ \A i \in 7..(6 + Len(t)) : Around(t)[i] = t[i - 6]
         /\ \A i \in (7 + Len(t))..(11 + Len(t)) : Around(t)[i] = After[i - 6 - Len(t)]
<1> DEFINE o == OpenTag
           c == CloseTag
           s == <<" ">>
           u == Before \o t
<1>0. "<" \in T /\ "untrusted" \in T /\ " " \in T /\ "source" \in T /\ ">" \in T /\ "/" \in T
  BY DEF Marks
<1>1. o \in Seq(T) /\ Len(o) = 5
  BY <1>0, Short DEF OpenTag
<1>2. c \in Seq(T) /\ Len(c) = 4
  BY <1>0, Short DEF CloseTag
<1>3. s \in Seq(T) /\ Len(s) = 1
  BY <1>0, Short
<1>4. Len(t) \in Nat
  OBVIOUS
<1>5. Around(t) = (((o \o s) \o t) \o s) \o c /\ Before = o \o s /\ After = s \o c
  BY DEF Around, Before, After
<1> HIDE DEF o, c, s
<1>6. Before \in Seq(T) /\ Len(Before) = Len(o) + Len(s)
  BY <1>1, <1>3, <1>5, Joined
<1>7. After \in Seq(T) /\ Len(After) = Len(s) + Len(c)
  BY <1>2, <1>3, <1>5, Joined
<1>8. o \in Seq(T) /\ c \in Seq(T) /\ s \in Seq(T)
  BY <1>1, <1>2, <1>3
<1>9. Before \in Seq(T) /\ After \in Seq(T)
  BY <1>6, <1>7
<1>10. /\ u \in Seq(T) /\ Len(u) = Len(Before) + Len(t)
       /\ \A i \in 1..Len(Before) : u[i] = Before[i]
       /\ \A i \in (Len(Before) + 1)..(Len(Before) + Len(t)) : u[i] = t[i - Len(Before)]
  BY <1>9, Joined
<1>11. u \in Seq(T)
  BY <1>10
<1>12. Around(t) = u \o After
  <2> HIDE DEF u
  <2>1. (u \o s) \o c = u \o (s \o c)
    <3>1. \A x, y, z \in Seq(T) : (x \o y) \o z = x \o (y \o z)
      BY ConcatAssociative
    <3> QED
      BY <1>8, <1>11, <3>1
  <2>2. Around(t) = (u \o s) \o c
    BY <1>5 DEF u
  <2> QED
    BY <1>5, <2>1, <2>2
<1> HIDE DEF u
<1>13. /\ Around(t) \in Seq(T) /\ Len(Around(t)) = Len(u) + Len(After)
       /\ \A i \in 1..Len(u) : Around(t)[i] = u[i]
       /\ \A i \in (Len(u) + 1)..(Len(u) + Len(After)) : Around(t)[i] = After[i - Len(u)]
  BY <1>9, <1>11, <1>12, Joined
<1>14. Len(Before) = 6 /\ Len(After) = 5 /\ Len(u) = 6 + Len(t)
  BY <1>1, <1>2, <1>3, <1>6, <1>7, <1>10
<1>15. \A i \in 1..(6 + Len(t)) : Around(t)[i] = u[i]
  BY <1>13, <1>14
<1>16. \A i \in 1..6 : i \in 1..(6 + Len(t)) /\ u[i] = Before[i]
  BY <1>4, <1>10, <1>14
<1>17. \A i \in 7..(6 + Len(t)) : i \in 1..(6 + Len(t)) /\ u[i] = t[i - 6]
  BY <1>4, <1>10, <1>14
<1>18. \A i \in (7 + Len(t))..(11 + Len(t)) : Around(t)[i] = After[i - (6 + Len(t))]
  BY <1>4, <1>13, <1>14
<1>19. \A i \in (7 + Len(t))..(11 + Len(t)) : i - (6 + Len(t)) = i - 6 - Len(t)
  BY <1>4
<1>20. Len(Around(t)) = Len(t) + 11
  BY <1>4, <1>13, <1>14
<1> QED
  BY <1>13, <1>15, <1>16, <1>17, <1>18, <1>19, <1>20

(* The pipeline can write what it needs to. *)
LEMMA Widest ==
  Marks \subseteq Token
BY DEF Marks, Token

(* A fence, or what a sink has left of one, holds what is in it. *)
LEMMA FenceCut ==
  ASSUME NEW t \in Seq(Token), Openings(t) = {}, NEW limit, limit = None \/ limit \in Nat
  PROVE  Enclosed(Truncate(Around(t), limit))
<1> DEFINE m == Truncate(Around(t), limit)
<1>0. Len(t) \in Nat /\ Len(OpenTag) + 2 = 7
  BY DEF OpenTag
<1>1. \A i \in 1..Len(t) : t[i] \in Token
  OBVIOUS
<1>2. CASE m = Around(t)
  <2> DEFINE q == SubSeq(m, 7, 6 + Len(t))
  <2>1. m \in Seq(Token) /\ Len(m) = Len(t) + 11 /\ 6 + Len(t) \in 0..Len(m)
    <3>1. Around(t) \in Seq(Token) /\ Len(Around(t)) = Len(t) + 11
      BY Layout, Widest
    <3>2. m \in Seq(Token) /\ Len(m) = Len(t) + 11
      BY <1>2, <3>1
    <3> HIDE DEF m
    <3> QED
      BY <1>0, <3>2
  <2>2. \A i \in 7..(6 + Len(t)) : m[i] = t[i - 6] /\ m[i] \in Token
    <3>1. \A i \in 7..(6 + Len(t)) : Around(t)[i] = t[i - 6]
      BY Layout, Widest
    <3>2. \A i \in 7..(6 + Len(t)) : m[i] = t[i - 6]
      BY <1>2, <3>1
    <3>3. \A i \in 7..(6 + Len(t)) : i - 6 \in 1..Len(t)
      BY <1>0
    <3> HIDE DEF m
    <3> QED
      BY <1>1, <3>2, <3>3
  <2> HIDE DEF m
  <2>3. q \in Seq(Token) /\ Len(q) = Len(t) /\ \A i \in 1..Len(t) : q[i] = m[7 + i - 1]
    BY <1>0, <2>2, SubSeqProperties
  <2>4. \A i \in 1..Len(q) : q[i] = t[i]
    BY <1>0, <2>2, <2>3
  <2> HIDE DEF q
  <2>5. q = t
    BY <2>3, <2>4, SeqEqual
  <2> DEFINE k == 6 + Len(t)
  <2>6. k \in 0..Len(m) /\ SubSeq(m, Len(OpenTag) + 2, k) = t
    BY <1>0, <2>1, <2>5 DEF q
  <2> HIDE DEF k
  <2>7. Openings(SubSeq(m, Len(OpenTag) + 2, k)) = {} /\ m = Around(SubSeq(m, Len(OpenTag) + 2, k))
    BY <1>2, <2>6
  <2>8. Enclosed(m)
    BY <2>6, <2>7 DEF Enclosed
  <2> QED
    BY <2>8 DEF m
<1>3. CASE m # Around(t)
  <2> DEFINE a == Around(t)
             n == limit
             p == IF n <= 6 THEN 0 ELSE IF n <= 6 + Len(t) THEN n - 6 ELSE Len(t)
             q == SubSeq(t, 1, p)
  <2>1. a \in Seq(Token) /\ Len(a) = Len(t) + 11
    BY Layout, Widest
  <2>2. n \in Nat /\ n < Len(a) /\ m = Append(SubSeq(a, 1, n), "cut")
    BY <1>0, <1>3, <2>1 DEF Truncate
  <2>3. /\ SubSeq(a, 1, n) \in Seq(Token) /\ Len(SubSeq(a, 1, n)) = n
        /\ \A i \in 1..n : SubSeq(a, 1, n)[i] = a[i] /\ a[i] \in Token
    BY <1>0, <2>1, <2>2
  <2> HIDE DEF a, m
  <2>4. Len(m) = n + 1 /\ \A i \in 1..n : m[i] = a[i] /\ m[i] \in Token
    BY <2>2, <2>3
  <2>5. /\ p \in 0..Len(t) /\ p \in Nat /\ n < p + 11 /\ (p > 0 => 6 + p <= n)
        /\ (n > 6 + p => p = Len(t))
    BY <1>0, <2>1, <2>2 DEF a
  <2> HIDE DEF p
  <2>6. q \in Seq(Token) /\ Len(q) = p /\ \A i \in 1..p : q[i] = t[i]
    BY <1>0, <2>5
  <2>7. Openings(q) = {}
    BY <2>5, Beginning
  <2> HIDE DEF q
  <2> DEFINE b == Around(q)
             k == IF p = 0 THEN 0 ELSE 6 + p
  <2>8. b \in Seq(Token) /\ Len(b) = p + 11
    BY <2>6, Layout, Widest
  <2>9. ASSUME NEW i \in 1..n PROVE b[i] = a[i]
    <3>1. CASE i \in 1..6
      <4>1. a[i] = Before[i]
        BY <3>1, Layout, Widest DEF a
      <4>2. b[i] = Before[i]
        BY <2>6, <3>1, Layout, Widest
      <4> QED
        BY <4>1, <4>2
    <3>2. CASE i \in 7..(6 + p)
      <4>1. i \in 7..(6 + Len(t)) /\ i - 6 \in 1..p
        BY <1>0, <2>5, <3>2
      <4>2. a[i] = t[i - 6]
        BY <4>1, Layout, Widest DEF a
      <4>3. b[i] = q[i - 6]
        BY <2>6, <3>2, Layout, Widest
      <4> QED
        BY <2>6, <4>1, <4>2, <4>3
    <3>3. CASE i > 6 + p
      <4>1. p = Len(t) /\ i \in (7 + p)..(11 + p)
        BY <2>2, <2>5, <3>3
      <4>2. a[i] = After[i - 6 - Len(t)]
        BY <4>1, Layout, Widest DEF a
      <4>3. b[i] = After[i - 6 - Len(q)]
        BY <2>6, <4>1, Layout, Widest
      <4> QED
        BY <2>6, <4>1, <4>2, <4>3
    <3> QED
      BY <2>2, <2>5, <3>1, <3>2, <3>3
  <2> HIDE DEF b
  <2>10. /\ SubSeq(b, 1, n) \in Seq(Token) /\ Len(SubSeq(b, 1, n)) = n
         /\ \A i \in 1..n : SubSeq(b, 1, n)[i] = b[i]
    BY <2>2, <2>5, <2>8
  <2>11. SubSeq(b, 1, n) = SubSeq(a, 1, n)
    <3>1. \A i \in 1..Len(SubSeq(b, 1, n)) : SubSeq(b, 1, n)[i] = SubSeq(a, 1, n)[i]
      BY <2>3, <2>9, <2>10
    <3> QED
      BY <2>3, <2>10, <3>1, SeqEqual
  <2>12. Len(m) - 1 = n /\ ~(Len(b) <= n)
    BY <2>2, <2>4, <2>5, <2>8
  <2>13. m = Truncate(b, Len(m) - 1)
    <3>1. n # None
      BY <1>3 DEF m, Truncate
    <3>2. Truncate(b, n) = Append(SubSeq(b, 1, n), "cut")
      BY <2>12, <3>1 DEF Truncate
    <3> QED
      BY <2>2, <2>11, <2>12, <3>2
  <2>14. SubSeq(m, 7, k) = q
    <3>1. CASE p = 0
      <4>1. SubSeq(m, 7, 0) = <<>>
        BY SubSeqEmpty
      <4> QED
        BY <2>6, <3>1, <4>1
    <3>2. CASE p # 0
      <4>1. \A i \in 7..k : i \in 1..n /\ i \in 7..(6 + Len(t)) /\ k - 7 + 1 = p /\ 7 <= k
        BY <1>0, <2>2, <2>5, <3>2
      <4>2. \A i \in 7..k : m[i] = t[i - 6] /\ m[i] \in Token
        BY <2>4, <4>1, Layout, Widest DEF a
      <4>3. /\ SubSeq(m, 7, k) \in Seq(Token) /\ Len(SubSeq(m, 7, k)) = p
            /\ \A i \in 1..p : SubSeq(m, 7, k)[i] = m[7 + i - 1]
        <5>1. 7 \in Int /\ k \in Int /\ 7 <= k /\ k - 7 + 1 = p
          BY <2>5, <3>2
        <5> HIDE DEF k
        <5> QED
          BY <4>2, <5>1, SubSeqProperties
      <4>4. \A i \in 1..p : SubSeq(m, 7, k)[i] = q[i]
        <5> TAKE i \in 1..p
        <5>1. 7 + i - 1 \in 7..k /\ 7 + i - 1 - 6 = i
          BY <2>5, <3>2
        <5> HIDE DEF k
        <5> QED
          BY <2>6, <4>2, <4>3, <5>1
      <4> HIDE DEF k
      <4> QED
        BY <2>6, <4>3, <4>4, SeqEqual
    <3> QED
      BY <3>1, <3>2
  <2>15. k \in 0..Len(m)
    BY <2>2, <2>4, <2>5
  <2> HIDE DEF k
  <2> QED
    BY <1>0, <2>7, <2>13, <2>14, <2>15 DEF Enclosed, b, m
<1> QED
  BY <1>2, <1>3

-----------------------------------------------------------------------------
(* What tags and secrets have to do with each other: nothing. *)

Ends == {" ", ">", "/"}
Blanks == {" ", "/"}

(* s goes on after the keyword of a tag. *)
Word(s) == Len(s) > 0 /\ s[1] \in Ends

(* s goes on after the bracket of a tag, and whether there has been a slash. *)
Goes(s, slash, k) ==
  /\ k \in 1..(Len(s) - 1) /\ s[k] = "untrusted" /\ s[k + 1] \in Ends
  /\ \A j \in 1..(k - 1) : s[j] \in Blanks /\ (slash => s[j] # "/")
  /\ \A j, l \in 1..(k - 1) : s[j] = "/" /\ s[l] = "/" => j = l

GoesOn(s, slash) == \E k \in 1..(Len(s) - 1) : Goes(s, slash, k)

(* Two texts that the expressions of the fence do not tell apart. *)
Alike(s, t) ==
  /\ Word(s) <=> Word(t)
  /\ \A slash \in BOOLEAN : GoesOn(s, slash) <=> GoesOn(t, slash)
  /\ Openings(s) = {} <=> Openings(t) = {}

(* w is s with the token c before it. *)
Puts(c, s, w) ==
  /\ Len(s) \in Nat /\ Len(w) = Len(s) + 1 /\ DOMAIN s = 1..Len(s) /\ DOMAIN w = 1..Len(w)
  /\ w[1] = c /\ \A j \in 1..Len(s) : w[j + 1] = s[j]

(* Joining a token and a text puts the one before the other. *)
LEMMA Putting ==
  ASSUME NEW T, NEW c \in T, NEW s \in Seq(T)
  PROVE  Puts(c, s, <<c>> \o s) /\ <<c>> \o s \in Seq(T)
<1>1. <<c>> \in Seq(T) /\ Len(<<c>>) = 1 /\ <<c>>[1] = c
  OBVIOUS
<1> DEFINE o == <<c>>
<1>2. o \in Seq(T)
  BY <1>1
<1>3. Len(s) \in Nat /\ DOMAIN s = 1..Len(s)
  OBVIOUS
<1> HIDE DEF o
<1>4. /\ o \o s \in Seq(T) /\ Len(o \o s) = Len(o) + Len(s)
      /\ \A i \in 1..Len(o) : (o \o s)[i] = o[i]
      /\ \A i \in (Len(o) + 1)..(Len(o) + Len(s)) : (o \o s)[i] = s[i - Len(o)]
  BY <1>2, Joined
<1> DEFINE w == o \o s
<1>5. DOMAIN w = 1..Len(w)
  BY <1>4
<1> HIDE DEF w
<1>6. Len(w) = Len(s) + 1 /\ w[1] = c
  BY <1>1, <1>3, <1>4 DEF o, w
<1>7. ASSUME NEW j \in 1..Len(s) PROVE w[j + 1] = s[j]
  <2>1. j + 1 \in (Len(o) + 1)..(Len(o) + Len(s)) /\ j + 1 - Len(o) = j
    BY <1>1, <1>3 DEF o
  <2> QED
    BY <1>4, <2>1 DEF w
<1>8. Puts(c, s, w)
  BY <1>3, <1>5, <1>6, <1>7 DEF Puts
<1> QED
  BY <1>4, <1>8 DEF o, w

(* What a token adds to what comes after it. *)
LEMMA Reading ==
  ASSUME NEW c, NEW s, NEW w, Puts(c, s, w)
  PROVE  /\ Word(w) <=> c \in Ends
         /\ \A slash \in BOOLEAN :
              GoesOn(w, slash) <=> \/ c = "untrusted" /\ Word(s)
                                   \/ c = " " /\ GoesOn(s, slash)
                                   \/ c = "/" /\ ~slash /\ GoesOn(s, TRUE)
         /\ Openings(w) # {} <=> (c = "<" /\ GoesOn(s, FALSE)) \/ Openings(s) # {}
<1>1. Len(s) \in Nat /\ Len(w) = Len(s) + 1 /\ DOMAIN s = 1..Len(s) /\ DOMAIN w = 1..Len(w)
  BY DEF Puts
<1>2. w[1] = c /\ \A j \in 1..Len(s) : w[j + 1] = s[j]
  BY DEF Puts
<1>3. Word(w) <=> c \in Ends
  BY <1>1, <1>2 DEF Word
<1>4. ASSUME NEW slash \in BOOLEAN, NEW k \in 2..(Len(w) - 1)
      PROVE  Goes(w, slash, k) <=> \/ c = " " /\ Goes(s, slash, k - 1)
                                   \/ c = "/" /\ ~slash /\ Goes(s, TRUE, k - 1)
  <2>1. k - 1 \in 1..(Len(s) - 1) /\ k - 1 \in 1..Len(s) /\ k \in 1..Len(s) /\ k - 1 + 1 = k
    BY <1>1
  <2>2. w[k] = s[k - 1] /\ w[k + 1] = s[k - 1 + 1]
    BY <1>2, <2>1
  <2>3. \A j \in 2..(k - 1) : j - 1 \in 1..(k - 1 - 1) /\ w[j] = s[j - 1]
    BY <1>1, <1>2, <2>1
  <2>4. \A j \in 1..(k - 1 - 1) : j + 1 \in 2..(k - 1) /\ w[j + 1] = s[j]
    BY <1>1, <1>2, <2>1
  <2>5. 1 \in 1..(k - 1) /\ \A j \in 1..(k - 1) : j = 1 \/ j \in 2..(k - 1)
    BY <2>1
  <2>6. ASSUME Goes(w, slash, k)
        PROVE  \/ c = " " /\ Goes(s, slash, k - 1)
               \/ c = "/" /\ ~slash /\ Goes(s, TRUE, k - 1)
    <3>1. /\ w[k] = "untrusted" /\ w[k + 1] \in Ends
          /\ \A j \in 1..(k - 1) : w[j] \in Blanks /\ (slash => w[j] # "/")
          /\ \A j, l \in 1..(k - 1) : w[j] = "/" /\ w[l] = "/" => j = l
      BY <2>6 DEF Goes
    <3>2. c \in Blanks /\ (slash => c # "/")
      BY <1>2, <2>5, <3>1
    <3>3. ASSUME NEW j \in 1..(k - 1 - 1)
          PROVE  s[j] \in Blanks /\ (slash => s[j] # "/") /\ (c = "/" => s[j] # "/")
      <4>1. j + 1 \in 1..(k - 1) /\ j + 1 # 1 /\ w[j + 1] = s[j]
        BY <2>4
      <4> QED
        BY <1>2, <2>5, <3>1, <4>1
    <3>4. ASSUME NEW j \in 1..(k - 1 - 1), NEW l \in 1..(k - 1 - 1), s[j] = "/", s[l] = "/"
          PROVE  j = l
      <4>1. j + 1 \in 1..(k - 1) /\ l + 1 \in 1..(k - 1) /\ w[j + 1] = "/" /\ w[l + 1] = "/"
        BY <2>4, <3>4
      <4>2. j + 1 = l + 1
        BY <3>1, <4>1
      <4> QED
        BY <2>1, <4>2
    <3>5. s[k - 1] = "untrusted" /\ s[k - 1 + 1] \in Ends
      BY <2>2, <3>1
    <3> QED
      BY <2>1, <3>2, <3>3, <3>4, <3>5 DEF Goes, Blanks
  <2>7. ASSUME NEW b \in BOOLEAN, Goes(s, b, k - 1), c \in Blanks, c = "/" => b,
               slash => b /\ c # "/"
        PROVE  Goes(w, slash, k)
    <3>1. /\ s[k - 1] = "untrusted" /\ s[k - 1 + 1] \in Ends
          /\ \A j \in 1..(k - 1 - 1) : s[j] \in Blanks /\ (b => s[j] # "/")
          /\ \A j, l \in 1..(k - 1 - 1) : s[j] = "/" /\ s[l] = "/" => j = l
      BY <2>7 DEF Goes
    <3>2. \A j \in 1..(k - 1) : w[j] \in Blanks /\ (slash => w[j] # "/")
      BY <1>2, <2>3, <2>5, <2>7, <3>1
    <3>3. ASSUME NEW j \in 1..(k - 1), NEW l \in 1..(k - 1), w[j] = "/", w[l] = "/"
          PROVE  j = l
      <4>1. CASE j = 1 \/ l = 1
        BY <1>2, <2>3, <2>5, <2>7, <3>1, <3>3, <4>1
      <4>2. CASE j # 1 /\ l # 1
        <5>1. /\ j - 1 \in 1..(k - 1 - 1) /\ l - 1 \in 1..(k - 1 - 1)
              /\ s[j - 1] = "/" /\ s[l - 1] = "/"
          BY <2>3, <2>5, <3>3, <4>2
        <5>2. j - 1 = l - 1
          BY <3>1, <5>1
        <5> QED
          BY <2>1, <5>2
      <4> QED
        BY <4>1, <4>2
    <3>4. k \in 1..(Len(w) - 1) /\ w[k] = "untrusted" /\ w[k + 1] \in Ends
      BY <1>1, <2>2, <3>1
    <3> QED
      BY <3>2, <3>3, <3>4 DEF Goes
  <2>8. CASE c = " " /\ Goes(s, slash, k - 1)
    BY <2>7, <2>8 DEF Blanks
  <2>9. CASE c = "/" /\ ~slash /\ Goes(s, TRUE, k - 1)
    BY <2>7, <2>9 DEF Blanks
  <2> QED
    BY <2>6, <2>8, <2>9
<1>5. ASSUME NEW slash \in BOOLEAN
      PROVE  GoesOn(w, slash) <=> \/ c = "untrusted" /\ Word(s)
                                  \/ c = " " /\ GoesOn(s, slash)
                                  \/ c = "/" /\ ~slash /\ GoesOn(s, TRUE)
  <2>1. ASSUME NEW k \in 1..(Len(w) - 1), Goes(w, slash, k)
        PROVE  \/ c = "untrusted" /\ Word(s)
               \/ c = " " /\ GoesOn(s, slash)
               \/ c = "/" /\ ~slash /\ GoesOn(s, TRUE)
    <3>1. CASE k = 1
      <4>1. w[1] = "untrusted" /\ w[1 + 1] \in Ends
        BY <2>1, <3>1 DEF Goes
      <4>2. 1 \in 1..Len(s) /\ Len(s) > 0
        BY <1>1, <2>1, <3>1
      <4>3. w[1 + 1] = s[1]
        BY <1>2, <4>2
      <4> QED
        BY <1>2, <4>1, <4>2, <4>3 DEF Word
    <3>2. CASE k # 1
      <4>1. k \in 2..(Len(w) - 1) /\ k - 1 \in 1..(Len(s) - 1)
        BY <1>1, <3>2
      <4> QED
        BY <1>4, <2>1, <4>1 DEF GoesOn
    <3> QED
      BY <3>1, <3>2
  <2>2. ASSUME c = "untrusted", Word(s) PROVE GoesOn(w, slash)
    <3>1. 1 \in 1..Len(s) /\ 1 \in 1..(Len(w) - 1)
      BY <1>1, <2>2 DEF Word
    <3>2. w[1] = "untrusted" /\ w[1 + 1] \in Ends
      BY <1>2, <2>2, <3>1 DEF Word
    <3>3. 1..(1 - 1) = {}
      OBVIOUS
    <3>4. Goes(w, slash, 1)
      BY <3>1, <3>2, <3>3 DEF Goes
    <3> QED
      BY <3>1, <3>4 DEF GoesOn
  <2>3. ASSUME NEW b \in BOOLEAN, GoesOn(s, b),
               (c = " " /\ b = slash) \/ (c = "/" /\ ~slash /\ b = TRUE)
        PROVE  GoesOn(w, slash)
    <3>1. PICK k \in 1..(Len(s) - 1) : Goes(s, b, k)
      BY <2>3 DEF GoesOn
    <3>2. PICK m \in 2..(Len(w) - 1) : m \in 1..(Len(w) - 1) /\ m - 1 = k
      <4>1. k + 1 \in 2..(Len(w) - 1) /\ k + 1 \in 1..(Len(w) - 1) /\ k + 1 - 1 = k
        BY <1>1
      <4> QED
        BY <4>1
    <3>3. Goes(s, b, m - 1)
      BY <3>1, <3>2
    <3>4. Goes(w, slash, m)
      BY <1>4, <2>3, <3>2, <3>3
    <3> QED
      BY <3>2, <3>4 DEF GoesOn
  <2>4. GoesOn(w, slash) => \E k \in 1..(Len(w) - 1) : Goes(w, slash, k)
    BY DEF GoesOn
  <2> QED
    BY <2>1, <2>2, <2>3, <2>4
<1>6. ASSUME NEW k \in 2..(Len(w) - 1)
      PROVE  k \in PrefixEnds(w, 1) <=> c = "<" /\ Goes(s, FALSE, k - 1)
  <2>1. k - 1 \in 1..(Len(s) - 1) /\ k - 1 \in 1..Len(s) /\ k \in 1..Len(s) /\ k - 1 + 1 = k
    BY <1>1
  <2>2. w[k] = s[k - 1] /\ w[k + 1] = s[k - 1 + 1]
    BY <1>2, <2>1
  <2>3. \A j \in 2..(k - 1) : j - 1 \in 1..(k - 1 - 1) /\ w[j] = s[j - 1]
    BY <1>1, <1>2, <2>1
  <2>4. \A j \in 1..(k - 1 - 1) : j + 1 \in 2..(k - 1) /\ w[j + 1] = s[j]
    BY <1>1, <1>2, <2>1
  <2>5. (\A j \in 2..(k - 1) : w[j] \in Blanks) <=> \A j \in 1..(k - 1 - 1) : s[j] \in Blanks
    BY <2>3, <2>4
  <2>6. (\A j, l \in 2..(k - 1) : w[j] = "/" /\ w[l] = "/" => j = l)
          <=> \A j, l \in 1..(k - 1 - 1) : s[j] = "/" /\ s[l] = "/" => j = l
    <3>1. ASSUME \A j, l \in 2..(k - 1) : w[j] = "/" /\ w[l] = "/" => j = l,
                 NEW j \in 1..(k - 1 - 1), NEW l \in 1..(k - 1 - 1), s[j] = "/", s[l] = "/"
          PROVE  j = l
      <4>1. j + 1 = l + 1
        BY <2>4, <3>1
      <4> QED
        BY <2>1, <4>1
    <3>2. ASSUME \A j, l \in 1..(k - 1 - 1) : s[j] = "/" /\ s[l] = "/" => j = l,
                 NEW j \in 2..(k - 1), NEW l \in 2..(k - 1), w[j] = "/", w[l] = "/"
          PROVE  j = l
      <4>1. j - 1 = l - 1
        BY <2>3, <3>2
      <4> QED
        BY <2>1, <4>1
    <3> QED
      BY <3>1, <3>2
  <2>7. k \in PrefixEnds(w, 1) <=>
          /\ w[1] = "<" /\ w[k] = "untrusted" /\ w[k + 1] \in Ends
          /\ \A j \in 2..(k - 1) : w[j] \in Blanks
          /\ \A j, l \in 2..(k - 1) : w[j] = "/" /\ w[l] = "/" => j = l
    <3>1. 1 + 1 = 2
      OBVIOUS
    <3> QED
      BY <3>1 DEF PrefixEnds, Ends, Blanks
  <2> QED
    BY <1>2, <2>1, <2>2, <2>5, <2>6, <2>7 DEF Goes
<1>7. ASSUME NEW i \in 1..Len(s), NEW k \in (i + 2)..(Len(w) - 1)
      PROVE  k \in PrefixEnds(w, i + 1) <=> k - 1 \in PrefixEnds(s, i)
  <2>1. /\ k - 1 \in (i + 1)..(Len(s) - 1) /\ k - 1 \in 1..Len(s) /\ k \in 1..Len(s)
        /\ k - 1 + 1 = k /\ i + 1 + 1 = i + 2
    BY <1>1
  <2>2. w[k] = s[k - 1] /\ w[k + 1] = s[k - 1 + 1] /\ w[i + 1] = s[i]
    BY <1>2, <2>1
  <2>3. \A j \in (i + 2)..(k - 1) : j - 1 \in (i + 1)..(k - 1 - 1) /\ w[j] = s[j - 1]
    BY <1>1, <1>2, <2>1
  <2>4. \A j \in (i + 1)..(k - 1 - 1) : j + 1 \in (i + 2)..(k - 1) /\ w[j + 1] = s[j]
    BY <1>1, <1>2, <2>1
  <2>5. (\A j \in (i + 2)..(k - 1) : w[j] \in Blanks)
          <=> \A j \in (i + 1)..(k - 1 - 1) : s[j] \in Blanks
    BY <2>3, <2>4
  <2>6. (\A j, l \in (i + 2)..(k - 1) : w[j] = "/" /\ w[l] = "/" => j = l)
          <=> \A j, l \in (i + 1)..(k - 1 - 1) : s[j] = "/" /\ s[l] = "/" => j = l
    <3>1. ASSUME \A j, l \in (i + 2)..(k - 1) : w[j] = "/" /\ w[l] = "/" => j = l,
                 NEW j \in (i + 1)..(k - 1 - 1), NEW l \in (i + 1)..(k - 1 - 1),
                 s[j] = "/", s[l] = "/"
          PROVE  j = l
      <4>1. j + 1 = l + 1
        BY <2>4, <3>1
      <4> QED
        BY <2>1, <4>1
    <3>2. ASSUME \A j, l \in (i + 1)..(k - 1 - 1) : s[j] = "/" /\ s[l] = "/" => j = l,
                 NEW j \in (i + 2)..(k - 1), NEW l \in (i + 2)..(k - 1), w[j] = "/", w[l] = "/"
          PROVE  j = l
      <4>1. j - 1 = l - 1
        BY <2>3, <3>2
      <4> QED
        BY <2>1, <4>1
    <3> QED
      BY <3>1, <3>2
  <2>7. k \in PrefixEnds(w, i + 1) <=>
          /\ w[i + 1] = "<" /\ w[k] = "untrusted" /\ w[k + 1] \in Ends
          /\ \A j \in (i + 2)..(k - 1) : w[j] \in Blanks
          /\ \A j, l \in (i + 2)..(k - 1) : w[j] = "/" /\ w[l] = "/" => j = l
    BY <2>1 DEF PrefixEnds, Ends, Blanks
  <2>8. k - 1 \in PrefixEnds(s, i) <=>
          /\ s[i] = "<" /\ s[k - 1] = "untrusted" /\ s[k - 1 + 1] \in Ends
          /\ \A j \in (i + 1)..(k - 1 - 1) : s[j] \in Blanks
          /\ \A j, l \in (i + 1)..(k - 1 - 1) : s[j] = "/" /\ s[l] = "/" => j = l
    BY <2>1 DEF PrefixEnds, Ends, Blanks
  <2> QED
    BY <2>2, <2>5, <2>6, <2>7, <2>8
<1>8. 1 \in Openings(w) <=> c = "<" /\ GoesOn(s, FALSE)
  <2>1. 1 \in Openings(w) <=> \E k \in 2..(Len(w) - 1) : k \in PrefixEnds(w, 1)
    <3>1. 1 \in DOMAIN w /\ 1 + 1 = 2
      BY <1>1
    <3>2. \A k \in PrefixEnds(w, 1) : k \in 2..(Len(w) - 1)
      BY <3>1 DEF PrefixEnds
    <3> QED
      BY <3>1, <3>2 DEF Openings
  <2>2. GoesOn(s, FALSE) <=> \E k \in 2..(Len(w) - 1) : Goes(s, FALSE, k - 1)
    <3>1. \A k \in 2..(Len(w) - 1) : k - 1 \in 1..(Len(s) - 1)
      BY <1>1
    <3>2. ASSUME NEW k \in 1..(Len(s) - 1), Goes(s, FALSE, k)
          PROVE  \E m \in 2..(Len(w) - 1) : Goes(s, FALSE, m - 1)
      <4>1. k + 1 \in 2..(Len(w) - 1) /\ k + 1 - 1 = k
        BY <1>1
      <4>2. \E m \in 2..(Len(w) - 1) : m - 1 = k
        BY <4>1
      <4> QED
        BY <3>2, <4>2
    <3> QED
      BY <3>1, <3>2 DEF GoesOn
  <2> QED
    BY <1>6, <2>1, <2>2
<1>9. ASSUME NEW i \in 1..Len(s) PROVE i + 1 \in Openings(w) <=> i \in Openings(s)
  <2>1. i + 1 \in Openings(w) <=> \E k \in (i + 2)..(Len(w) - 1) : k \in PrefixEnds(w, i + 1)
    <3>1. i + 1 \in DOMAIN w /\ i + 1 + 1 = i + 2
      BY <1>1
    <3> QED
      BY <3>1 DEF Openings, PrefixEnds
  <2>2. i \in Openings(s) <=> \E k \in (i + 2)..(Len(w) - 1) : k - 1 \in PrefixEnds(s, i)
    <3>1. \A k \in (i + 1)..(Len(s) - 1) : k + 1 \in (i + 2)..(Len(w) - 1) /\ k + 1 - 1 = k
      BY <1>1
    <3>2. i \in Openings(s) <=> \E k \in (i + 1)..(Len(s) - 1) : k \in PrefixEnds(s, i)
      BY <1>1 DEF Openings, PrefixEnds
    <3>3. \A k \in PrefixEnds(s, i) : k \in (i + 1)..(Len(s) - 1)
      BY DEF PrefixEnds
    <3>4. ASSUME NEW k \in (i + 1)..(Len(s) - 1), k \in PrefixEnds(s, i)
          PROVE  \E m \in (i + 2)..(Len(w) - 1) : m - 1 \in PrefixEnds(s, i)
      <4>1. k + 1 - 1 \in PrefixEnds(s, i)
        BY <3>1, <3>4
      <4> QED
        BY <3>1, <4>1
    <3> QED
      BY <3>2, <3>3, <3>4
  <2> QED
    BY <1>7, <2>1, <2>2
<1>10. Openings(w) # {} <=> (c = "<" /\ GoesOn(s, FALSE)) \/ Openings(s) # {}
  <2>1. \A i \in Openings(w) : i \in 1..Len(w)
    BY <1>1 DEF Openings
  <2>2. \A i \in Openings(s) : i \in 1..Len(s)
    BY <1>1 DEF Openings
  <2>3. \A i \in 1..Len(w) : i = 1 \/ (i - 1 \in 1..Len(s) /\ i - 1 + 1 = i)
    BY <1>1
  <2> QED
    BY <1>8, <1>9, <2>1, <2>2, <2>3
<1> QED
  BY <1>3, <1>5, <1>10

(* A token before a text moves what comes of it by one place. *)
LEMMA Shifted ==
  ASSUME NEW U, NEW s \in Seq(U), NEW w \in Seq(U), NEW c, Puts(c, s, w),
         NEW T, NEW ls, NEW lw, NEW by,
         Matches(s, ls, by), Leaves(s, ls, by, T), Matches(w, lw, by), Leaves(w, lw, by, T),
         \A j \in 1..Len(s) : lw[j + 1] = ls[j]
  PROVE  \A j \in 1..(Len(s) + 1) : From(w, lw, by)[j + 1] = From(s, ls, by)[j]
<1> DEFINE n == Len(s)
           f == From(s, ls, by)
           g == From(w, lw, by)
           bad == {d \in 0..n : g[n + 1 - d + 1] # f[n + 1 - d]}
<1>1. n \in Nat /\ Len(w) = n + 1 /\ DOMAIN s = 1..n /\ \A j \in 1..n : w[j + 1] = s[j]
  BY DEF Puts
<1>2. \A j \in 1..(n + 1) : f[j] = Rest(s, ls, by, f, j)
  BY Scan
<1>3. \A j \in 1..(n + 1 + 1) : g[j] = Rest(w, lw, by, g, j)
  BY <1>1, Scan
<1> HIDE DEF f, g
<1>4. bad = {}
  <2> SUFFICES ASSUME bad # {} PROVE FALSE
    OBVIOUS
  <2>1. bad \in SUBSET Nat
    BY <1>1
  <2>2. PICK d \in bad : \A m \in bad : d <= m
    <3> HIDE DEF bad
    <3> QED
      BY Least, <2>1
  <2> DEFINE i == n + 1 - d
  <2>3. d \in 0..n /\ g[i + 1] # f[i]
    OBVIOUS
  <2>4. i \in 1..(n + 1) /\ i + 1 \in 1..(n + 1 + 1)
    BY <1>1, <2>3
  <2>5. ASSUME NEW j \in (i + 1)..(n + 1) PROVE g[j + 1] = f[j]
    <3> DEFINE m == n + 1 - j
    <3>1. m \in 0..n /\ ~(d <= m) /\ n + 1 - m = j
      BY <1>1, <2>3
    <3>2. m \notin bad
      <4> HIDE DEF bad
      <4> QED
        BY <2>2, <3>1
    <3>3. g[n + 1 - m + 1] = f[n + 1 - m]
      BY <3>1, <3>2
    <3> QED
      BY <3>1, <3>3
  <2> HIDE DEF i
  <2>6. g[i + 1] = Rest(w, lw, by, g, i + 1) /\ f[i] = Rest(s, ls, by, f, i)
    BY <1>2, <1>3, <2>4
  <2>7. CASE i = n + 1
    BY <1>1, <2>3, <2>6, <2>7 DEF Rest
  <2>8. CASE i # n + 1
    <3>1. i \in 1..n /\ ~(i > n) /\ ~(i + 1 > Len(w)) /\ i + 1 \in (i + 1)..(n + 1)
      BY <1>1, <2>4, <2>8
    <3>2. w[i + 1] = s[i] /\ lw[i + 1] = ls[i] /\ ls[i] \in Nat /\ i + ls[i] <= n + 1
      BY <1>1, <3>1 DEF Matches
    <3>3. CASE ls[i] > 0
      <4>1. i + ls[i] \in (i + 1)..(n + 1) /\ i + 1 + ls[i] = i + ls[i] + 1
        <5>1. \A l \in Nat : l > 0 /\ i + l <= n + 1 =>
                i + l \in (i + 1)..(n + 1) /\ i + 1 + l = i + l + 1
          BY <1>1, <3>1
        <5> QED
          BY <3>2, <3>3, <5>1
      <4>2. g[i + 1 + ls[i]] = f[i + ls[i]]
        BY <2>5, <4>1
      <4>3. g[i + 1] = by \o g[i + 1 + ls[i]] /\ f[i] = by \o f[i + ls[i]]
        BY <1>1, <2>6, <3>1, <3>2, <3>3 DEF Rest
      <4> QED
        BY <2>3, <4>2, <4>3
    <3>4. CASE ~(ls[i] > 0)
      <4>1. g[i + 1 + 1] = f[i + 1]
        BY <2>5, <3>1
      <4>2. g[i + 1] = <<w[i + 1]>> \o g[i + 1 + 1] /\ f[i] = <<s[i]>> \o f[i + 1]
        BY <1>1, <2>6, <3>1, <3>2, <3>4 DEF Rest
      <4> QED
        BY <2>3, <3>2, <4>1, <4>2
    <3> QED
      BY <3>3, <3>4
  <2> QED
    BY <2>7, <2>8
<1>5. ASSUME NEW j \in 1..(n + 1) PROVE g[j + 1] = f[j]
  <2> DEFINE d == n + 1 - j
  <2>1. d \in 0..n /\ n + 1 - d = j
    BY <1>1
  <2>2. g[n + 1 - d + 1] = f[n + 1 - d]
    BY <1>4, <2>1
  <2> QED
    BY <2>1, <2>2
<1> QED
  BY <1>5 DEF f, g

(* Sanitising goes token by token. *)
LEMMA Cleaning ==
  ASSUME NEW c \in Token, NEW s \in Seq(Token)
  PROVE  Sanitize(<<c>> \o s) = IF c = "zero-width" THEN Sanitize(s)
                                ELSE <<IF c = "wide<" THEN "<" ELSE c>> \o Sanitize(s)
<1> DEFINE w == <<c>> \o s
           b == IF c = "wide<" THEN "<" ELSE c
<1>1. Puts(c, s, w) /\ w \in Seq(Token)
  BY Putting
<1> HIDE DEF w
<1>2. "<" \in Token
  BY DEF Token
<1>3. /\ Fold(s) \in Seq(Token) /\ Len(Fold(s)) = Len(s) /\ DOMAIN Fold(s) = 1..Len(s)
      /\ Matches(Fold(s), Invisible(s), <<>>) /\ Leaves(Fold(s), Invisible(s), <<>>, Token \ Odd)
  BY <1>2, InvisibleMatch
<1>4. /\ Fold(w) \in Seq(Token) /\ Len(Fold(w)) = Len(w) /\ DOMAIN Fold(w) = 1..Len(w)
      /\ Matches(Fold(w), Invisible(w), <<>>) /\ Leaves(Fold(w), Invisible(w), <<>>, Token \ Odd)
  BY <1>1, <1>2, InvisibleMatch
<1>5. /\ Len(s) \in Nat /\ Len(w) = Len(s) + 1 /\ DOMAIN s = 1..Len(s) /\ DOMAIN w = 1..Len(w)
      /\ w[1] = c /\ \A j \in 1..Len(s) : w[j + 1] = s[j]
  BY <1>1 DEF Puts
<1>6. /\ 1 \in 1..Len(w) /\ \A j \in 1..Len(s) : j + 1 \in 1..Len(w)
  BY <1>5
<1>7. /\ Fold(w)[1] = b /\ Invisible(w)[1] = IF c = "zero-width" THEN 1 ELSE 0
      /\ \A j \in 1..Len(s) : Fold(w)[j + 1] = Fold(s)[j] /\ Invisible(w)[j + 1] = Invisible(s)[j]
  BY <1>5, <1>6 DEF Fold, Invisible
<1> HIDE DEF b
<1>8. Puts(b, Fold(s), Fold(w))
  BY <1>3, <1>4, <1>5, <1>7 DEF Puts
<1> DEFINE g == From(Fold(w), Invisible(w), <<>>)
           f == From(Fold(s), Invisible(s), <<>>)
<1>9. \A j \in 1..(Len(s) + 1) : g[j + 1] = f[j]
  BY <1>3, <1>4, <1>7, <1>8, Shifted
<1>10. g[1] = Rest(Fold(w), Invisible(w), <<>>, g, 1)
  <2>1. 1 \in 1..(Len(Fold(w)) + 1)
    BY <1>4, <1>5
  <2> QED
    BY <1>4, <2>1, Scan
<1>11. Sanitize(w) = g[1] /\ Sanitize(s) = f[1]
  BY DEF Sanitize, Replaced
<1> HIDE DEF f, g
<1>12. g[1 + 1] = f[1] /\ ~(1 > Len(Fold(w)))
  BY <1>4, <1>5, <1>9
<1>13. f[1] \in Seq(Token \ Odd)
  BY <1>2, <1>11, Sanitized
<1>14. CASE c = "zero-width"
  <2>1. Invisible(w)[1] = 1 /\ 1 > 0
    BY <1>7, <1>14
  <2>2. g[1] = <<>> \o g[1 + 1]
    BY <1>10, <1>12, <2>1 DEF Rest
  <2>3. <<>> \o f[1] = f[1]
    BY <1>13, ConcatEmptySeq
  <2> QED
    BY <1>11, <1>12, <1>14, <2>2, <2>3 DEF w
<1>15. CASE c # "zero-width"
  <2>1. Invisible(w)[1] = 0 /\ ~(0 > 0)
    BY <1>7, <1>15
  <2>2. g[1] = <<b>> \o g[1 + 1]
    BY <1>7, <1>10, <1>12, <2>1 DEF Rest
  <2> QED
    BY <1>11, <1>12, <1>15, <2>2 DEF w, b
<1> QED
  BY <1>14, <1>15

(* The tokens of a secret, and what is put for it, end the beginning of a  *)
(* tag.                                                                    *)
LEMMA Ending ==
  ASSUME NEW c \in {"half", "other half", "redacted"}, NEW s \in Seq(Token)
  PROVE  LET w == Sanitize(<<c>> \o s)
         IN  /\ ~Word(w) /\ \A slash \in BOOLEAN : ~GoesOn(w, slash)
             /\ Openings(w) = {} <=> Openings(Sanitize(s)) = {}
<1> DEFINE u == Sanitize(s)
           w == Sanitize(<<c>> \o s)
<1>1. c \in Token /\ c # "zero-width" /\ c # "wide<" /\ "<" \in Token
  BY DEF Token
<1>2. w = <<c>> \o u
  BY <1>1, Cleaning
<1>3. u \in Seq(Token)
  <2>1. u \in Seq(Token \ Odd)
    BY <1>1, Sanitized
  <2> HIDE DEF u
  <2> QED
    BY <2>1, SeqMonotonic
<1> HIDE DEF u, w
<1>4. Puts(c, u, w)
  BY <1>1, <1>2, <1>3, Putting
<1>5. c \notin Ends /\ c # "untrusted" /\ c # " " /\ c # "/" /\ c # "<"
  BY DEF Ends
<1> QED
  <2>1. /\ Word(w) <=> c \in Ends
        /\ \A slash \in BOOLEAN :
             GoesOn(w, slash) <=> \/ c = "untrusted" /\ Word(u)
                                  \/ c = " " /\ GoesOn(u, slash)
                                  \/ c = "/" /\ ~slash /\ GoesOn(u, TRUE)
        /\ Openings(w) # {} <=> (c = "<" /\ GoesOn(u, FALSE)) \/ Openings(u) # {}
    BY <1>4, Reading
  <2>2. /\ ~Word(w) /\ \A slash \in BOOLEAN : ~GoesOn(w, slash)
        /\ Openings(w) = {} <=> Openings(u) = {}
    BY <1>5, <2>1
  <2> QED
    BY <2>2 DEF u, w

(* A token before two texts alike leaves them alike. *)
LEMMA AlikeStill ==
  ASSUME NEW c \in Token, NEW s \in Seq(Token), NEW t \in Seq(Token),
         Alike(Sanitize(s), Sanitize(t))
  PROVE  Alike(Sanitize(<<c>> \o s), Sanitize(<<c>> \o t))
<1> DEFINE b == IF c = "wide<" THEN "<" ELSE c
           u == Sanitize(s)
           v == Sanitize(t)
<1>1. b \in Token /\ "<" \in Token
  BY DEF Token
<1>2. u \in Seq(Token) /\ v \in Seq(Token)
  <2>1. u \in Seq(Token \ Odd) /\ v \in Seq(Token \ Odd)
    BY <1>1, Sanitized
  <2> HIDE DEF u, v
  <2> QED
    BY <2>1, SeqMonotonic
<1>3. CASE c = "zero-width"
  BY <1>3, Cleaning
<1>4. CASE c # "zero-width"
  <2>1. Sanitize(<<c>> \o s) = <<b>> \o u /\ Sanitize(<<c>> \o t) = <<b>> \o v
    BY <1>4, Cleaning
  <2>2. Alike(u, v)
    OBVIOUS
  <2> HIDE DEF u, v, b
  <2>3. Puts(b, u, <<b>> \o u) /\ Puts(b, v, <<b>> \o v)
    BY <1>1, <1>2, Putting
  <2> DEFINE x == <<b>> \o u
             y == <<b>> \o v
  <2> HIDE DEF x, y
  <2>4. Puts(b, u, x) /\ Puts(b, v, y)
    BY <2>3 DEF x, y
  <2>5. /\ Word(x) <=> b \in Ends
        /\ \A slash \in BOOLEAN :
             GoesOn(x, slash) <=> \/ b = "untrusted" /\ Word(u)
                                  \/ b = " " /\ GoesOn(u, slash)
                                  \/ b = "/" /\ ~slash /\ GoesOn(u, TRUE)
        /\ Openings(x) # {} <=> (b = "<" /\ GoesOn(u, FALSE)) \/ Openings(u) # {}
    BY <2>4, Reading
  <2>6. /\ Word(y) <=> b \in Ends
        /\ \A slash \in BOOLEAN :
             GoesOn(y, slash) <=> \/ b = "untrusted" /\ Word(v)
                                  \/ b = " " /\ GoesOn(v, slash)
                                  \/ b = "/" /\ ~slash /\ GoesOn(v, TRUE)
        /\ Openings(y) # {} <=> (b = "<" /\ GoesOn(v, FALSE)) \/ Openings(v) # {}
    BY <2>4, Reading
  <2>7. Alike(x, y)
    BY <2>2, <2>5, <2>6 DEF Alike
  <2> QED
    BY <2>1, <2>7 DEF x, y
<1> QED
  BY <1>3, <1>4

(* Redaction neither makes the opening of a tag nor takes one away. *)
LEMMA SameOpenings ==
  ASSUME NEW t \in Seq(Token), NEW known
  PROVE  Openings(Sanitize(Redact(t, known))) = {} <=> Openings(Sanitize(t)) = {}
<1> DEFINE n == Len(t)
           r == From(t, Secrets(t), <<"redacted">>)
           rest(i) == SubSeq(t, i, n)
           bad == {d \in 0..n : ~Alike(Sanitize(rest(n + 1 - d)), Sanitize(r[n + 1 - d]))}
<1>1. n \in Nat /\ DOMAIN t = 1..n /\ \A i \in 1..n : t[i] \in Token
  OBVIOUS
<1>2. "redacted" \in Token
  BY DEF Token
<1>3. ASSUME NEW i \in 1..(n + 1)
      PROVE  r[i] = Rest(t, Secrets(t), <<"redacted">>, r, i) /\ r[i] \in Seq(Token)
  <2>1. Matches(t, Secrets(t), <<"redacted">>) /\ Leaves(t, Secrets(t), <<"redacted">>, Token)
    BY <1>2, SecretsMatch
  <2>2. Good(t, Secrets(t), Token, r[i], i)
    BY <2>1, Scan
  <2> QED
    BY <2>1, <2>2, Scan DEF Good
<1>4. ASSUME NEW i \in 1..(n + 1) PROVE rest(i) \in Seq(Token)
  <2>1. \A j \in i..n : t[j] \in Token
    BY <1>1
  <2> QED
    BY <1>1, <2>1, SubSeqProperties
<1>5. ASSUME NEW i \in 1..n PROVE rest(i) = <<t[i]>> \o rest(i + 1)
  <2>1. n \in i..n
    BY <1>1
  <2> QED
    BY <2>1, SubSeqRecursiveFirst
<1>6. rest(1) = t
  BY SubSeqFull
<1>7. rest(n + 1) = <<>>
  BY <1>1, SubSeqEmpty
<1> HIDE DEF r, rest
<1>8. bad = {}
  <2> SUFFICES ASSUME bad # {} PROVE FALSE
    OBVIOUS
  <2>1. bad \in SUBSET Nat
    BY <1>1
  <2>2. PICK d \in bad : \A m \in bad : d <= m
    <3> HIDE DEF bad
    <3> QED
      BY Least, <2>1
  <2> DEFINE i == n + 1 - d
  <2>3. d \in 0..n /\ ~Alike(Sanitize(rest(i)), Sanitize(r[i]))
    OBVIOUS
  <2>4. i \in 1..(n + 1)
    BY <1>1, <2>3
  <2>5. ASSUME NEW j \in (i + 1)..(n + 1) PROVE Alike(Sanitize(rest(j)), Sanitize(r[j]))
    <3> DEFINE m == n + 1 - j
    <3>1. m \in 0..n /\ ~(d <= m) /\ n + 1 - m = j
      BY <1>1, <2>3
    <3>2. m \notin bad
      <4> HIDE DEF bad
      <4> QED
        BY <2>2, <3>1
    <3>3. Alike(Sanitize(rest(n + 1 - m)), Sanitize(r[n + 1 - m]))
      BY <3>1, <3>2
    <3> QED
      BY <3>1, <3>3
  <2> HIDE DEF i
  <2>6. CASE i = n + 1
    <3>1. r[i] = <<>>
      <4>1. i > Len(t)
        BY <1>1, <2>6
      <4> QED
        BY <1>3, <2>4, <4>1 DEF Rest
    <3>2. rest(i) = r[i]
      BY <1>7, <2>6, <3>1
    <3> QED
      BY <2>3, <3>2 DEF Alike
  <2>7. CASE i # n + 1 /\ ~IsSecret(t, i)
    <3>1. i \in 1..n /\ ~(i > n) /\ i + 1 \in (i + 1)..(n + 1) /\ i + 1 \in 1..(n + 1)
      BY <1>1, <2>4, <2>7
    <3>2. Secrets(t)[i] = 0 /\ ~(0 > 0)
      BY <1>1, <2>7, <3>1 DEF Secrets
    <3>3. r[i] = <<t[i]>> \o r[i + 1]
      BY <1>3, <2>4, <3>1, <3>2 DEF Rest
    <3>4. rest(i + 1) \in Seq(Token) /\ r[i + 1] \in Seq(Token) /\ t[i] \in Token
      BY <1>1, <1>3, <1>4, <3>1
    <3>5. Alike(Sanitize(rest(i + 1)), Sanitize(r[i + 1]))
      BY <2>5, <3>1
    <3>6. Alike(Sanitize(<<t[i]>> \o rest(i + 1)), Sanitize(<<t[i]>> \o r[i + 1]))
      BY <3>4, <3>5, AlikeStill
    <3> QED
      BY <1>5, <2>3, <3>1, <3>3, <3>6
  <2>8. CASE i # n + 1 /\ IsSecret(t, i)
    <3>1. i < n
      BY <2>8, Zenon DEF IsSecret
    <3>2. /\ i \in 1..n /\ ~(i > n) /\ i + 1 \in 1..n /\ i + 2 \in (i + 1)..(n + 1)
          /\ i + 2 \in 1..(n + 1) /\ i + 1 + 1 = i + 2 /\ i + 1 \in 1..(n + 1)
      BY <1>1, <2>4, <3>1
    <3>3. Secrets(t)[i] = 2 /\ 2 > 0
      BY <1>1, <2>8, <3>2 DEF Secrets
    <3>4. r[i] = <<"redacted">> \o r[i + 2]
      BY <1>3, <2>4, <3>2, <3>3 DEF Rest
    <3>5. rest(i) = <<t[i]>> \o (<<t[i + 1]>> \o rest(i + 2))
      BY <1>5, <3>2
    <3>6. t[i] = "half" /\ t[i + 1] = "other half"
      <4>1. SubSeq(t, i, i + 1) = <<"half", "other half">>
        BY <2>8, Zenon DEF IsSecret
      <4>2. SubSeq(t, i, i + 1)[1] = "half" /\ SubSeq(t, i, i + 1)[2] = "other half"
        <5>1. SubSeq(t, i, i + 1)[1] = "half"
          BY <4>1, Pair
        <5>2. SubSeq(t, i, i + 1)[2] = "other half"
          BY <4>1, Partner
        <5> QED
          BY <5>1, <5>2
      <4>3. i \in Int /\ i + 1 \in Int /\ \A j \in i..(i + 1) : t[j] \in Token
        BY <1>1, <3>2
      <4>4. SubSeq(t, i, i + 1)[1] = t[i + 1 - 1] /\ SubSeq(t, i, i + 1)[2] = t[i + 2 - 1]
        BY <4>3, SubSeqProperties
      <4>5. i + 1 - 1 = i /\ i + 2 - 1 = i + 1
        BY <4>3
      <4> QED
        BY <4>2, <4>4, <4>5
    <3> DEFINE u == rest(i + 2)
               v == r[i + 2]
    <3>7. u \in Seq(Token) /\ v \in Seq(Token) /\ <<t[i + 1]>> \o u \in Seq(Token)
      BY <1>1, <1>3, <1>4, <1>5, <3>2
    <3>8. Alike(Sanitize(u), Sanitize(v))
      BY <2>5, <3>2
    <3> HIDE DEF u, v
    <3> DEFINE o == <<t[i + 1]>> \o u
               x == Sanitize(<<t[i]>> \o o)
               y == Sanitize(<<"redacted">> \o v)
    <3>9. Openings(Sanitize(o)) = {} <=> Openings(Sanitize(u)) = {}
      BY <3>6, <3>7, Ending
    <3> HIDE DEF o
    <3>10. /\ ~Word(x) /\ \A slash \in BOOLEAN : ~GoesOn(x, slash)
           /\ Openings(x) = {} <=> Openings(Sanitize(o)) = {}
      BY <3>6, <3>7, Ending DEF o
    <3>11. /\ ~Word(y) /\ \A slash \in BOOLEAN : ~GoesOn(y, slash)
           /\ Openings(y) = {} <=> Openings(Sanitize(v)) = {}
      BY <3>7, Ending
    <3> HIDE DEF x, y
    <3>12. Alike(x, y)
      BY <3>8, <3>9, <3>10, <3>11 DEF Alike
    <3> QED
      BY <2>3, <3>4, <3>5, <3>12 DEF x, y, o, u, v
  <2> QED
    BY <2>6, <2>7, <2>8
<1>9. Alike(Sanitize(t), Sanitize(r[1]))
  <2>1. n \in 0..n /\ n + 1 - n = 1
    BY <1>1
  <2>2. Alike(Sanitize(rest(n + 1 - n)), Sanitize(r[n + 1 - n]))
    BY <1>8, <2>1
  <2> QED
    BY <1>6, <2>1, <2>2
<1>10. Redact(t, known) = IF known THEN r[1] ELSE t
  BY DEF Redact, Replaced, r
<1> QED
  BY <1>9, <1>10 DEF Alike

(* A text without the first half of a secret has no secret. *)
LEMMA NoHalf ==
  ASSUME NEW T, NEW t \in Seq(T \ {"half"})
  PROVE  ~HasSecret(t)
<1> SUFFICES ASSUME NEW i \in DOMAIN t, IsSecret(t, i) PROVE FALSE
  BY DEF HasSecret
<1>1. Len(t) \in Nat /\ i \in 1..Len(t) /\ \A j \in 1..Len(t) : t[j] \in T \ {"half"}
  OBVIOUS
<1>2. i < Len(t)
  BY DEF IsSecret
<1>3. \A j \in i..(i + 1) : j \in 1..Len(t)
  BY <1>1, <1>2
<1>4. \A j \in i..(i + 1) : t[j] \in T \ {"half"}
  BY <1>1, <1>3
<1>5. SubSeq(t, i, i + 1)[1] = t[i + 1 - 1]
  BY <1>1, <1>4, SubSeqProperties
<1>6. t[i] = "half"
  <2>1. SubSeq(t, i, i + 1)[1] = "half"
    BY Pair DEF IsSecret
  <2>2. i + 1 - 1 = i
    BY <1>1
  <2> QED
    BY <1>5, <2>1, <2>2
<1> QED
  BY <1>1, <1>6

(* What a field becomes within the fence. *)
LEMMA Fences ==
  ASSUME NEW T, Marks \subseteq T, NEW t \in Seq(T)
  PROVE  /\ FenceText(t) = Around(StripFenceTags(Sanitize(t))) /\ FenceText(t) \in Seq(T)
         /\ StripFenceTags(Sanitize(t)) \in Seq(T) /\ Openings(StripFenceTags(Sanitize(t))) = {}
<1>1. "<" \in T /\ {"look<", "look>"} \subseteq T
  BY DEF Marks
<1>2. Sanitize(t) \in Seq(T \ Odd)
  BY <1>1, Sanitized
<1>3. Sanitize(t) \in Seq(T)
  BY <1>2, SeqMonotonic
<1>4. StripFenceTags(Sanitize(t)) \in Seq(T) /\ Openings(StripFenceTags(Sanitize(t))) = {}
  BY <1>1, <1>3, NothingOpens
<1>5. Around(StripFenceTags(Sanitize(t))) \in Seq(T)
  BY <1>1, <1>4, Layout
<1> QED
  BY <1>4, <1>5 DEF FenceText

-----------------------------------------------------------------------------
(* The row and the message. *)

(* The row is the field that arrived, redacted, cleaned and cut under the  *)
(* configuration of the ingest, and flagged for what it holds where the    *)
(* detector reads it.                                                      *)
Row ==
  /\ stored.text \in Seq(Token)
  /\ stored.untrusted = (arrival.declared /\ stored.under.trust = "untrusted")
  /\ (/\ stored.untrusted /\ arrival.kind # "key" /\ stored.under.threshold <= ForgeryScore
      /\ Openings(Sanitize(stored.text)) # {}) => flagged
  /\ stored.under.known /\ EveryHalf(arrival.text) =>
       \/ stored.text \in Seq(Token \ {"half"})
       \/ InPayload /\ stored.text = arrival.text
  /\ ~HasSecret(arrival.text) /\ (Cap = None \/ Len(arrival.text) <= Cap) =>
       \/ stored.text = arrival.text
       \/ ~InPayload /\ stored.text = Sanitize(arrival.text)

(* The message is what the configuration in force makes of the row. *)
Sent == message = Truncate(IF Fenced THEN FenceText(ContextValue) ELSE ContextValue, setting.limit)

TInv ==
  /\ arrival \in Arrival /\ setting \in Setting /\ flagged \in BOOLEAN
  /\ stored = None => message = None
  /\ stored # None => Row
  /\ message # None => Sent

(* What Ingest stores is such a row. *)
LEMMA Stores ==
  ASSUME TInv
  PROVE  /\ StoredText \in Seq(Token)
         /\ arrival.kind # "key" =>
              (Openings(UntrustedText) = {} <=> Openings(Sanitize(StoredText)) = {})
         /\ setting.known /\ EveryHalf(arrival.text) =>
              \/ StoredText \in Seq(Token \ {"half"})
              \/ InPayload /\ StoredText = arrival.text
         /\ ~HasSecret(arrival.text) /\ (Cap = None \/ Len(arrival.text) <= Cap) =>
              \/ StoredText = arrival.text
              \/ ~InPayload /\ StoredText = Sanitize(arrival.text)
<1> USE TextAssumption
<1> DEFINE text == arrival.text
           N == Token \ {"half"}
<1>0. Marks \subseteq Token /\ Marks \subseteq N
  BY DEF Marks, Token
<1>1. text \in Seq(Token) /\ Len(text) \in Nat
  BY DEF TInv
<1>2. SafeBody = text \/ SafeBody = Redact(text, setting.known)
  BY DEF SafeBody
<1>3. Decoded = Redact(SafeBody, setting.known)
  BY DEF Decoded
<1>4. SafeBody \in Seq(Token) /\ Decoded \in Seq(Token)
  BY <1>0, <1>1, <1>2, <1>3, Redacted DEF Marks
<1>5. ~HasSecret(text) => SafeBody = text /\ Decoded = text
  BY <1>0, <1>1, <1>2, <1>3, Redacted DEF Marks
<1>6. setting.known /\ EveryHalf(text) =>
        (SafeBody = text \/ SafeBody \in Seq(N)) /\ Decoded \in Seq(N)
  <2> SUFFICES ASSUME setting.known, EveryHalf(text)
               PROVE  (SafeBody = text \/ SafeBody \in Seq(N)) /\ Decoded \in Seq(N)
    OBVIOUS
  <2>1. Redact(text, setting.known) \in Seq(N)
    BY <1>0, <1>1, Redacted DEF Marks
  <2>2. Redact(Redact(text, setting.known), setting.known) \in Seq(N)
    <3> HIDE DEF N
    <3> QED
      BY <1>0, <2>1, Redacted DEF Marks
  <2> QED
    BY <1>2, <1>3, <2>1, <2>2
<1> DEFINE clean == IF setting.trust = "untrusted" THEN Sanitize(Decoded) ELSE Decoded
<1>7. ASSUME NEW T, Marks \subseteq T, Decoded \in Seq(T)
      PROVE  clean \in Seq(T) /\ Len(clean) <= Len(Decoded) /\ Truncate(clean, Cap) \in Seq(T)
  <2>1. Sanitize(Decoded) \in Seq(T \ Odd) /\ Len(Sanitize(Decoded)) <= Len(Decoded)
    BY <1>7, Sanitized DEF Marks
  <2>2. Sanitize(Decoded) \in Seq(T)
    BY <2>1, SeqMonotonic
  <2>3. clean \in Seq(T) /\ Len(clean) <= Len(Decoded)
    BY <1>7, <2>1, <2>2
  <2> HIDE DEF clean
  <2> QED
    BY <1>7, <2>3, Truncated DEF Marks
<1>8. CASE InPayload
  <2>1. StoredText = SafeBody
    BY <1>8 DEF StoredText
  <2>2. ASSUME arrival.kind # "key"
        PROVE  Openings(UntrustedText) = {} <=> Openings(Sanitize(StoredText)) = {}
    <3>1. UntrustedText = Sanitize(Redact(SafeBody, setting.known))
      BY <1>3, <1>8, <2>2 DEF UntrustedText, TextLeaves
    <3> QED
      BY <1>4, <2>1, <3>1, SameOpenings
  <2> QED
    BY <1>4, <1>5, <1>6, <1>8, <2>1, <2>2
<1>9. CASE ~InPayload
  <2>1. StoredText = Truncate(clean, Cap) /\ UntrustedText = Sanitize(StoredText)
    BY <1>9 DEF StoredText, UntrustedText, InPayload
  <2> HIDE DEF clean
  <2>2. StoredText \in Seq(Token)
    BY <1>0, <1>4, <1>7, <2>1
  <2>3. Decoded \in Seq(N) => StoredText \in Seq(N)
    <3> HIDE DEF N
    <3> QED
      BY <1>0, <1>7, <2>1
  <2>4. ASSUME ~HasSecret(text), Cap = None \/ Len(text) <= Cap
        PROVE  StoredText \in {text, Sanitize(text)}
    <3>1. Decoded = text /\ (clean = text \/ clean = Sanitize(text))
      BY <1>5, <2>4 DEF clean
    <3>2. clean \in Seq(Token) /\ Len(clean) <= Len(text) /\ Len(clean) \in Nat
      BY <1>0, <1>4, <1>7, <3>1
    <3>3. Cap = None \/ (Cap \in Nat /\ Len(clean) <= Cap)
      BY <1>1, <2>4, <3>2
    <3>4. Truncate(clean, Cap) = clean
      BY <3>3 DEF Truncate
    <3> QED
      BY <2>1, <3>1, <3>4
  <2> QED
    BY <1>6, <1>9, <2>1, <2>2, <2>3, <2>4
<1> QED
  BY <1>8, <1>9

(* What is delivered of a row, where it is fenced and where it is not. *)
LEMMA Values ==
  ASSUME TInv, stored # None, NEW T, Marks \subseteq T,
         stored.text \in Seq(T) \/ ContextValue \in Seq(T)
  PROVE  /\ ContextValue \in Seq(T) /\ FenceText(ContextValue) \in Seq(T)
         /\ message # None => message \in Seq(T)
<1>1. "redacted" \in T /\ "cut" \in T
  BY DEF Marks
<1>2. ContextValue \in {stored.text, Redact(stored.text, setting.known)}
  BY DEF ContextValue
<1>3. ContextValue \in Seq(T)
  BY <1>1, <1>2, Redacted
<1>4. FenceText(ContextValue) \in Seq(T)
  BY <1>3, Fences
<1>5. setting.limit = None \/ setting.limit \in Nat
  BY TextAssumption DEF TInv
<1>6. \A x \in Seq(T) : Truncate(x, setting.limit) \in Seq(T)
  BY <1>1, <1>5, Truncated
<1> QED
  BY <1>3, <1>4, <1>6 DEF TInv, Sent

(* Whatever is done next, the row and the message stay what they are. *)
LEMMA TextStep ==
  ASSUME TInv, [Next]_vars
  PROVE  TInv'
<1> USE DEF TInv
<1>1. CASE Ingest
  <2>1. /\ stored = None /\ message' = message /\ arrival' = arrival /\ setting' = setting
        /\ stored' = [text |-> StoredText,
                      untrusted |-> arrival.declared /\ setting.trust = "untrusted",
                      under |-> setting]
        /\ flagged' = ((arrival.declared /\ setting.trust = "untrusted")
                        /\ Score(UntrustedText) >= setting.threshold)
    BY <1>1 DEF Ingest
  <2>2. /\ stored'.text = StoredText /\ stored'.under = setting
        /\ stored'.untrusted = (arrival.declared /\ setting.trust = "untrusted")
    BY <2>1
  <2>3. Row'
    <3>1. ASSUME arrival.kind # "key", setting.threshold <= ForgeryScore,
                 Openings(Sanitize(StoredText)) # {}
          PROVE  Score(UntrustedText) >= setting.threshold
      <4>1. Score(UntrustedText) = ForgeryScore
        BY <3>1, Stores DEF Score
      <4>2. setting.threshold \in Int
        BY TextAssumption
      <4> QED
        BY <3>1, <4>1, <4>2 DEF ForgeryScore
    <3>2. InPayload' = InPayload
      BY <2>1 DEF InPayload
    <3> HIDE DEF TInv
    <3> QED
      BY <2>1, <2>2, <3>1, <3>2, Stores DEF Row
  <2>4. flagged' \in BOOLEAN
    BY <2>1
  <2> QED
    BY <2>1, <2>3, <2>4
<1>2. CASE Deliver
  <2>1. /\ stored # None /\ UNCHANGED <<arrival, setting, stored, flagged>>
        /\ message' = Truncate(IF Fenced THEN FenceText(ContextValue) ELSE ContextValue,
                               setting.limit)
    BY <1>2 DEF Deliver
  <2>2. Row' = Row
    BY <2>1 DEF Row, InPayload
  <2>3. Fenced' = Fenced /\ ContextValue' = ContextValue
    BY <2>1 DEF Fenced, Fencing, ContextValue, InPayload
  <2>4. Sent'
    BY <2>1, <2>3 DEF Sent
  <2> QED
    BY <2>1, <2>2, <2>4
<1>3. CASE Restart
  <2>1. /\ setting' \in Setting /\ message' = None
        /\ UNCHANGED <<arrival, stored, flagged>>
    BY <1>3 DEF Restart
  <2>2. Row' = Row
    BY <2>1 DEF Row, InPayload
  <2> QED
    BY <2>1, <2>2
<1>4. CASE UNCHANGED vars
  BY <1>4 DEF vars, Row, Sent, Fenced, Fencing, ContextValue, InPayload
<1> QED
  BY <1>1, <1>2, <1>3, <1>4 DEF Next

(* The row is what the ingest made of the field, and the message what the  *)
(* configuration in force makes of the row: inductive, and what all that   *)
(* follows is read off.                                                    *)
THEOREM TextInvariance == Spec => []TInv
<1>1. Init => TInv
  BY DEF Init, TInv
<1>2. TInv /\ [Next]_vars => TInv'
  BY TextStep
<1> QED
  BY <1>1, <1>2, PTL DEF Spec

(* Every variable has its type. *)
THEOREM TextTypes == Spec => []TypeOK
<1>1. ASSUME TInv PROVE TypeOK
  <2>1. stored # None => stored.text \in Seq(Token) /\ stored.untrusted \in BOOLEAN
    BY <1>1 DEF TInv, Row
  <2>2. message # None => message \in Seq(Token)
    <3>1. message # None => stored # None
      BY <1>1 DEF TInv
    <3> QED
      BY <1>1, <2>1, <3>1, Widest, Values
  <2> QED
    BY <1>1, <2>1, <2>2 DEF TInv, TypeOK
<1> QED
  BY <1>1, TextInvariance, PTL

(* The fence holds, of whatever tags the field is made, however deeply     *)
(* they are nested, and wherever the sink cuts the message.                *)
THEOREM Fence == Spec => []FenceHolds
<1>1. ASSUME TInv PROVE FenceHolds
  <2> SUFFICES ASSUME message # None, setting.readable, setting.trust # "trusted",
                      \/ InPayload \/ arrival.kind = "summary"
                      \/ arrival.declared /\ stored.under.trust = "untrusted"
               PROVE  Enclosed(message)
    BY DEF FenceHolds
  <2>1. stored # None /\ Row /\ Sent
    BY <1>1 DEF TInv
  <2>2. Fenced
    BY <2>1 DEF Fenced, Fencing, Row
  <2> DEFINE t == StripFenceTags(Sanitize(ContextValue))
  <2>3. ContextValue \in Seq(Token)
    <3>1. stored.text \in Seq(Token)
      BY <2>1 DEF Row
    <3> QED
      BY <1>1, <2>1, <3>1, Widest, Values
  <2>4. t \in Seq(Token) /\ Openings(t) = {} /\ FenceText(ContextValue) = Around(t)
    BY <2>3, Widest, Fences
  <2>5. setting.limit = None \/ setting.limit \in Nat
    BY <1>1, TextAssumption DEF TInv
  <2>6. message = Truncate(Around(t), setting.limit)
    BY <2>1, <2>2, <2>4 DEF Sent
  <2> HIDE DEF t
  <2> QED
    BY <2>4, <2>5, <2>6, FenceCut
<1> QED
  BY <1>1, TextInvariance, PTL

(* A secret known at the ingest and at the delivery is in no message. *)
THEOREM Redaction == Spec => []SecretsRedacted
<1>1. ASSUME TInv PROVE SecretsRedacted
  <2> DEFINE N == Token \ {"half"}
  <2> SUFFICES ASSUME message # None, setting.known, stored.under.known, EveryHalf(arrival.text)
               PROVE  ~HasSecret(message)
    BY DEF SecretsRedacted, EveryHalf
  <2>1. stored # None /\ Row
    BY <1>1 DEF TInv
  <2>2. Marks \subseteq N
    BY DEF Marks, Token
  <2>3. stored.text \in Seq(N) \/ (InPayload /\ stored.text = arrival.text)
    BY <2>1 DEF Row
  <2>4. CASE InPayload /\ stored.text = arrival.text
    <3>1. "redacted" \in Token /\ stored.text \in Seq(Token)
      BY <2>1 DEF Row, Token
    <3>2. Redact(stored.text, setting.known) \in Seq(N)
      BY <2>4, <3>1, Redacted
    <3>3. ContextValue \in Seq(N)
      BY <2>4, <3>2 DEF ContextValue
    <3> HIDE DEF N
    <3>4. message \in Seq(N)
      BY <1>1, <2>1, <2>2, <3>3, Values
    <3> QED
      BY <3>4, NoHalf DEF N
  <2>5. CASE stored.text \in Seq(N)
    <3> HIDE DEF N
    <3>1. message \in Seq(N)
      BY <1>1, <2>1, <2>2, <2>5, Values
    <3> QED
      BY <3>1, NoHalf DEF N
  <2> QED
    BY <2>3, <2>4, <2>5
<1> QED
  BY <1>1, TextInvariance, PTL

(* A tag the fence takes out has been flagged, unless it was the name of a *)
(* member of the payload: the redaction in between, of whatever secrets,   *)
(* and the sanitising neither make a tag nor hide one from the detector.   *)
THEOREM Forgery == Spec => []ForgeryFlagged
<1>1. ASSUME TInv PROVE ForgeryFlagged
  <2> DEFINE clean == Sanitize(ContextValue)
  <2> SUFFICES ASSUME message # None, stored.untrusted, arrival.kind # "key",
                      stored.under.threshold <= ForgeryScore,
                      NEW i \in DOMAIN clean, TagLength(clean, i) > 0
               PROVE  flagged
    BY DEF ForgeryFlagged, RemovedATag, Forged
  <2>1. stored # None /\ Row
    BY <1>1 DEF TInv
  <2>2. stored.text \in Seq(Token)
    BY <2>1 DEF Row
  <2>3. ContextValue \in Seq(Token)
    BY <1>1, <2>1, <2>2, Widest, Values
  <2>4. clean \in Seq(Token \ Odd)
    BY <2>3, Widest, Sanitized DEF Marks
  <2>5. Openings(clean) # {}
    <3> HIDE DEF clean
    <3> QED
      BY <2>4, TagsLie
  <2>6. Openings(clean) = {} <=> Openings(Sanitize(stored.text)) = {}
    <3>1. ContextValue \in {stored.text, Redact(stored.text, setting.known)}
      BY DEF ContextValue
    <3> QED
      BY <2>2, <3>1, SameOpenings
  <2> QED
    BY <2>1, <2>5, <2>6 DEF Row
<1> QED
  BY <1>1, TextInvariance, PTL

(* Text that is no tag and no secret arrives as it was sent or sanitised. *)
THEOREM Ordinary == Spec => []OrdinaryTextKept
<1>1. ASSUME TInv PROVE OrdinaryTextKept
  <2> DEFINE text == arrival.text
             clean == Sanitize(text)
             kept == IF InPayload THEN {text} ELSE {text, clean}
             machine == setting.readable /\ setting.trust # "trusted"
  <2> SUFFICES ASSUME message # None, setting.limit = None, ~HasSecret(text),
                      Cap = None \/ Len(text) <= Cap
               PROVE  /\ ~machine => message \in kept
                      /\ (machine /\ OtherWords(clean)) => message \in kept \cup {Around(clean)}
    BY DEF OrdinaryTextKept
  <2>1. stored # None /\ Row /\ Sent /\ text \in Seq(Token)
    BY <1>1, TextAssumption DEF TInv
  <2>2. stored.text \in kept
    BY <2>1 DEF Row
  <2>3. ContextValue \in kept
    <3>1. InPayload => Redact(text, setting.known) = text
      BY <2>1, Widest, Redacted DEF Marks
    <3> QED
      BY <2>2, <3>1 DEF ContextValue
  <2>4. message = IF Fenced THEN FenceText(ContextValue) ELSE ContextValue
    BY <2>1 DEF Sent, Truncate
  <2>5. ~machine => ~Fenced
    BY DEF Fenced, Fencing
  <2>6. ASSUME OtherWords(clean) PROVE FenceText(ContextValue) = Around(clean)
    <3>1. clean \in Seq(Token \ Odd)
      BY <2>1, Widest, Sanitized DEF Marks
    <3>2. Sanitize(clean) = clean
      <4> HIDE DEF clean
      <4>1. clean \in Seq(Token)
        BY <3>1, SeqMonotonic
      <4>2. \A i \in DOMAIN clean : clean[i] \notin Odd
        BY <3>1
      <4> QED
        BY <4>1, <4>2, Widest, Sanitized DEF Marks
    <3>3. Sanitize(ContextValue) = clean
      BY <2>3, <3>2
    <3>4. Openings(clean) = {}
      <4> HIDE DEF clean
      <4> SUFFICES ASSUME NEW i \in DOMAIN clean, NEW k \in PrefixEnds(clean, i) PROVE FALSE
        BY DEF Openings
      <4>1. k \in (i + 1)..(Len(clean) - 1)
        BY DEF PrefixEnds
      <4>2. i \in 1..Len(clean) /\ Len(clean) \in Nat
        BY <3>1
      <4>3. k \in 1..(Len(clean) - 1)
        BY <4>1, <4>2
      <4>4. clean[k] = "untrusted" /\ clean[k + 1] \in {" ", ">", "/"}
        BY DEF PrefixEnds
      <4> QED
        BY <2>6, <4>3, <4>4 DEF OtherWords
    <3> HIDE DEF clean
    <3>5. StripFenceTags(clean) = clean
      <4>1. clean \in Seq(Token)
        BY <3>1, SeqMonotonic
      <4>2. {"look<", "look>"} \subseteq Token
        BY DEF Token
      <4> QED
        BY <3>4, <4>1, <4>2, NothingOpens
    <3> QED
      BY <3>3, <3>5 DEF FenceText
  <2> QED
    BY <2>3, <2>4, <2>5, <2>6
<1> QED
  BY <1>1, TextInvariance, PTL
=============================================================================
