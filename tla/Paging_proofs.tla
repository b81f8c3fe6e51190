---------------------------- MODULE Paging_proofs ----------------------------
(* Theorems about Paging, for every table, every limit a client may send    *)
(* and any number of requests, with the rows changing between them.        *)
EXTENDS Paging, FiniteSetTheorems, TLAPS

(* Row i is on a page that the client has. *)
Shown(i) == \E p \in DOMAIN pages : \E k \in DOMAIN pages[p] : pages[p][k] = i

(* The client is between two pages: what is above the cursor is behind it.  *)
PInv ==
  /\ TypeOK
  /\ steady \subseteq listed
  /\ walk = "idle" => cursor = NoCursor
  /\ walk # "done" /\ cursor = NoCursor => pages = <<>>
  /\ cursor # NoCursor => \A p \in DOMAIN pages : \A k \in DOMAIN pages[p] : pages[p][k] >= cursor
  /\ NothingRepeated
  /\ walk = "walking" => \A i \in steady : Shown(i) \/ cursor = NoCursor \/ i < cursor
  /\ walk = "done" => \A i \in steady : Shown(i)

-----------------------------------------------------------------------------
(* The query. *)

(* Whatever limit arrives, a page has room for a row and no more than the   *)
(* ceiling.                                                                 *)
LEMMA Effectively ==
  ASSUME NEW n \in Int
  PROVE  Effective(n) \in 1..DLQ_MAX_LIMIT
<1> USE PagingAssumption
<1>1. ASSUME NEW a \in Int, NEW b \in Int
      PROVE  Min({a, b}) = (IF a <= b THEN a ELSE b) /\ Max({a, b}) = (IF a >= b THEN a ELSE b)
  BY DEF Min, Max
<1>2. Min({n, DLQ_MAX_LIMIT}) = IF n <= DLQ_MAX_LIMIT THEN n ELSE DLQ_MAX_LIMIT
  BY <1>1
<1>3. \A m \in Int : Max({1, m}) = IF 1 >= m THEN 1 ELSE m
  BY <1>1
<1> QED
  BY <1>2, <1>3 DEF Effective

(* The rows newer than row i. *)
Above(rows, i) == {j \in rows : j > i}

(* Ranks tell rows apart: the number above a row falls as the id rises. *)
LEMMA Ranks ==
  ASSUME NEW rows \in SUBSET Id
  PROVE  /\ IsFiniteSet(rows) /\ Cardinality(rows) \in Nat
         /\ \A i \in rows : Cardinality(Above(rows, i)) \in 0..(Cardinality(rows) - 1)
         /\ \A i, j \in rows : i < j => Cardinality(Above(rows, j)) < Cardinality(Above(rows, i))
<1> USE PagingAssumption
<1>0. \A i \in Id : i \in Int
  BY DEF Id
<1>1. IsFiniteSet(Id)
  BY FS_Interval DEF Id
<1>2. IsFiniteSet(rows) /\ Cardinality(rows) \in Nat
  BY <1>1, FS_Subset, FS_CardinalityType
<1>3. ASSUME NEW S \in SUBSET rows, NEW T \in SUBSET S, T # S
      PROVE  Cardinality(S) \in Nat /\ Cardinality(T) \in Nat /\ Cardinality(T) < Cardinality(S)
  <2>1. IsFiniteSet(S)
    BY <1>2, FS_Subset
  <2>2. IsFiniteSet(T) /\ Cardinality(T) <= Cardinality(S) /\ Cardinality(S) # Cardinality(T)
    BY <1>3, <2>1, FS_Subset
  <2> QED
    BY <2>1, <2>2, FS_CardinalityType
<1>4. ASSUME NEW i \in rows
      PROVE  Cardinality(Above(rows, i)) \in 0..(Cardinality(rows) - 1)
  <2>1. Above(rows, i) \in SUBSET rows /\ i \notin Above(rows, i)
    BY <1>0 DEF Above
  <2> QED
    BY <1>3, <1>2, <2>1
<1>5. ASSUME NEW i \in rows, NEW j \in rows, i < j
      PROVE  Cardinality(Above(rows, j)) < Cardinality(Above(rows, i))
  <2>1. Above(rows, i) \in SUBSET rows /\ Above(rows, j) \in SUBSET Above(rows, i)
    BY <1>0, <1>5 DEF Above
  <2>2. j \in Above(rows, i) /\ j \notin Above(rows, j)
    BY <1>0, <1>5 DEF Above
  <2> QED
    BY <1>3, <2>1, <2>2
<1> QED
  BY <1>2, <1>4, <1>5

(* ORDER BY id DESC: every row once, from the highest down. *)
LEMMA Sorted ==
  ASSUME NEW rows \in SUBSET Id
  PROVE  /\ Cardinality(rows) \in Nat
         /\ Descending(rows) \in [1..Cardinality(rows) -> rows]
         /\ \A k, l \in 1..Cardinality(rows) :
              k < l => Descending(rows)[k] > Descending(rows)[l]
         /\ \A i \in rows : \E k \in 1..Cardinality(rows) : Descending(rows)[k] = i
<1> DEFINE n == Cardinality(rows)
           rank == [i \in rows |-> Cardinality(Above(rows, i)) + 1]
<1> HIDE DEF n
<1>0. \A i \in Id : i \in Int
  BY PagingAssumption DEF Id
<1>1. IsFiniteSet(rows) /\ n \in Nat
  BY Ranks DEF n
<1>2. /\ rank \in [rows -> 1..n]
      /\ \A i, j \in rows : i < j => rank[j] < rank[i]
      /\ \A i \in rows : rank[i] - 1 = Cardinality(Above(rows, i))
  <2>1. \A i \in rows : Cardinality(Above(rows, i)) \in 0..(n - 1)
    BY Ranks DEF n
  <2>2. \A i, j \in rows : i < j => Cardinality(Above(rows, j)) < Cardinality(Above(rows, i))
    BY Ranks
  <2> QED
    BY <1>1, <2>1, <2>2
<1> HIDE DEF rank
<1>3. \A i, j \in rows : rank[i] = rank[j] => i = j
  <2> SUFFICES ASSUME NEW i \in rows, NEW j \in rows, i # j PROVE rank[i] # rank[j]
    OBVIOUS
  <2>1. i \in Int /\ j \in Int /\ rank[i] \in Int /\ rank[j] \in Int
    BY <1>0, <1>1, <1>2
  <2>2. i < j \/ j < i
    BY <2>1
  <2> QED
    BY <1>2, <2>1, <2>2
<1>4. rank \in Injection(rows, 1..n)
  BY <1>2, <1>3 DEF Injection, IsInjective
<1>5. IsFiniteSet(1..n) /\ Cardinality(1..n) = Cardinality(rows)
  BY <1>1, FS_Interval DEF n
<1>6. rank \in Surjection(rows, 1..n)
  BY <1>4, <1>5, FS_Injection
<1>7. \A k \in 1..n : \E i \in rows : rank[i] = k
  BY <1>6 DEF Surjection
<1>8. ASSUME NEW k \in 1..n
      PROVE  Descending(rows)[k] \in rows /\ rank[Descending(rows)[k]] = k
  <2>1. PICK i \in rows : rank[i] = k
    BY <1>7
  <2>2. Cardinality(Above(rows, i)) = k - 1
    BY <1>2, <2>1
  <2>3. Descending(rows)[k] = CHOOSE j \in rows : Cardinality(Above(rows, j)) = k - 1
    BY DEF Descending, Above, n
  <2>4. Descending(rows)[k] \in rows /\ Cardinality(Above(rows, Descending(rows)[k])) = k - 1
    BY <2>2, <2>3
  <2>5. rank[Descending(rows)[k]] - 1 = k - 1 /\ rank[Descending(rows)[k]] \in 1..n
    BY <1>2, <2>4
  <2> QED
    BY <1>1, <2>4, <2>5
<1>9. Descending(rows) \in [1..n -> rows]
  BY <1>8 DEF Descending, n
<1>10. ASSUME NEW k \in 1..n, NEW l \in 1..n, k < l
       PROVE  Descending(rows)[k] > Descending(rows)[l]
  <2> DEFINE i == Descending(rows)[k]
             j == Descending(rows)[l]
  <2>1. i \in rows /\ j \in rows /\ rank[i] = k /\ rank[j] = l
    BY <1>8
  <2>2. i \in Int /\ j \in Int /\ k \in Int /\ l \in Int
    BY <1>0, <1>1, <2>1
  <2>3. i # j
    BY <1>10, <2>1, <2>2
  <2>4. ~(i < j)
    <3> SUFFICES ASSUME i < j PROVE FALSE
      OBVIOUS
    <3>1. rank[j] < rank[i]
      BY <1>2, <2>1
    <3> HIDE DEF i, j
    <3> QED
      BY <1>10, <2>1, <2>2, <3>1
  <2> HIDE DEF i, j
  <2>5. i > j
    BY <2>2, <2>3, <2>4
  <2> QED
    BY <2>5 DEF i, j
<1>11. ASSUME NEW i \in rows PROVE \E k \in 1..n : Descending(rows)[k] = i
  <2>1. rank[i] \in 1..n
    BY <1>2
  <2> QED
    BY <1>3, <1>8, <2>1
<1> QED
  BY <1>1, <1>9, <1>10, <1>11 DEF n

(* A page is the top of what is below the cursor, and the next cursor is    *)
(* above all that did not fit.                                              *)
Answers(rows, c, page, after) ==
  /\ page \in Seq(Id)
  /\ \A k \in DOMAIN page : page[k] \in rows /\ (c # NoCursor => page[k] < c)
  /\ \A k, l \in DOMAIN page : k < l => page[k] > page[l]
  /\ after \in Id \cup {NoCursor}
  /\ after # NoCursor => \A k \in DOMAIN page : page[k] >= after
  /\ \A i \in rows : (c = NoCursor \/ i < c) =>
       \/ \E k \in DOMAIN page : page[k] = i
       \/ after # NoCursor /\ i < after

(* The query and the cursor it returns (list_held, list_dlq, the routes).   *)
LEMMA Selected ==
  ASSUME NEW rows \in SUBSET Id, NEW c \in Id \cup {NoCursor}, NEW n \in Nat \ {0}
  PROVE  Answers(rows, c, Select(rows, c, n), NextCursor(Select(rows, c, n), n))
<1> USE PagingAssumption
<1> DEFINE below == Below(rows, c)
           size == Cardinality(below)
           sorted == Descending(below)
           page == Select(rows, c, n)
           after == NextCursor(page, n)
<1>0. \A i \in Id : i \in Int
  BY DEF Id
<1>1. /\ below \in SUBSET Id
      /\ \A i \in below : i \in rows /\ (c # NoCursor => i < c)
      /\ \A i \in rows : (c = NoCursor \/ i < c) => i \in below
  BY DEF Below
<1> HIDE DEF below
<1>2. /\ size \in Nat
      /\ sorted \in [1..size -> below]
      /\ \A k, l \in 1..size : k < l => sorted[k] > sorted[l]
      /\ \A i \in below : \E k \in 1..size : sorted[k] = i
  BY <1>1, Sorted
<1>3. page = SubSeq(sorted, 1, IF n < 0 THEN Len(sorted) ELSE Min({n, Len(sorted)}))
  BY DEF Select, below
<1> HIDE DEF sorted, size, page
<1>4. sorted \in Seq(below) /\ Len(sorted) = size
  BY <1>2
<1> DEFINE m == IF n <= size THEN n ELSE size
<1>5. Min({n, size}) = m
  BY <1>2 DEF Min
<1>6. page = SubSeq(sorted, 1, m)
  <2>1. Min({n, Len(sorted)}) = m
    BY <1>4, <1>5
  <2>2. ~(n < 0)
    OBVIOUS
  <2> QED
    BY <1>3, <2>1, <2>2
<1>7. m \in 0..size /\ m <= n
  BY <1>2
<1> HIDE DEF m
<1>8. Len(page) = m /\ DOMAIN page = 1..m /\ \A k \in 1..m : page[k] = sorted[k]
  BY <1>2, <1>4, <1>6, <1>7
<1>9. \A k \in 1..m : k \in 1..size /\ page[k] \in below
  BY <1>2, <1>7, <1>8
<1>10. page \in Seq(Id)
  BY <1>1, <1>2, <1>4, <1>6, <1>7, <1>9
<1>11. \A k \in DOMAIN page : page[k] \in rows /\ (c # NoCursor => page[k] < c)
  BY <1>1, <1>8, <1>9
<1>12. \A k, l \in DOMAIN page : k < l => page[k] > page[l]
  BY <1>2, <1>8, <1>9
<1>13. after = IF m = n THEN page[m] ELSE NoCursor
  BY <1>8 DEF NextCursor
<1>14. m = n => m \in DOMAIN page
  BY <1>7, <1>8
<1>15. after \in Id \cup {NoCursor}
  BY <1>1, <1>8, <1>9, <1>13, <1>14
<1>16. ASSUME after # NoCursor, NEW k \in DOMAIN page PROVE page[k] >= after
  <2>1. after = page[m] /\ m \in DOMAIN page
    BY <1>13, <1>14, <1>16
  <2>2. page[k] \in Int /\ page[m] \in Int
    BY <1>0, <1>1, <1>8, <1>9, <2>1
  <2>3. k = m \/ k < m
    BY <1>7, <1>8
  <2> QED
    BY <1>12, <2>1, <2>2, <2>3
<1>17. ASSUME NEW i \in rows, c = NoCursor \/ i < c
       PROVE  \/ \E k \in DOMAIN page : page[k] = i
              \/ after # NoCursor /\ i < after
  <2>1. PICK k \in 1..size : sorted[k] = i
    BY <1>1, <1>2, <1>17
  <2>2. CASE k <= m
    BY <1>7, <1>8, <2>1, <2>2
  <2>3. CASE k > m
    <3>1. m = n /\ m \in 1..size
      BY <1>2, <1>7, <2>3 DEF m
    <3>2. sorted[m] > sorted[k]
      BY <1>2, <2>3, <3>1
    <3>3. after = sorted[m] /\ after \in Id
      BY <1>1, <1>8, <1>9, <1>13, <1>14, <3>1
    <3>4. after # NoCursor /\ i \in Int /\ after \in Int
      BY <3>3 DEF Id
    <3> QED
      BY <2>1, <3>2, <3>3, <3>4
  <2> QED
    BY <1>7, <2>2, <2>3
<1> QED
  BY <1>10, <1>11, <1>12, <1>15, <1>16, <1>17 DEF page, Answers

-----------------------------------------------------------------------------
(* The walk. *)

(* The rows may change as they like: no page of the client changes. *)
LEMMA TableStep ==
  ASSUME PInv, Insert \/ Quarantine \/ Remove
  PROVE  PInv'
<1> USE PagingAssumption
<1>1. /\ UNCHANGED <<route, limit, cursor, pages, walk>>
      /\ steady' \subseteq steady /\ steady' \subseteq listed'
      /\ listed' \subseteq Id /\ next' \in 1..(LastId + 1)
  <2>1. CASE Insert
    BY <2>1 DEF Insert, PInv, TypeOK, Id
  <2>2. CASE Quarantine
    BY <2>2 DEF Quarantine, PInv, TypeOK, Id
  <2>3. CASE Remove
    BY <2>3 DEF Remove, PInv, TypeOK, Id
  <2> QED
    BY <2>1, <2>2, <2>3
<1>2. TypeOK'
  BY <1>1 DEF PInv, TypeOK, Id
<1>3. (\A i : Shown(i)' <=> Shown(i)) /\ (NothingRepeated' <=> NothingRepeated)
  BY <1>1 DEF Shown, NothingRepeated
<1> QED
  BY <1>1, <1>2, <1>3 DEF PInv

(* The walk begins with what is listed then. *)
LEMMA StartStep ==
  ASSUME PInv, Start
  PROVE  PInv'
<1>1. TypeOK'
  BY DEF Start, PInv, TypeOK
<1>2. pages = <<>> /\ cursor = NoCursor /\ UNCHANGED <<pages, listed, cursor>>
  BY DEF Start, PInv
<1>3. steady' = listed /\ walk' = "walking"
  BY DEF Start
<1>4. NothingRepeated'
  BY <1>2 DEF PInv, NothingRepeated
<1> QED
  BY <1>1, <1>2, <1>3, <1>4 DEF PInv

(* A response adds a page below all that came before. *)
LEMMA PageStep ==
  ASSUME PInv, Page
  PROVE  PInv'
<1> DEFINE n == Effective(limit)
           page == Select(listed, cursor, n)
           after == NextCursor(page, n)
<1>1. n \in Nat \ {0}
  BY PagingAssumption, Effectively DEF PInv, TypeOK
<1>2. /\ pages' = Append(pages, page)
      /\ cursor' = after
      /\ walk' = (IF after = NoCursor THEN "done" ELSE "walking")
      /\ walk = "walking"
      /\ UNCHANGED <<route, listed, next, limit, steady>>
  BY DEF Page
<1>3. listed \in SUBSET Id /\ cursor \in Id \cup {NoCursor}
  BY DEF PInv, TypeOK
<1> HIDE DEF n
<1>0. Answers(listed, cursor, page, after)
  BY <1>1, <1>3, Selected
<1> HIDE DEF page, after
<1>4. /\ page \in Seq(Id)
      /\ \A k \in DOMAIN page : page[k] \in listed /\ (cursor # NoCursor => page[k] < cursor)
      /\ \A k, l \in DOMAIN page : k < l => page[k] > page[l]
      /\ after \in Id \cup {NoCursor}
      /\ after # NoCursor => \A k \in DOMAIN page : page[k] >= after
      /\ \A i \in listed : (cursor = NoCursor \/ i < cursor) =>
           \/ \E k \in DOMAIN page : page[k] = i
           \/ after # NoCursor /\ i < after
  BY <1>0 DEF Answers
<1> DEFINE last == Len(pages) + 1
<1>5. /\ pages \in Seq(Seq(Id)) /\ last \in Nat
      /\ DOMAIN pages = 1..(last - 1)
      /\ DOMAIN pages' = 1..last
      /\ \A p \in DOMAIN pages : p \in DOMAIN pages' /\ pages'[p] = pages[p] /\ p # last
      /\ \A p \in DOMAIN pages' : p \in DOMAIN pages \/ p = last
      /\ last \in DOMAIN pages' /\ pages'[last] = page
  BY <1>2, <1>4 DEF PInv, TypeOK
<1>6. \A i \in Id : i \in Int
  BY PagingAssumption DEF Id
<1>7. /\ \A k \in DOMAIN page : page[k] \in Int
      /\ \A p \in DOMAIN pages : \A k \in DOMAIN pages[p] : pages[p][k] \in Int
  BY <1>4, <1>5, <1>6
<1> HIDE DEF last
<1>8. cursor = NoCursor => DOMAIN pages = {}
  BY <1>2 DEF PInv
<1>9. ASSUME NEW p \in DOMAIN pages, NEW k \in DOMAIN pages[p], NEW l \in DOMAIN page
      PROVE  pages[p][k] > page[l]
  <2>1. cursor # NoCursor /\ cursor \in Int
    BY <1>3, <1>6, <1>8
  <2>2. pages[p][k] >= cursor
    BY <2>1 DEF PInv
  <2> QED
    BY <1>4, <1>7, <2>1, <2>2
<1>10. TypeOK'
  <2>1. pages' \in Seq(Seq(Id))
    BY <1>2, <1>4, <1>5
  <2> QED
    BY <1>2, <1>4, <2>1 DEF PInv, TypeOK
<1>11. cursor' # NoCursor =>
         \A p \in DOMAIN pages' : \A k \in DOMAIN pages'[p] : pages'[p][k] >= cursor'
  <2> SUFFICES ASSUME after # NoCursor, NEW p \in DOMAIN pages', NEW k \in DOMAIN pages'[p]
               PROVE  pages'[p][k] >= after
    BY <1>2
  <2>1. CASE p = last
    BY <1>4, <1>5, <2>1
  <2>2. CASE p \in DOMAIN pages
    <3>1. after \in Int
      BY <1>4, <1>6
    <3>2. pages'[p][k] = pages[p][k] /\ pages[p][k] \in Int /\ k \in DOMAIN pages[p]
      BY <1>5, <1>7, <2>2
    <3>3. CASE DOMAIN page = {}
      <4>1. page = <<>>
        BY <1>4, <3>3
      <4> QED
        BY <1>1, <4>1 DEF after, NextCursor
    <3>4. CASE DOMAIN page # {}
      <4>1. PICK l \in DOMAIN page : page[l] >= after
        BY <1>4, <3>4
      <4>2. pages[p][k] > page[l]
        BY <1>9, <2>2, <3>2
      <4> QED
        BY <1>7, <3>1, <3>2, <4>1, <4>2
    <3> QED
      BY <3>3, <3>4
  <2> QED
    BY <1>5, <2>1, <2>2
<1>12. NothingRepeated'
  <2> SUFFICES ASSUME NEW p \in DOMAIN pages', NEW q \in DOMAIN pages',
                      NEW k \in DOMAIN pages'[p], NEW l \in DOMAIN pages'[q],
                      pages'[p][k] = pages'[q][l]
               PROVE  p = q /\ k = l
    BY DEF NothingRepeated
  <2>1. CASE p \in DOMAIN pages /\ q \in DOMAIN pages
    <3>1. k \in DOMAIN pages[p] /\ l \in DOMAIN pages[q] /\ pages[p][k] = pages[q][l]
      BY <1>5, <2>1
    <3> QED
      BY <2>1, <3>1 DEF PInv, NothingRepeated
  <2>2. CASE p = last /\ q = last
    <3>1. k \in DOMAIN page /\ l \in DOMAIN page /\ page[k] = page[l]
      BY <1>5, <2>2
    <3>2. k \in Int /\ l \in Int
      BY <1>4, <3>1
    <3>3. ~(k < l) /\ ~(l < k)
      BY <1>4, <1>7, <3>1
    <3> QED
      BY <2>2, <3>2, <3>3
  <2>3. CASE p \in DOMAIN pages /\ q = last
    BY <1>5, <1>7, <1>9, <2>3
  <2>4. CASE p = last /\ q \in DOMAIN pages
    BY <1>5, <1>7, <1>9, <2>4
  <2> QED
    BY <1>5, <2>1, <2>2, <2>3, <2>4
<1>13. ASSUME NEW i \in steady
       PROVE  Shown(i)' \/ (after # NoCursor /\ i < after)
  <2>1. CASE Shown(i)
    <3>1. PICK p \in DOMAIN pages : \E k \in DOMAIN pages[p] : pages[p][k] = i
      BY <2>1 DEF Shown
    <3>2. p \in DOMAIN pages' /\ \E k \in DOMAIN pages'[p] : pages'[p][k] = i
      BY <1>5, <3>1
    <3> QED
      BY <3>2 DEF Shown
  <2>2. CASE cursor = NoCursor \/ i < cursor
    <3>1. i \in listed
      BY DEF PInv
    <3>2. CASE \E k \in DOMAIN page : page[k] = i
      <4>1. PICK k \in DOMAIN page : page[k] = i
        BY <3>2
      <4>2. last \in DOMAIN pages' /\ k \in DOMAIN pages'[last] /\ pages'[last][k] = i
        BY <1>5, <4>1
      <4> QED
        BY <4>2 DEF Shown
    <3> QED
      BY <1>4, <2>2, <3>1, <3>2
  <2> QED
    BY <1>2, <2>1, <2>2 DEF PInv
<1>14. \A i \in steady' : Shown(i)' \/ (cursor' # NoCursor /\ i < cursor')
  BY <1>2, <1>13
<1>15. walk' = "done" <=> cursor' = NoCursor
  BY <1>2
<1>16. walk' \in {"done", "walking"} /\ steady' \subseteq listed'
  BY <1>2 DEF PInv
<1> QED
  BY <1>10, <1>11, <1>12, <1>14, <1>15, <1>16 DEF PInv

(* No request and no change of the table leads out of it. *)
THEOREM PagingInvariance == Spec => []PInv
<1>1. Init => PInv
  <2> SUFFICES ASSUME Init PROVE PInv
    OBVIOUS
  <2>1. TypeOK
    BY PagingAssumption DEF Init, TypeOK, Id
  <2>2. pages = <<>> /\ cursor = NoCursor /\ walk = "idle" /\ steady = {}
    BY DEF Init
  <2>3. NothingRepeated
    BY <2>2 DEF NothingRepeated
  <2> QED
    BY <2>1, <2>2, <2>3 DEF PInv
<1>2. PInv /\ [Next]_vars => PInv'
  <2> SUFFICES ASSUME PInv, [Next]_vars PROVE PInv'
    OBVIOUS
  <2>1. CASE UNCHANGED vars
    BY <2>1 DEF vars, PInv, TypeOK, Id, NothingRepeated, Shown
  <2> QED
    BY <2>1, TableStep, StartStep, PageStep DEF Next
<1> QED
  BY <1>1, <1>2, PTL DEF Spec

(* The ids, the pages and the cursor stay what the routes say they are; a   *)
(* cursor in particular is always the id of a row.                          *)
THEOREM PagingTypes == Spec => []TypeOK
BY PagingInvariance, PTL DEF PInv

(* However the table changes between two requests, no row is shown twice.   *)
THEOREM NoneTwice == Spec => []NothingRepeated
BY PagingInvariance, PTL DEF PInv

(* ... and no row that was listed throughout is missed.                     *)
THEOREM NoneMissed == Spec => []NothingSkipped
<1>1. PInv => NothingSkipped
  <2>1. \A i : Shown(i) => i \in Seen
    BY DEF Shown, Seen, Range
  <2> QED
    BY <2>1 DEF PInv, NothingSkipped
<1> QED
  BY <1>1, PagingInvariance, PTL
=============================================================================
