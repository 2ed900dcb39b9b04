------------------------- MODULE SearchView_proofs -------------------------
(***************************************************************************)
(* Proofs about SearchView, for all tables, times, forms and sizes of      *)
(* page, and for any number of calls under way.                            *)
(***************************************************************************)
EXTENDS SearchView, FiniteSetTheorems, SequenceTheorems, TLAPS

-----------------------------------------------------------------------------
(* Orders and pages. *)

\* The lesser of two numbers.
LEMMA MinTwo ==
  ASSUME NEW a \in Int, NEW b \in Int
  PROVE  Min({a, b}) = IF a <= b THEN a ELSE b
BY DEF Min

\* Numbers have a least one.
LEMMA LeastNumber ==
  ASSUME NEW T \in SUBSET Nat, T # {}
  PROVE  \E m \in T : \A k \in T : m <= k
<1> DEFINE R == OpToRel(<, Nat)
<1>1. IsWellFoundedOn(R, Nat)
  BY NatLessThanWellFounded
<1>2. \A x, y \in Nat : x < y => <<x, y>> \in R
  BY DEF OpToRel
<1> HIDE DEF R
<1>3. PICK m \in T : \A k \in T : ~(<<k, m>> \in R)
  BY <1>1, WFMin
<1>4. ASSUME NEW k \in T PROVE m <= k
  <2>1. m \in Nat /\ k \in Nat
    OBVIOUS
  <2>2. k < m => <<k, m>> \in R
    BY <1>2, <2>1
  <2> QED
    BY <1>3, <2>1, <2>2
<1> QED
  BY <1>4

\* An order of a set has each of its members once, newer times first.
LEMMA OrderTyped ==
  ASSUME NEW S \in SUBSET Row, NEW q \in Orders(S)
  PROVE  /\ q \in Seq(S) /\ q \in Seq(Row) /\ Len(q) = Cardinality(S) /\ Len(q) \in Nat
         /\ \A i \in 1..Len(q) : q[i] \in S
         /\ \A i, j \in 1..Len(q) : i # j => q[i] # q[j]
         /\ \A i, j \in 1..Len(q) : i < j => TimeOf[q[i]] >= TimeOf[q[j]]
         /\ \A r \in S : \E i \in 1..Len(q) : q[i] = r
<1> DEFINE D == 1..Cardinality(S)
<1>1. IsFiniteSet(S) /\ Cardinality(S) \in Nat
  BY FS_Subset, FS_CardinalityType, RowAssumption
<1>2. /\ q \in [D -> S] /\ \A i, j \in D : i # j => q[i] # q[j]
      /\ \A i, j \in DOMAIN q : i < j => TimeOf[q[i]] >= TimeOf[q[j]]
  BY DEF Orders, SetToSeqs
<1>3. q \in Seq(S) /\ q \in Seq(Row) /\ Len(q) = Cardinality(S)
  BY <1>1, <1>2
<1>4. q \in Injection(D, S)
  BY <1>2 DEF Injection, IsInjective
<1>5. Cardinality(D) = Cardinality(S)
  BY <1>1, FS_Interval
<1>6. q \in Surjection(D, S)
  BY <1>1, <1>4, <1>5, FS_Injection
<1> QED
  BY <1>1, <1>2, <1>3, <1>6 DEF Surjection

\* Rows with times of their own have one order.
LEMMA OneOrder ==
  ASSUME NEW S \in SUBSET Row, \A r, s \in S : r # s => TimeOf[r] # TimeOf[s],
         NEW q \in Orders(S), NEW t \in Orders(S)
  PROVE  q = t
<1> DEFINE n == Cardinality(S)  T == {i \in 1..n : q[i] # t[i]}
<1>1. /\ q \in Seq(S) /\ Len(q) = n /\ n \in Nat
      /\ \A i \in 1..n : q[i] \in S
      /\ \A i, j \in 1..n : i # j => q[i] # q[j]
      /\ \A i, j \in 1..n : i < j => TimeOf[q[i]] >= TimeOf[q[j]]
      /\ \A r \in S : \E i \in 1..n : q[i] = r
  BY OrderTyped
<1>2. /\ t \in Seq(S) /\ Len(t) = n
      /\ \A i \in 1..n : t[i] \in S
      /\ \A i, j \in 1..n : i # j => t[i] # t[j]
      /\ \A i, j \in 1..n : i < j => TimeOf[t[i]] >= TimeOf[t[j]]
      /\ \A r \in S : \E i \in 1..n : t[i] = r
  BY OrderTyped
<1>3. TimeOf \in [Row -> Nat]
  BY RowAssumption
<1> HIDE DEF n
<1>4. CASE T = {}
  <2>1. q \in [1..n -> S] /\ t \in [1..n -> S]
    BY <1>1, <1>2
  <2>2. \A i \in 1..n : q[i] = t[i]
    BY <1>4
  <2>3. q = [i \in 1..n |-> q[i]] /\ t = [i \in 1..n |-> t[i]]
    BY <2>1
  <2>4. [i \in 1..n |-> q[i]] = [i \in 1..n |-> t[i]]
    BY <2>2
  <2> QED
    BY <2>3, <2>4, Zenon
<1>5. CASE T # {}
  <2>1. PICK m \in T : \A k \in T : m <= k
    <3>1. T \in SUBSET Nat
      BY <1>1
    <3> QED
      BY <1>5, <3>1, LeastNumber
  <2>2. m \in 1..n /\ q[m] # t[m] /\ \A k \in 1..n : k < m => q[k] = t[k]
    BY <1>1, <2>1
  <2>3. PICK i \in 1..n : t[i] = q[m]
    BY <1>1, <1>2, <2>2
  <2>4. PICK j \in 1..n : q[j] = t[m]
    BY <1>1, <1>2, <2>2
  <2>5. m < i
    <3>1. i # m
      BY <2>2, <2>3
    <3>2. ~(i < m)
      BY <1>1, <2>2, <2>3
    <3> QED
      BY <1>1, <2>2, <3>1, <3>2
  <2>8. m < j
    <3>1. j # m
      BY <2>2, <2>4
    <3>2. ~(j < m)
      BY <1>2, <2>2, <2>4
    <3> QED
      BY <1>1, <2>2, <3>1, <3>2
  <2>6. TimeOf[t[m]] >= TimeOf[q[m]] /\ TimeOf[q[m]] >= TimeOf[t[m]]
    BY <1>1, <1>2, <2>2, <2>3, <2>4, <2>5, <2>8
  <2>7. q[m] \in S /\ t[m] \in S
    BY <1>1, <1>2, <2>2
  <2> QED
    BY <1>3, <2>2, <2>6, <2>7
<1> QED
  BY <1>4, <1>5

\* A page has the rows of its place in the order, and tells whether there are more.
LEMMA PageIs ==
  ASSUME NEW q \in Seq(Row), NEW o \in Nat
  PROVE  LET n == IF o + PageSize <= Len(q) THEN PageSize ELSE IF o <= Len(q) THEN Len(q) - o ELSE 0
             p == Page(q, o)
         IN  /\ p \in Pages /\ Len(p.rows) = n
             /\ \A i \in 1..n : p.rows[i] = q[o + i]
             /\ p.hasMore <=> Len(q) > o + PageSize
<1> DEFINE n == IF o + PageSize <= Len(q) THEN PageSize ELSE IF o <= Len(q) THEN Len(q) - o ELSE 0
           p == Page(q, o)
           a == Min({o + PageSize + 1, Len(q)})
           u == SubSeq(q, o + 1, a)
           b == Min({Len(u), PageSize})
           v == SubSeq(u, 1, b)
<1>1. Len(q) \in Nat /\ PageSize \in Nat \ {0}
  BY PageAssumption
<1>2. a = IF o + PageSize + 1 <= Len(q) THEN o + PageSize + 1 ELSE Len(q)
  BY <1>1, MinTwo
<1>3. p = [rows |-> v, hasMore |-> Len(u) > PageSize]
  BY DEF Page
<1> HIDE DEF a, p
<1>4. /\ u \in Seq(Row) /\ Len(u) = (IF o + 1 <= a THEN a - o ELSE 0)
      /\ \A i \in 1..(a - o) : u[i] = q[o + i]
  <2>1. a \in Int /\ o + 1 \in Int /\ \A i \in (o + 1)..a : q[i] \in Row
    BY <1>1, <1>2
  <2>2. /\ u \in Seq(Row) /\ Len(u) = (IF o + 1 <= a THEN a - (o + 1) + 1 ELSE 0)
        /\ \A i \in 1..(a - (o + 1) + 1) : u[i] = q[o + 1 + i - 1]
    BY <2>1, SubSeqProperties
  <2>3. a - (o + 1) + 1 = a - o /\ \A i \in 1..(a - o) : o + 1 + i - 1 = o + i
    BY <2>1
  <2> QED
    BY <2>2, <2>3
<1> HIDE DEF u
<1>5. b = IF Len(u) <= PageSize THEN Len(u) ELSE PageSize
  <2>1. Len(u) \in Int
    BY <1>4
  <2> QED
    BY <1>1, <2>1, MinTwo
<1>6. b = n /\ (Len(u) > PageSize <=> Len(q) > o + PageSize)
  BY <1>1, <1>2, <1>4, <1>5
<1> HIDE DEF b
<1>7. /\ v \in Seq(Row) /\ Len(v) = n /\ \A i \in 1..n : v[i] = u[i]
  <2>1. b \in Nat /\ b <= Len(u) /\ \A i \in 1..b : u[i] \in Row
    <3>1. Len(u) \in Nat /\ \A i \in 1..Len(u) : u[i] \in Row
      BY <1>4
    <3> QED
      BY <1>1, <1>5, <3>1
  <2>2. /\ v \in Seq(Row) /\ Len(v) = (IF 1 <= b THEN b - 1 + 1 ELSE 0)
        /\ \A i \in 1..(b - 1 + 1) : v[i] = u[1 + i - 1]
    BY <2>1, SubSeqProperties
  <2>3. b - 1 + 1 = b /\ \A i \in 1..b : 1 + i - 1 = i
    BY <2>1
  <2>4. Len(v) = b /\ \A i \in 1..b : v[i] = u[i]
    BY <2>1, <2>2, <2>3
  <2> QED
    BY <1>6, <2>2, <2>4
<1>8. \A i \in 1..n : v[i] = q[o + i]
  BY <1>1, <1>2, <1>4, <1>7
<1> HIDE DEF v
<1>9. p \in Pages /\ p.rows = v /\ (p.hasMore <=> Len(u) > PageSize)
  <2> DEFINE h == Len(u) > PageSize
  <2>1. h \in BOOLEAN
    BY <1>1, <1>4
  <2>2. p = [rows |-> v, hasMore |-> h]
    BY <1>3
  <2> HIDE DEF h
  <2>3. p \in Pages /\ p.rows = v /\ p.hasMore = h
    BY <1>7, <2>1, <2>2 DEF Pages
  <2> QED
    BY <2>3 DEF h
<1> QED
  BY <1>6, <1>7, <1>8, <1>9 DEF p

-----------------------------------------------------------------------------
(* The calls under way. *)

CallSet == [call : Calls, page : {None} \cup Pages, n : 0..MaxCalls]

\* A new call is one more, with a number no other has.
LEMMA AskedIs ==
  ASSUME TypeOK, Numbered, Cardinality(calls) < MaxCalls, NEW call \in Calls, Ask(call)
  PROVE  /\ \E a \in CallSet : /\ a.call = call /\ a.page = None
                               /\ calls' = calls \cup {a} /\ \A c \in calls : c.n # a.n
         /\ IsFiniteSet(calls') /\ Cardinality(calls') <= MaxCalls
<1> DEFINE N == 0..MaxCalls
           Free(n) == \A c \in calls : c.n # n
           n0 == CHOOSE n \in N : Free(n)
           a == [call |-> call, page |-> None, n |-> n0]
<1>1. /\ calls \subseteq CallSet /\ IsFiniteSet(calls)
      /\ Cardinality(calls) \in Nat /\ MaxCalls \in Nat
  BY FS_CardinalityType, PageAssumption DEF TypeOK, CallSet
<1>2. \E n \in N : Free(n)
  <2> SUFFICES ASSUME \A n \in N : \E c \in calls : c.n = n PROVE FALSE
    OBVIOUS
  <2> DEFINE f == [n \in N |-> CHOOSE c \in calls : c.n = n]
  <2>1. f \in [N -> calls] /\ \A n \in N : f[n].n = n
    OBVIOUS
  <2>2. IsFiniteSet(N) /\ Cardinality(N) = MaxCalls + 1
    BY <1>1, FS_Interval
  <2> HIDE DEF f
  <2>3. Cardinality(calls) < Cardinality(N)
    BY <1>1, <2>2
  <2>4. \E x, y \in N : x # y /\ f[x] = f[y]
    BY <1>1, <2>1, <2>2, <2>3, FS_PigeonHole
  <2> QED
    BY <2>1, <2>4
<1>3. n0 \in N /\ Free(n0)
  BY <1>2
<1>4. calls' = calls \cup {a}
  BY DEF Ask
<1> HIDE DEF n0
<1>5. a \in CallSet /\ a.call = call /\ a.page = None /\ a.n = n0
  BY <1>3 DEF CallSet
<1> HIDE DEF a
<1>6. IsFiniteSet(calls') /\ Cardinality(calls') <= Cardinality(calls) + 1
  <2>1. IsFiniteSet(calls \cup {a}) /\ Cardinality(calls \cup {a}) <= Cardinality(calls) + 1
    BY <1>1, FS_AddElement
  <2> QED
    BY <1>4, <2>1
<1>7. Cardinality(calls') \in Nat
  BY <1>6, FS_CardinalityType
<1> QED
  BY <1>1, <1>3, <1>4, <1>5, <1>6, <1>7

\* A new call is one more, whatever its number.
LEMMA AskedCall ==
  ASSUME NEW call, Ask(call)
  PROVE  \E a : calls' = calls \cup {a} /\ a.call = call /\ a.page = None
<1> DEFINE n0 == CHOOSE n \in 0..MaxCalls : \A c \in calls : c.n # n
           a  == [call |-> call, page |-> None, n |-> n0]
<1>1. calls' = calls \cup {a}
  BY DEF Ask
<1> HIDE DEF n0
<1>2. a.call = call /\ a.page = None
  OBVIOUS
<1> HIDE DEF a
<1> QED
  BY <1>1, <1>2

\* A call that is back leaves the others.
LEMMA Returned ==
  ASSUME TypeOK, NEW c \in calls, calls' = calls \ {c}
  PROVE  IsFiniteSet(calls') /\ Cardinality(calls') <= MaxCalls
<1>1. /\ IsFiniteSet(calls) /\ Cardinality(calls) \in Nat
      /\ Cardinality(calls) <= MaxCalls /\ MaxCalls \in Nat
  BY FS_CardinalityType, PageAssumption DEF TypeOK
<1> QED
  BY <1>1, FS_RemoveElement

\* A query that ends gives its call a page of an order of the rows that match.
LEMMA RunIs ==
  ASSUME TypeOK, NEW c \in calls, Run(c)
  PROVE  /\ \E d \in CallSet : /\ d.call = c.call /\ d.n = c.n
                               /\ calls' = (calls \ {c}) \cup {d}
                               /\ \E q \in Orders(tables[c.call.wiretap] \cap c.call.filter) :
                                    d.page = Page(q, c.call.offset)
         /\ IsFiniteSet(calls') /\ Cardinality(calls') <= MaxCalls
<1>1. PICK q \in Orders(tables[c.call.wiretap] \cap c.call.filter) :
        calls' = (calls \ {c}) \cup {[c EXCEPT !.page = Page(q, c.call.offset)]}
  BY DEF Run
<1> DEFINE p == Page(q, c.call.offset)  d == [c EXCEPT !.page = p]
<1>2. c \in CallSet
  BY DEF TypeOK, CallSet
<1>3. c.call.wiretap \in Wiretap /\ c.call.offset \in Nat
  BY <1>2 DEF CallSet, Calls
<1>4. p \in Pages
  <2>1. tables[c.call.wiretap] \cap c.call.filter \in SUBSET Row
    BY <1>3 DEF TypeOK
  <2>2. q \in Seq(Row)
    BY <1>1, <2>1, OrderTyped
  <2> QED
    BY <1>3, <2>2, PageIs
<1> HIDE DEF p
<1>5. d \in CallSet /\ d.call = c.call /\ d.n = c.n /\ d.page = p
  BY <1>2, <1>4 DEF CallSet
<1>6. calls' = (calls \ {c}) \cup {d}
  BY <1>1 DEF p
<1> HIDE DEF d
<1>7. IsFiniteSet(calls') /\ Cardinality(calls') <= MaxCalls
  <2> DEFINE others == calls \ {c}
  <2>1. /\ IsFiniteSet(calls) /\ Cardinality(calls) \in Nat
        /\ Cardinality(calls) <= MaxCalls /\ MaxCalls \in Nat
    BY FS_CardinalityType, PageAssumption DEF TypeOK
  <2>2. IsFiniteSet(others) /\ Cardinality(others) = Cardinality(calls) - 1
    BY <2>1, FS_RemoveElement
  <2> HIDE DEF others
  <2>3. IsFiniteSet(others \cup {d}) /\ Cardinality(others \cup {d}) <= Cardinality(others) + 1
    BY <2>1, <2>2, FS_AddElement
  <2>4. calls' = others \cup {d}
    BY <1>6 DEF others
  <2>5. Cardinality(calls') \in Nat
    BY <2>3, <2>4, FS_CardinalityType
  <2> QED
    BY <2>1, <2>2, <2>3, <2>4, <2>5
<1> QED
  BY <1>1, <1>5, <1>6, <1>7 DEF p

-----------------------------------------------------------------------------
(* Types and numbers. *)

\* The window before anything was searched.
LEMMA InitView == Init => ViewInv /\ OwnRows
<1> SUFFICES ASSUME Init PROVE ViewInv /\ OwnRows
  OBVIOUS
<1>1. TypeOK
  <2>1. IsFiniteSet(calls) /\ Cardinality(calls) <= MaxCalls
    BY FS_EmptySet, PageAssumption DEF Init
  <2>2. shown \in Seq(Wiretap \X Row)
    BY DEF Init
  <2>3. tables \in [Wiretap -> SUBSET Row]
    BY DEF Init
  <2>4. /\ calls \subseteq [call : Calls, page : {None} \cup Pages, n : 0..MaxCalls]
        /\ changes \in 0..MaxChanges
    BY PageAssumption DEF Init
  <2>5. form \in Filters /\ searched \in Filters /\ current \in Wiretap \cup {None} /\ currentOffset \in Nat
    BY DEF Init
  <2>6. {hasMoreResults, loadingMore, calm} \subseteq BOOLEAN /\ late \subseteq Wiretap
    BY DEF Init
  <2> QED
    BY <2>1, <2>2, <2>3, <2>4, <2>5, <2>6 DEF TypeOK
<1> QED
  BY <1>1 DEF Init, ViewInv, PageLoading, Numbered, OwnCalls, Asked, OwnRows, Paging, Settled

\* A wiretap's rows that match are rows.
LEMMA MatchingRows ==
  ASSUME TypeOK, current # None
  PROVE  Matching \in SUBSET Row
BY DEF TypeOK, Matching

\* A page's rows, shown, are rows of its call's wiretap.
LEMMA ShownIs ==
  ASSUME NEW c \in CallSet, c.page # None
  PROVE  /\ Shown(c) \in Seq(Wiretap \X Row) /\ Len(Shown(c)) = Len(c.page.rows)
         /\ Len(c.page.rows) \in Nat /\ c.page.hasMore \in BOOLEAN
         /\ \A i \in 1..Len(c.page.rows) : Shown(c)[i] = <<c.call.wiretap, c.page.rows[i]>>
<1> DEFINE r == c.page.rows  w == c.call.wiretap
<1>1. c.page \in Pages /\ w \in Wiretap
  BY DEF CallSet, Calls
<1>2. r \in Seq(Row) /\ c.page.hasMore \in BOOLEAN
  BY <1>1 DEF Pages
<1>3. Shown(c) = [i \in DOMAIN r |-> <<w, r[i]>>]
  BY DEF Shown
<1> HIDE DEF r, w
<1>4. DOMAIN r = 1..Len(r) /\ Len(r) \in Nat /\ \A i \in 1..Len(r) : <<w, r[i]>> \in Wiretap \X Row
  BY <1>1, <1>2
<1>5. Shown(c) \in [1..Len(r) -> Wiretap \X Row]
  BY <1>3, <1>4
<1>6. Shown(c) \in Seq(Wiretap \X Row) /\ Len(Shown(c)) = Len(r)
  BY <1>4, <1>5
<1>7. \A i \in 1..Len(r) : Shown(c)[i] = <<w, r[i]>>
  BY <1>3, <1>4
<1> QED
  BY <1>2, <1>4, <1>6, <1>7 DEF r, w

\* Every step keeps the types, and the calls' numbers apart.
LEMMA StepTyped == TypeOK /\ Numbered /\ [Next]_vars => TypeOK' /\ Numbered'
<1> SUFFICES ASSUME TypeOK, Numbered, [Next]_vars PROVE TypeOK' /\ Numbered'
  OBVIOUS
<1>0. /\ calls \subseteq CallSet /\ <<>> \in Seq(Wiretap \X Row)
      /\ current # None => current \in Wiretap
      /\ Asked \subseteq Wiretap
  BY DEF TypeOK, CallSet, Calls, Asked
<1>1. CASE Search
  <2> DEFINE call == [more |-> FALSE, wiretap |-> current, filter |-> form, offset |-> 0]
  <2>1. call \in Calls
    BY <1>0, <1>1 DEF Search, TypeOK, Calls
  <2>2. Cardinality(calls) < MaxCalls /\ Ask(call)
    BY <1>1 DEF Search
  <2> HIDE DEF call
  <2>3. PICK a \in CallSet : calls' = calls \cup {a} /\ \A c \in calls : c.n # a.n
    BY <2>1, <2>2, AskedIs
  <2>4. IsFiniteSet(calls') /\ Cardinality(calls') <= MaxCalls
    BY <2>1, <2>2, AskedIs
  <2>5. Numbered'
    BY <2>3 DEF Numbered
  <2>6. calls' \subseteq CallSet
    BY <1>0, <2>3
  <2>7. (calm' \in BOOLEAN) /\ (late' \subseteq Wiretap)
    BY <1>0, <1>1 DEF Search, TypeOK
  <2> QED
    BY <1>0, <1>1, <2>4, <2>5, <2>6, <2>7 DEF Search, TypeOK, CallSet
<1>2. CASE Scroll
  <2> DEFINE call == [more |-> TRUE, wiretap |-> current, filter |-> form, offset |-> currentOffset]
  <2>1. call \in Calls
    BY <1>0, <1>2 DEF Scroll, TypeOK, Calls
  <2>2. Cardinality(calls) < MaxCalls /\ Ask(call)
    BY <1>2 DEF Scroll
  <2> HIDE DEF call
  <2>3. PICK a \in CallSet : calls' = calls \cup {a} /\ \A c \in calls : c.n # a.n
    BY <2>1, <2>2, AskedIs
  <2>4. IsFiniteSet(calls') /\ Cardinality(calls') <= MaxCalls
    BY <2>1, <2>2, AskedIs
  <2>5. Numbered'
    BY <2>3 DEF Numbered
  <2>6. calls' \subseteq CallSet
    BY <1>0, <2>3
  <2>7. calm' \in BOOLEAN
    BY <1>2 DEF Scroll, TypeOK
  <2> QED
    BY <1>2, <2>4, <2>5, <2>6, <2>7 DEF Scroll, TypeOK, CallSet, view
<1>3. CASE EditFilters
  BY <1>3 DEF EditFilters, TypeOK, Numbered, view, history
<1>4. ASSUME NEW w \in Wiretap \cup {None}, ChangeWiretap(w) PROVE TypeOK' /\ Numbered'
  <2>1. changes' \in 0..MaxChanges
    BY <1>4, PageAssumption DEF ChangeWiretap, TypeOK
  <2>2. late' \subseteq Wiretap
    BY <1>0, <1>4 DEF ChangeWiretap, TypeOK
  <2>3. /\ shown' \in Seq(Wiretap \X Row) /\ currentOffset' \in Nat
        /\ hasMoreResults' \in BOOLEAN /\ form' \in Filters
    <3>1. CASE w = None
      <4>1. form' = form /\ shown' = shown /\ currentOffset' = currentOffset /\ hasMoreResults' = hasMoreResults
        BY <1>4, <3>1 DEF ChangeWiretap, view
      <4> QED
        BY <4>1 DEF TypeOK
    <3>2. CASE w # None
      <4>1. shown' = <<>> /\ currentOffset' = 0 /\ hasMoreResults' = FALSE /\ form' \in Filters
        BY <1>4, <3>2 DEF ChangeWiretap
      <4> QED
        BY <1>0, <4>1
    <3> QED
      BY <3>1, <3>2
  <2> QED
    BY <1>4, <2>1, <2>2, <2>3 DEF ChangeWiretap, TypeOK, Numbered
<1>5. ASSUME NEW w \in Wiretap, NEW r \in Row, ChangeTable(w, r) PROVE TypeOK' /\ Numbered'
  <2>1. changes' \in 0..MaxChanges
    BY <1>5, PageAssumption DEF ChangeTable, TypeOK
  <2>2. tables' \in [Wiretap -> SUBSET Row]
    BY <1>5 DEF ChangeTable, TypeOK
  <2>3. calm' \in BOOLEAN
    BY <1>5 DEF ChangeTable, TypeOK
  <2> QED
    BY <1>5, <2>1, <2>2, <2>3 DEF ChangeTable, TypeOK, Numbered, view
<1>6. ASSUME NEW c \in calls, Run(c) PROVE TypeOK' /\ Numbered'
  <2>1. PICK d \in CallSet : d.n = c.n /\ calls' = (calls \ {c}) \cup {d}
    BY <1>6, RunIs
  <2>2. IsFiniteSet(calls') /\ Cardinality(calls') <= MaxCalls
    BY <1>6, RunIs
  <2>3. Numbered'
    BY <2>1 DEF Numbered
  <2>4. calls' \subseteq CallSet
    BY <1>0, <2>1
  <2> QED
    BY <1>6, <2>2, <2>3, <2>4 DEF Run, TypeOK, CallSet, view, history
<1>7. ASSUME NEW c \in calls, Answer(c) PROVE TypeOK' /\ Numbered'
  <2>1. IsFiniteSet(calls') /\ Cardinality(calls') <= MaxCalls
    BY <1>7, Returned DEF Answer
  <2>2. shown' \in Seq(Wiretap \X Row) /\ hasMoreResults' \in BOOLEAN /\ currentOffset' \in Nat
    <3>1. /\ Shown(c) \in Seq(Wiretap \X Row) /\ Len(c.page.rows) \in Nat
          /\ c.page.hasMore \in BOOLEAN
      BY <1>0, <1>7, ShownIs DEF Answer
    <3>2. /\ shown' = shown \o Shown(c) /\ hasMoreResults' = c.page.hasMore
          /\ currentOffset' = Len(c.page.rows) + (IF c.call.more THEN currentOffset ELSE 0)
      BY <1>7 DEF Answer
    <3>3. shown \in Seq(Wiretap \X Row) /\ currentOffset \in Nat
      BY DEF TypeOK
    <3>4. shown' \in Seq(Wiretap \X Row)
      BY <3>1, <3>2, <3>3
    <3>5. currentOffset' \in Nat
      <4>1. currentOffset' = Len(c.page.rows) + currentOffset \/ currentOffset' = Len(c.page.rows) + 0
        BY <3>2
      <4> QED
        BY <3>1, <3>3, <4>1
    <3> QED
      BY <3>1, <3>2, <3>4, <3>5
  <2>3. loadingMore' \in BOOLEAN
    BY <1>0, <1>7 DEF Answer, TypeOK
  <2> QED
    BY <1>7, <2>1, <2>2, <2>3 DEF Answer, TypeOK, Numbered, history
<1>8. ASSUME NEW c \in calls, Fail(c) PROVE TypeOK' /\ Numbered'
  <2>1. IsFiniteSet(calls') /\ Cardinality(calls') <= MaxCalls
    BY <1>8, Returned DEF Fail
  <2>2. loadingMore' \in BOOLEAN
    BY <1>8 DEF Fail, TypeOK
  <2> QED
    BY <1>8, <2>1, <2>2 DEF Fail, TypeOK, Numbered, view, history
<1>9. CASE UNCHANGED vars
  BY <1>9 DEF vars, view, history, TypeOK, Numbered
<1> QED
  BY <1>1, <1>2, <1>3, <1>4, <1>5, <1>6, <1>7, <1>8, <1>9 DEF Next

-----------------------------------------------------------------------------
(* The page being loaded. *)

\* Every step keeps one page being loaded, with its call under way.
LEMMA StepPageLoading == TypeOK /\ PageLoading /\ [Next]_vars => PageLoading'
<1> SUFFICES ASSUME TypeOK, PageLoading, [Next]_vars PROVE PageLoading'
  OBVIOUS
<1>0. calls \subseteq CallSet /\ loadingMore \in BOOLEAN
  BY DEF TypeOK, CallSet
<1> USE DEF PageLoading
<1>1. CASE Search
  <2> DEFINE call == [more |-> FALSE, wiretap |-> current, filter |-> form, offset |-> 0]
  <2>1. PICK a : calls' = calls \cup {a} /\ a.call = call
    <3>1. Ask(call)
      BY <1>1 DEF Search
    <3> QED
      BY <3>1, AskedCall
  <2>2. ~a.call.more /\ loadingMore' = loadingMore
    BY <1>1, <2>1 DEF Search
  <2> QED
    BY <2>1, <2>2
<1>2. CASE Scroll
  <2> DEFINE call == [more |-> TRUE, wiretap |-> current, filter |-> form, offset |-> currentOffset]
  <2>1. PICK a : calls' = calls \cup {a} /\ a.call = call
    <3>1. Ask(call)
      BY <1>2 DEF Scroll
    <3> QED
      BY <3>1, AskedCall
  <2>2. a.call.more /\ loadingMore' /\ ~loadingMore
    BY <1>2, <2>1 DEF Scroll
  <2> QED
    BY <2>1, <2>2
<1>3. CASE EditFilters
  BY <1>3 DEF EditFilters
<1>4. ASSUME NEW w \in Wiretap \cup {None}, ChangeWiretap(w) PROVE PageLoading'
  BY <1>4 DEF ChangeWiretap
<1>5. ASSUME NEW w \in Wiretap, NEW r \in Row, ChangeTable(w, r) PROVE PageLoading'
  BY <1>5 DEF ChangeTable
<1>6. ASSUME NEW c \in calls, Run(c) PROVE PageLoading'
  <2>1. PICK d \in CallSet : d.call = c.call /\ calls' = (calls \ {c}) \cup {d}
    BY <1>6, RunIs
  <2>2. loadingMore' = loadingMore
    BY <1>6 DEF Run
  <2> QED
    BY <2>1, <2>2
<1>7. ASSUME NEW c \in calls, Answer(c) PROVE PageLoading'
  BY <1>0, <1>7 DEF Answer
<1>8. ASSUME NEW c \in calls, Fail(c) PROVE PageLoading'
  BY <1>0, <1>8 DEF Fail
<1>9. CASE UNCHANGED vars
  BY <1>9 DEF vars
<1> QED
  BY <1>1, <1>2, <1>3, <1>4, <1>5, <1>6, <1>7, <1>8, <1>9 DEF Next

-----------------------------------------------------------------------------
(* Whose calls and rows. *)

\* Every step keeps the calls the selected wiretap's, or late.
LEMMA StepOwnCalls == TypeOK /\ OwnCalls /\ [Next]_vars => OwnCalls'
<1> SUFFICES ASSUME TypeOK, OwnCalls, [Next]_vars PROVE OwnCalls'
  OBVIOUS
<1> USE DEF OwnCalls, Asked
<1>1. CASE Search
  <2> DEFINE call == [more |-> FALSE, wiretap |-> current, filter |-> form, offset |-> 0]
  <2>1. PICK a : calls' = calls \cup {a} /\ a.call.wiretap = current
    <3>1. Ask(call) /\ call.wiretap = current
      BY <1>1 DEF Search
    <3> HIDE DEF call
    <3> QED
      BY <3>1, AskedCall
  <2> QED
    BY <1>1, <2>1 DEF Search
<1>2. CASE Scroll
  <2> DEFINE call == [more |-> TRUE, wiretap |-> current, filter |-> form, offset |-> currentOffset]
  <2>1. PICK a : calls' = calls \cup {a} /\ a.call.wiretap = current
    <3>1. Ask(call) /\ call.wiretap = current
      BY <1>2 DEF Scroll
    <3> HIDE DEF call
    <3> QED
      BY <3>1, AskedCall
  <2> QED
    BY <1>2, <2>1 DEF Scroll
<1>3. CASE EditFilters
  BY <1>3 DEF EditFilters, history
<1>4. ASSUME NEW w \in Wiretap \cup {None}, ChangeWiretap(w) PROVE OwnCalls'
  BY <1>4 DEF ChangeWiretap
<1>5. ASSUME NEW w \in Wiretap, NEW r \in Row, ChangeTable(w, r) PROVE OwnCalls'
  BY <1>5 DEF ChangeTable
<1>6. ASSUME NEW c \in calls, Run(c) PROVE OwnCalls'
  <2>1. PICK d \in CallSet : d.call = c.call /\ calls' = (calls \ {c}) \cup {d}
    BY <1>6, RunIs
  <2> QED
    BY <1>6, <2>1 DEF Run, history
<1>7. ASSUME NEW c \in calls, Answer(c) PROVE OwnCalls'
  BY <1>7 DEF Answer, history
<1>8. ASSUME NEW c \in calls, Fail(c) PROVE OwnCalls'
  BY <1>8 DEF Fail, history
<1>9. CASE UNCHANGED vars
  BY <1>9 DEF vars, history
<1> QED
  BY <1>1, <1>2, <1>3, <1>4, <1>5, <1>6, <1>7, <1>8, <1>9 DEF Next

\* Every step keeps the rows shown the selected wiretap's, or those of a late call.
LEMMA StepOwnRows == TypeOK /\ OwnCalls /\ OwnRows /\ [Next]_vars => OwnRows'
<1> SUFFICES ASSUME TypeOK, OwnCalls, OwnRows, [Next]_vars PROVE OwnRows'
  OBVIOUS
<1> USE DEF OwnRows
<1>1. CASE Search
  <2>1. shown' = <<>>
    BY <1>1 DEF Search
  <2> QED
    BY <2>1
<1>2. CASE Scroll
  BY <1>2 DEF Scroll, view
<1>3. CASE EditFilters
  BY <1>3 DEF EditFilters, history, view
<1>4. ASSUME NEW w \in Wiretap \cup {None}, ChangeWiretap(w) PROVE OwnRows'
  <2>1. CASE w = None
    BY <1>4, <2>1 DEF ChangeWiretap
  <2>2. CASE w # None
    <3>1. shown' = <<>>
      BY <1>4, <2>2 DEF ChangeWiretap
    <3> QED
      BY <3>1
  <2> QED
    BY <2>1, <2>2
<1>5. ASSUME NEW w \in Wiretap, NEW r \in Row, ChangeTable(w, r) PROVE OwnRows'
  BY <1>5 DEF ChangeTable, view
<1>6. ASSUME NEW c \in calls, Run(c) PROVE OwnRows'
  BY <1>6 DEF Run, history, view
<1>7. ASSUME NEW c \in calls, Answer(c) PROVE OwnRows'
  <2> SUFFICES ASSUME current # None, NEW i \in DOMAIN shown'
               PROVE  shown'[i][1] \in {current} \cup late
    BY <1>7 DEF Answer, history
  <2>1. c \in CallSet /\ c.page # None /\ shown' = shown \o Shown(c)
    BY <1>7 DEF Answer, TypeOK, CallSet
  <2>2. c.call.wiretap \in {current} \cup late
    BY DEF OwnCalls, Asked
  <2>3. \A j \in DOMAIN shown : shown[j][1] \in {current} \cup late
    OBVIOUS
  <2> DEFINE s == Shown(c)  n == Len(c.page.rows)
  <2>4. /\ s \in Seq(Wiretap \X Row) /\ Len(s) = n /\ n \in Nat
        /\ \A j \in 1..n : s[j][1] \in {current} \cup late
    BY <2>1, <2>2, ShownIs
  <2>5. shown' = shown \o s /\ shown \in Seq(Wiretap \X Row)
    BY <2>1 DEF TypeOK
  <2> HIDE DEF s, n
  <2>6. i \in 1..(Len(shown) + n) /\ Len(shown) \in Nat
    BY <2>4, <2>5
  <2>7. shown'[i] = IF i <= Len(shown) THEN shown[i] ELSE s[i - Len(shown)]
    BY <2>4, <2>5, <2>6
  <2>8. CASE i <= Len(shown)
    BY <2>3, <2>5, <2>6, <2>7, <2>8
  <2>9. CASE ~(i <= Len(shown))
    BY <2>4, <2>6, <2>7, <2>9
  <2> QED
    BY <2>8, <2>9
<1>8. ASSUME NEW c \in calls, Fail(c) PROVE OwnRows'
  BY <1>8 DEF Fail, history, view
<1>9. CASE UNCHANGED vars
  BY <1>9 DEF vars, history, view
<1> QED
  BY <1>1, <1>2, <1>3, <1>4, <1>5, <1>6, <1>7, <1>8, <1>9 DEF Next

-----------------------------------------------------------------------------
(* The pages. *)

\* What leaves the view, its calls, its search and its table as they are leaves the paging.
LEMMA PagingSame ==
  ASSUME Paging,
         shown' = shown, currentOffset' = currentOffset, hasMoreResults' = hasMoreResults,
         current' = current, searched' = searched, calls' = calls,
         calm' /\ current # None => calm /\ tables'[current] = tables[current]
  PROVE  Paging'
<1> SUFFICES ASSUME Settled' PROVE Paging'
  BY DEF Paging
<1>1. Matching' = Matching
  BY DEF Settled, Matching
<1>2. Settled
  BY <1>1 DEF Settled, Distinct
<1>3. Orders(Matching)' = Orders(Matching)
  BY <1>1
<1> QED
  BY <1>1, <1>2, <1>3 DEF Paging, Newest, NextPage

\* While nothing interferes, the search and its table stay as they are.
LEMMA StaysSettled ==
  ASSUME Settled', current' = current, searched' = searched,
         calm' => calm /\ tables' = tables
  PROVE  Settled /\ Matching' = Matching /\ Orders(Matching)' = Orders(Matching)
<1>1. Matching' = Matching
  BY DEF Settled, Matching
<1> QED
  BY <1>1 DEF Settled, Distinct

\* A search starts with no rows, and its call asks for the first.
LEMMA SearchPaging == ASSUME TypeOK, Search PROVE Paging'
<1> SUFFICES ASSUME Settled' PROVE Paging'
  BY DEF Paging
<1> DEFINE call == [more |-> FALSE, wiretap |-> current, filter |-> form, offset |-> 0]
<1>1. /\ shown' = <<>> /\ currentOffset' = 0 /\ hasMoreResults' = FALSE
      /\ Ask(call) /\ current # None /\ current' = current
      /\ searched' = form /\ tables' = tables /\ calls = {}
  BY DEF Search, Settled
<1>2. PICK a : calls' = calls \cup {a} /\ a.call = call /\ a.page = None
  BY <1>1, AskedCall
<1>3. ASSUME NEW q \in Orders(Matching)' PROVE Newest(q)'
  <2> DEFINE M == Matching'
  <2>1. M \in SUBSET Row
    BY <1>1 DEF TypeOK, Matching
  <2> HIDE DEF M
  <2>2. q \in Orders(M)
    BY <1>3 DEF M
  <2>3. Len(q) \in Nat
    BY <2>1, <2>2, OrderTyped
  <2> QED
    BY <1>1, <2>3 DEF Newest
<1>4. NextPage(a)'
  BY <1>1, <1>2 DEF NextPage
<1> QED
  BY <1>1, <1>2, <1>3, <1>4 DEF Paging

\* A page is asked for with no other call under way, for the rows that come next.
LEMMA ScrollPaging == ASSUME TypeOK, PageLoading, Paging, Scroll PROVE Paging'
<1> SUFFICES ASSUME Settled' PROVE Paging'
  BY DEF Paging
<1> DEFINE call == [more |-> TRUE, wiretap |-> current, filter |-> form, offset |-> currentOffset]
<1>1. /\ shown' = shown /\ currentOffset' = currentOffset /\ hasMoreResults' = hasMoreResults
      /\ Ask(call) /\ current' = current /\ searched' = searched /\ tables' = tables
      /\ calm /\ form = searched /\ ~loadingMore /\ hasMoreResults
  BY DEF Scroll, Settled, view
<1>2. Settled /\ Matching' = Matching /\ Orders(Matching)' = Orders(Matching)
  BY <1>1, StaysSettled
<1>3. calls = {}
  <2> SUFFICES ASSUME NEW c \in calls PROVE FALSE
    OBVIOUS
  <2>1. c.call.more = hasMoreResults
    BY <1>2 DEF Paging, NextPage
  <2> QED
    BY <1>1, <2>1 DEF PageLoading
<1>4. PICK a : calls' = calls \cup {a} /\ a.call = call /\ a.page = None
  BY <1>1, AskedCall
<1>5. hasMoreResults = TRUE
  BY <1>1 DEF TypeOK
<1>6. NextPage(a)'
  BY <1>1, <1>4, <1>5 DEF NextPage
<1> QED
  BY <1>1, <1>2, <1>3, <1>4, <1>6 DEF Paging, Newest

\* The query that ends gives the page that comes next.
LEMMA RunPaging == ASSUME TypeOK, Paging, NEW c \in calls, Run(c) PROVE Paging'
<1> SUFFICES ASSUME Settled' PROVE Paging'
  BY DEF Paging
<1>1. /\ shown' = shown /\ currentOffset' = currentOffset /\ hasMoreResults' = hasMoreResults
      /\ current' = current /\ searched' = searched /\ tables' = tables /\ calm' = calm
  BY DEF Run, view, history
<1>2. Settled /\ Matching' = Matching /\ Orders(Matching)' = Orders(Matching)
  BY <1>1, StaysSettled
<1>3. calls = {c} /\ NextPage(c)
  BY <1>2 DEF Paging
<1>4. PICK d \in CallSet :
        /\ d.call = c.call /\ calls' = (calls \ {c}) \cup {d}
        /\ \E q \in Orders(tables[c.call.wiretap] \cap c.call.filter) : d.page = Page(q, c.call.offset)
  BY RunIs
<1>5. calls' = {d}
  BY <1>3, <1>4
<1>6. /\ c.call.wiretap = current /\ c.call.filter = searched /\ c.call.offset = currentOffset
  BY <1>3 DEF NextPage
<1>7. \E q \in Orders(Matching) : d.page = Page(q, currentOffset)
  BY <1>4, <1>6 DEF Matching
<1>8. NextPage(d)'
  BY <1>1, <1>2, <1>3, <1>4, <1>7 DEF NextPage
<1> QED
  BY <1>1, <1>2, <1>5, <1>8 DEF Paging, Newest

\* A call that fails leaves what is shown.
LEMMA FailPaging == ASSUME TypeOK, Paging, NEW c \in calls, Fail(c) PROVE Paging'
<1> SUFFICES ASSUME Settled' PROVE Paging'
  BY DEF Paging
<1>1. /\ shown' = shown /\ currentOffset' = currentOffset /\ hasMoreResults' = hasMoreResults
      /\ current' = current /\ searched' = searched /\ tables' = tables /\ calm' = calm
      /\ calls' = calls \ {c}
  BY DEF Fail, view, history
<1>2. Settled /\ Matching' = Matching /\ Orders(Matching)' = Orders(Matching)
  BY <1>1, StaysSettled
<1>3. calls' = {}
  BY <1>1, <1>2 DEF Paging
<1> QED
  BY <1>1, <1>2, <1>3 DEF Paging, Newest

\* The rows of the answer are those that come next.
LEMMA AnswerPaging == ASSUME TypeOK, Paging, NEW c \in calls, Answer(c) PROVE Paging'
<1> SUFFICES ASSUME Settled' PROVE Paging'
  BY DEF Paging
<1> DEFINE s == Shown(c)  rows == c.page.rows  o == currentOffset
<1>1. /\ shown' = shown \o s /\ hasMoreResults' = c.page.hasMore
      /\ currentOffset' = Len(rows) + (IF c.call.more THEN o ELSE 0)
      /\ current' = current /\ searched' = searched /\ tables' = tables /\ calm' = calm
      /\ calls' = calls \ {c} /\ c.page # None
  BY DEF Answer, history
<1>2. Settled /\ Matching' = Matching /\ Orders(Matching)' = Orders(Matching)
  BY <1>1, StaysSettled
<1>3. /\ calls' = {} /\ NextPage(c) /\ o = Len(shown)
      /\ \A q \in Orders(Matching) : Newest(q)
  BY <1>1, <1>2 DEF Paging
<1>4. PICK q \in Orders(Matching) : c.page = Page(q, o)
  BY <1>1, <1>3 DEF NextPage
<1>5. \A t \in Orders(Matching) : t = q
  <2>1. Matching \in SUBSET Row /\ \A r, t \in Matching : r # t => TimeOf[r] # TimeOf[t]
    BY <1>2, MatchingRows DEF Settled, Distinct
  <2> QED
    BY <2>1, OneOrder
<1>6. /\ shown \in Seq(Wiretap \X Row) /\ o \in Nat /\ c \in CallSet
  BY DEF TypeOK, CallSet
<1> DEFINE n == Len(rows)
<1>7. /\ s \in Seq(Wiretap \X Row) /\ Len(s) = n /\ n \in Nat
      /\ \A i \in 1..n : s[i] = <<current, rows[i]>>
  <2>1. c.call.wiretap = current
    BY <1>3 DEF NextPage
  <2> QED
    BY <1>1, <1>6, <2>1, ShownIs
<1>8. /\ q \in Seq(Row) /\ Len(q) = Cardinality(Matching) /\ Len(q) \in Nat
  BY <1>2, MatchingRows, OrderTyped DEF Settled
<1>9. /\ n = (IF o + PageSize <= Len(q) THEN PageSize ELSE IF o <= Len(q) THEN Len(q) - o ELSE 0)
      /\ \A i \in 1..n : rows[i] = q[o + i]
      /\ c.page.hasMore <=> Len(q) > o + PageSize
  <2> DEFINE p == Page(q, o)
  <2>1. /\ Len(p.rows) = (IF o + PageSize <= Len(q) THEN PageSize ELSE IF o <= Len(q) THEN Len(q) - o ELSE 0)
        /\ \A i \in 1..Len(p.rows) : p.rows[i] = q[o + i]
        /\ p.hasMore <=> Len(q) > o + PageSize
    BY <1>6, <1>8, PageIs
  <2>2. c.page = p
    BY <1>4
  <2> HIDE DEF p
  <2> QED
    BY <2>1, <2>2
<1>10. o <= Len(q) /\ \A i \in 1..o : shown[i] = <<current, q[i]>>
  BY <1>3, <1>6 DEF Newest
<1>11. currentOffset' = o + n
  <2>1. ~c.call.more => o = 0
    BY <1>3 DEF NextPage
  <2>2. currentOffset' = n + o
    BY <1>1, <2>1
  <2> QED
    BY <1>6, <1>7, <2>2
<1> HIDE DEF s, n, rows
<1>12. /\ Len(shown') = o + n
       /\ \A i \in 1..(o + n) : shown'[i] = IF i <= o THEN shown[i] ELSE s[i - o]
  <2>1. shown' = shown \o s /\ o = Len(shown) /\ shown \in Seq(Wiretap \X Row) /\ o \in Nat
    BY <1>1, <1>3, <1>6
  <2>2. s \in Seq(Wiretap \X Row) /\ Len(s) = n /\ n \in Nat
    BY <1>7
  <2>3. /\ Len(shown \o s) = Len(shown) + Len(s)
        /\ \A i \in 1..(Len(shown) + Len(s)) :
             (shown \o s)[i] = IF i <= Len(shown) THEN shown[i] ELSE s[i - Len(shown)]
    BY <2>1, <2>2, ConcatProperties
  <2> QED
    BY <2>1, <2>2, <2>3
<1>13. PageSize \in Nat
  BY PageAssumption
<1>14. o + n <= Len(q)
  BY <1>6, <1>8, <1>9, <1>10, <1>13
<1>15. ASSUME NEW i \in 1..(o + n) PROVE shown'[i] = <<current, q[i]>>
  <2>1. CASE i <= o
    BY <1>6, <1>7, <1>10, <1>12, <2>1
  <2>2. CASE ~(i <= o)
    <3>1. i - o \in 1..n /\ o + (i - o) = i
      BY <1>6, <1>7, <2>2
    <3> QED
      BY <1>7, <1>9, <1>12, <2>2, <3>1
  <2> QED
    BY <2>1, <2>2
<1>16. DOMAIN shown' = 1..(o + n)
  BY <1>1, <1>6, <1>7, <1>12
<1>17. Newest(q)'
  BY <1>1, <1>12, <1>14, <1>15, <1>16 DEF Newest
<1>18. ~hasMoreResults' => Len(shown') = Cardinality(Matching)
  BY <1>1, <1>6, <1>8, <1>9, <1>10, <1>12, <1>13
<1> QED
  BY <1>1, <1>2, <1>3, <1>5, <1>11, <1>12, <1>17, <1>18 DEF Paging

\* Every step keeps the pages right.
LEMMA StepPaging == TypeOK /\ PageLoading /\ Paging /\ [Next]_vars => Paging'
<1> SUFFICES ASSUME TypeOK, PageLoading, Paging, [Next]_vars PROVE Paging'
  OBVIOUS
<1>1. CASE Search
  BY <1>1, SearchPaging
<1>2. CASE Scroll
  BY <1>2, ScrollPaging
<1>3. CASE EditFilters
  BY <1>3, PagingSame DEF EditFilters, history, view
<1>4. ASSUME NEW w \in Wiretap \cup {None}, ChangeWiretap(w) PROVE Paging'
  BY <1>4 DEF ChangeWiretap, Paging, Settled
<1>5. ASSUME NEW w \in Wiretap, NEW r \in Row, ChangeTable(w, r) PROVE Paging'
  <2>1. calm' /\ current # None => calm /\ tables'[current] = tables[current]
    BY <1>5 DEF ChangeTable, TypeOK
  <2> QED
    BY <1>5, <2>1, PagingSame DEF ChangeTable, view
<1>6. ASSUME NEW c \in calls, Run(c) PROVE Paging'
  BY <1>6, RunPaging
<1>7. ASSUME NEW c \in calls, Answer(c) PROVE Paging'
  BY <1>7, AnswerPaging
<1>8. ASSUME NEW c \in calls, Fail(c) PROVE Paging'
  BY <1>8, FailPaging
<1>9. CASE UNCHANGED vars
  BY <1>9, PagingSame DEF vars, view, history
<1> QED
  BY <1>1, <1>2, <1>3, <1>4, <1>5, <1>6, <1>7, <1>8, <1>9 DEF Next

-----------------------------------------------------------------------------
(* The window. *)

\* ViewInv holds in every behaviour: one page is loaded at a time, calls are the
\* selected wiretap's, and without interference the view is a prefix of the order.
THEOREM ViewCorrect == Spec => []ViewInv
<1>1. Init => ViewInv
  BY InitView
<1>2. ViewInv /\ [Next]_vars => ViewInv'
  BY StepTyped, StepPageLoading, StepOwnCalls, StepPaging DEF ViewInv
<1> QED
  BY <1>1, <1>2, PTL DEF Spec

\* PagesRight: the rows shown are the newest that match, each once, page after page,
\* for every size of page and every table (onSearch, loadMoreResults).
THEOREM PagesInOrder == Spec => []PagesRight
<1>1. ViewInv => PagesRight
  BY DEF ViewInv, Paging, PagesRight
<1> QED
  BY <1>1, ViewCorrect, PTL

\* EndMeansAll: the end of the results is shown under all of them (updateScrollStatus).
THEOREM EndIsEnd == Spec => []EndMeansAll
<1>1. ViewInv => EndMeansAll
  BY DEF ViewInv, Paging, EndMeansAll
<1> QED
  BY <1>1, ViewCorrect, PTL

\* OwnRows: a row is expanded in the wiretap it came from (toggleExpandRow), and is not
\* the selected one's only if a call was under way when the view was cleared, whose answer
\* onSearch or loadMoreResults appends late.
THEOREM RowsOwn == Spec => []OwnRows
<1>1. Init => OwnRows
  BY InitView
<1>2. ViewInv /\ OwnRows /\ [Next]_vars => OwnRows'
  BY StepOwnRows DEF ViewInv
<1> QED
  BY <1>1, <1>2, ViewCorrect, PTL DEF Spec

=============================================================================
