-------------------------- MODULE Scheduler_proofs --------------------------
(***************************************************************************)
(* Proofs about Scheduler, for every set of wiretaps and settings, and all *)
(* lengths of ticks and of waiting.                                        *)
(***************************************************************************)
EXTENDS Scheduler, FiniteSetTheorems, SequenceTheorems, TLAPS

-----------------------------------------------------------------------------
(* Ages. *)

\* Numbers have a least one.
LEMMA LeastNumber ==
  ASSUME NEW T \in SUBSET Nat, T # {}
  PROVE  \E m \in T : \A k \in T : m <= k
<1> DEFINE R == OpToRel(<, Nat)
<1>1. IsWellFoundedOn(R, Nat)
  BY NatLessThanWellFounded
<1>2. \A x, y \in Nat : x < y => <<x, y>> \in R
  BY DEF OpToRel
<1> HIDE DEF R
<1>3. PICK m \in T : \A k \in T : ~(<<k, m>> \in R)
  BY <1>1, WFMin
<1>4. ASSUME NEW k \in T PROVE m <= k
  <2>1. m \in Nat /\ k \in Nat
    OBVIOUS
  <2>2. k < m => <<k, m>> \in R
    BY <1>2, <2>1
  <2> QED
    BY <1>3, <2>1, <2>2
<1> QED
  BY <1>4

\* Finitely many numbers have a greatest one.
LEMMA GreatestNumber ==
  ASSUME NEW S \in SUBSET Nat, IsFiniteSet(S), S # {}
  PROVE  Max(S) \in S /\ \A y \in S : y <= Max(S)
<1> DEFINE Above(x) == {y \in S : y > x}
           T == {Cardinality(Above(x)) : x \in S}
<1>1. \A x \in S : IsFiniteSet(Above(x)) /\ Cardinality(Above(x)) \in Nat
  <2> TAKE x \in S
  <2>1. Above(x) \in SUBSET S
    OBVIOUS
  <2> HIDE DEF Above
  <2> QED
    BY <2>1, FS_Subset, FS_CardinalityType
<1>2. T \in SUBSET Nat /\ T # {}
  BY <1>1
<1>3. PICK m \in T : \A k \in T : m <= k
  BY <1>2, LeastNumber
<1>4. PICK x \in S : m = Cardinality(Above(x))
  BY <1>3
<1>5. Above(x) = {}
  <2> SUFFICES ASSUME NEW y \in Above(x) PROVE FALSE
    OBVIOUS
  <2>1. Above(y) \in SUBSET Above(x) /\ Above(y) # Above(x) /\ y \in S
    <3>1. y \in S /\ y > x /\ x \in Nat /\ y \in Nat
      OBVIOUS
    <3>2. \A z \in S : z > y => z > x
      BY <3>1
    <3>3. y \notin Above(y)
      BY <3>1
    <3> QED
      BY <3>1, <3>2, <3>3
  <2>2. m <= Cardinality(Above(y))
    BY <1>3, <2>1
  <2> HIDE DEF Above
  <2>3. /\ Cardinality(Above(y)) <= Cardinality(Above(x))
        /\ Cardinality(Above(x)) = Cardinality(Above(y)) => Above(x) = Above(y)
    BY <1>1, <2>1, FS_Subset
  <2> QED
    BY <1>1, <1>4, <2>1, <2>2, <2>3
<1>6. \E z \in S : \A y \in S : y <= z
  BY <1>5
<1>7. Max(S) = CHOOSE z \in S : \A y \in S : z >= y
  BY DEF Max
<1>8. \E z \in S : \A y \in S : z >= y
  BY <1>6
<1> DEFINE g == CHOOSE z \in S : \A y \in S : z >= y
<1>9. g \in S /\ \A y \in S : g >= y
  BY <1>8
<1>10. Max(S) = g
  BY <1>7
<1> HIDE DEF g
<1> QED
  BY <1>9, <1>10

\* No interval is longer than the longest age, nor is the wait after a failed re-encode.
LEMMA LongIs == Long \in Nat \ {0} /\ RetryAfter <= Long /\ \A s \in Settings : s.interval <= Long
<1> DEFINE I == {s.interval : s \in Settings}  S == {RetryAfter} \cup I
<1>1. I \in SUBSET (Nat \ {0})
  BY SettingsAssumption
<1>2. IsFiniteSet(I)
  <2> DEFINE f == [s \in Settings |-> s.interval]
  <2>1. f \in Surjection(Settings, I)
    BY DEF Surjection
  <2> HIDE DEF f, I
  <2> QED
    BY <2>1, FS_Surjection, SettingsAssumption
<1> HIDE DEF I
<1>3. IsFiniteSet(S) /\ S \in SUBSET (Nat \ {0}) /\ S # {} /\ RetryAfter \in S
  <2>1. IsFiniteSet(I \cup {RetryAfter})
    BY <1>2, FS_AddElement
  <2>2. S = I \cup {RetryAfter}
    OBVIOUS
  <2> QED
    BY <1>1, <2>1, <2>2, TimeAssumption
<1>4. Max(S) \in S /\ \A y \in S : y <= Max(S)
  BY <1>3, GreatestNumber
<1>5. Long = Max(S)
  BY DEF Long, I
<1>6. \A s \in Settings : s.interval \in S
  BY DEF I
<1> HIDE DEF S
<1> QED
  BY <1>3, <1>4, <1>5, <1>6

\* Ages grow with the time, up to the longest.
LEMMA AgedIs ==
  ASSUME NEW age \in [Wiretap -> Ages], NEW gap \in Nat
  PROVE  /\ Aged(age, gap) \in [Wiretap -> Ages]
         /\ \A w \in Wiretap : Aged(age, gap)[w] = IF age[w] + gap <= Long THEN age[w] + gap ELSE Long
<1>1. Long \in Nat
  BY LongIs
<1>2. \A a, b \in Int : Min({a, b}) = IF a <= b THEN a ELSE b
  BY DEF Min
<1>3. \A w \in Wiretap : age[w] \in Nat /\ age[w] <= Long
  BY <1>1 DEF Ages
<1> HIDE DEF Long
<1> USE DEF Aged
<1>4. \A w \in Wiretap : Min({age[w] + gap, Long}) = IF age[w] + gap <= Long THEN age[w] + gap ELSE Long
  BY <1>1, <1>2, <1>3
<1>5. \A w \in Wiretap : Min({age[w] + gap, Long}) \in Ages
  BY <1>1, <1>3, <1>4 DEF Ages
<1> QED
  BY <1>4, <1>5

-----------------------------------------------------------------------------
(* The list of a tick. *)

\* The list has each wiretap's row, and whether it is due, once.
LEMMA ListedIs ==
  ASSUME TypeOK, NEW gap \in Nat, NEW t \in SetToSeqs(Listed(gap))
  PROVE  /\ t \in Seq(Rows)
         /\ \A i \in 1..Len(t) :
              /\ t[i].id \in Wiretap /\ row[t[i].id] # None /\ t[i].settings = row[t[i].id]
              /\ t[i].due => Aged(polled, gap)[t[i].id] >= t[i].settings.interval
         /\ \A i, j \in 1..Len(t) : t[i].id = t[j].id => i = j
<1> DEFINE V == {v \in Wiretap : row[v] # None}
           rec(w) == [id |-> w, settings |-> row[w], due |-> Aged(polled, gap)[w] >= row[w].interval]
           L == Listed(gap)
           n == Cardinality(L)
<1>1. polled \in [Wiretap -> Ages] /\ \A w \in V : row[w] \in Settings
  BY DEF TypeOK
<1>2. \A w \in V : (Aged(polled, gap)[w] >= row[w].interval) \in BOOLEAN
  <2> TAKE w \in V
  <2>1. Aged(polled, gap)[w] \in Ages /\ row[w].interval \in Nat
    BY <1>1, AgedIs, SettingsAssumption
  <2> QED
    BY <2>1, LongIs DEF Ages
<1>3. L = {rec(w) : w \in V}
  BY DEF Listed
<1>4. ASSUME NEW w \in V
      PROVE  /\ rec(w) \in Rows /\ rec(w).id = w /\ rec(w).settings = row[w]
             /\ rec(w).due => Aged(polled, gap)[w] >= rec(w).settings.interval
  <2> DEFINE b == Aged(polled, gap)[w] >= row[w].interval
  <2>1. b \in BOOLEAN /\ rec(w) = [id |-> w, settings |-> row[w], due |-> b]
    BY <1>2
  <2> HIDE DEF b
  <2>2. /\ rec(w) \in Rows /\ rec(w).id = w /\ rec(w).settings = row[w] /\ rec(w).due = b
    BY <1>1, <2>1 DEF Rows
  <2> HIDE DEF rec
  <2> QED
    BY <2>2 DEF b
<1>5. IsFiniteSet(L)
  <2> DEFINE f == [w \in V |-> rec(w)]
  <2>1. IsFiniteSet(V)
    BY FS_Subset, SettingsAssumption
  <2> HIDE DEF L, rec
  <2>2. f \in Surjection(V, L)
    BY <1>3 DEF Surjection
  <2> HIDE DEF f, V
  <2> QED
    BY <2>1, <2>2, FS_Surjection
<1> HIDE DEF L, rec
<1>6. n \in Nat
  BY <1>5, FS_CardinalityType
<1>7. t \in [1..n -> L] /\ \A i, j \in 1..n : i # j => t[i] # t[j]
  BY DEF SetToSeqs, L
<1> HIDE DEF n
<1>8. t \in Seq(L) /\ Len(t) = n
  BY <1>6, <1>7
<1>9. \A i \in 1..n : \E w \in V : t[i] = rec(w)
  BY <1>3, <1>7
<1>10. \A x \in L : x \in Rows
  BY <1>3, <1>4
<1>11. t \in Seq(Rows)
  BY <1>6, <1>7, <1>10
<1>12. ASSUME NEW i \in 1..n
       PROVE  /\ t[i].id \in V /\ t[i].settings = row[t[i].id] /\ t[i] = rec(t[i].id)
              /\ t[i].due => Aged(polled, gap)[t[i].id] >= t[i].settings.interval
  <2>1. PICK w \in V : t[i] = rec(w)
    BY <1>9
  <2> QED
    BY <1>4, <2>1
<1>13. \A i, j \in 1..n : t[i].id = t[j].id => i = j
  BY <1>7, <1>12
<1> QED
  BY <1>8, <1>11, <1>12, <1>13

\* The first of the list, and what is left of it.
LEMMA HeadIs ==
  ASSUME TypeOK, stage # "idle"
  PROVE  /\ Len(todo) \in Nat \ {0} /\ Head(todo) = todo[1] /\ todo[1] \in Rows /\ w0 \in Wiretap
         /\ w0 = todo[1].id /\ DOMAIN todo = 1..Len(todo) /\ \A i \in 1..Len(todo) : todo[i] \in Rows
<1>1. todo \in Seq(Rows) /\ todo # <<>>
  BY DEF TypeOK
<1>2. Len(todo) \in Nat \ {0} /\ DOMAIN todo = 1..Len(todo) /\ Head(todo) = todo[1]
  BY <1>1
<1>3. \A i \in 1..Len(todo) : todo[i] \in Rows
  BY <1>1
<1>4. todo[1] \in Rows
  BY <1>2, <1>3
<1> QED
  BY <1>2, <1>3, <1>4 DEF w0, Rows

\* What is left of the list, and the stage of the next wiretap.
LEMMA TailIs ==
  ASSUME TypeOK, stage # "idle", NextWiretap
  PROVE  /\ todo' \in Seq(Rows) /\ Len(todo') = Len(todo) - 1
         /\ \A i \in 1..Len(todo') : todo'[i] = todo[i + 1] /\ i + 1 \in 1..Len(todo)
         /\ DOMAIN todo' = 1..Len(todo')
         /\ stage' \in {"idle", "pass"} /\ (stage' = "idle" <=> todo' = <<>>)
<1>1. todo \in Seq(Rows) /\ todo # <<>> /\ todo' = Tail(todo) /\ Len(todo) \in Nat \ {0}
  BY HeadIs DEF TypeOK, NextWiretap
<1>2. /\ todo' \in Seq(Rows) /\ Len(todo') = Len(todo) - 1
      /\ \A i \in 1..Len(todo') : todo'[i] = todo[i + 1]
  BY <1>1, HeadTailProperties
<1>3. \A i \in 1..Len(todo') : i + 1 \in 1..Len(todo)
  BY <1>1, <1>2
<1>4. todo' = <<>> <=> Len(todo) = 1
  <2>1. todo' = <<>> <=> Len(todo') = 0
    BY <1>2, EmptySeq
  <2> QED
    BY <1>1, <1>2, <2>1
<1> QED
  BY <1>2, <1>3, <1>4 DEF NextWiretap

-----------------------------------------------------------------------------
(* Types. *)

\* The program starts with types in order.
LEMMA InitScheduler == Init => SchedulerInv
<1> SUFFICES ASSUME Init PROVE SchedulerInv
  OBVIOUS
<1>1. Never \in [Wiretap -> Ages] /\ \A w \in Wiretap : Never[w] = Long
  BY LongIs DEF Never, Ages
<1>2. TypeOK
  <2>1. {polled, reencodeFailed, passed, tried} \subseteq [Wiretap -> Ages]
    BY <1>1 DEF Init
  <2>2. row \in [Wiretap -> Settings \cup {None}] /\ saved \in [Wiretap -> Settings \cup {None}]
    BY DEF Init
  <2>3. held \in [Wiretap -> SUBSET (Settings \cup {None})]
    BY <2>2 DEF Init
  <2>4. todo \in Seq(Rows) /\ stage = "idle" /\ todo = <<>> /\ legacy \in [Wiretap -> BOOLEAN]
    BY EmptySeq DEF Init
  <2>5. changes \in 0..MaxChanges /\ faults \in 0..MaxFaults
    BY BoundAssumption DEF Init
  <2> QED
    BY <2>1, <2>2, <2>3, <2>4, <2>5 DEF TypeOK
<1>3. OnceEach /\ OfThisTick /\ DueStill
  BY DEF Init, OnceEach, OfThisTick, DueStill
<1>4. TimesKept
  <2> SUFFICES ASSUME NEW w \in Wiretap
               PROVE  reencodeFailed[w] = Long /\ ~(polled[w] > passed[w])
    BY DEF TimesKept
  <2> QED
    BY <1>1, LongIs DEF Init
<1> QED
  BY <1>2, <1>3, <1>4 DEF Init, SchedulerInv

\* A change counts as one, and so does a fault.
LEMMA CountsTyped ==
  ASSUME TypeOK
  PROVE  (Change => changes' \in 0..MaxChanges) /\ (Fault => faults' \in 0..MaxFaults)
BY BoundAssumption DEF TypeOK, Change, Fault

\* What the steps over one wiretap keep of the types.
LEMMA StepStepTyped == ASSUME TypeOK, Step PROVE TypeOK'
<1>1. /\ row \in [Wiretap -> Settings \cup {None}] /\ saved \in [Wiretap -> Settings \cup {None}]
      /\ polled \in [Wiretap -> Ages] /\ reencodeFailed \in [Wiretap -> Ages]
      /\ passed \in [Wiretap -> Ages] /\ tried \in [Wiretap -> Ages]
      /\ legacy \in [Wiretap -> BOOLEAN] /\ held \in [Wiretap -> SUBSET (Settings \cup {None})]
      /\ changes \in 0..MaxChanges /\ faults \in 0..MaxFaults
  BY DEF TypeOK
<1>2. 0 \in Ages /\ Long \in Ages
  BY LongIs DEF Ages
<1>3. row' = row /\ saved' = saved /\ held' = held /\ changes' = changes /\ faults' = faults
  BY DEF Step, NotDue, Pass, PassFails, MarkPolled, MarkFails, NoReencode, Reencode, ReencodeFails,
         catalog, history
<1>4. stage # "idle" /\ w0 \in Wiretap
  <2>1. stage # "idle"
    BY DEF Step, NotDue, Pass, PassFails, MarkPolled, MarkFails, NoReencode, Reencode, ReencodeFails
  <2> QED
    BY <2>1, HeadIs
<1>5. todo' \in Seq(Rows) /\ stage' \in {"idle", "pass", "mark", "reencode"} /\ (stage' = "idle" <=> todo' = <<>>)
  <2>1. CASE NextWiretap
    BY <1>4, <2>1, TailIs
  <2>2. CASE todo' = todo /\ stage' \in {"mark", "reencode"}
    BY <1>4, <2>2 DEF TypeOK
  <2> QED
    BY <2>1, <2>2 DEF Step, NotDue, Pass, PassFails, MarkPolled, MarkFails, NoReencode, Reencode, ReencodeFails, Go
<1>6. legacy' \in [Wiretap -> BOOLEAN]
  <2>1. CASE Pass
    <3>1. PICK kept \in BOOLEAN : legacy' = [legacy EXCEPT ![w0] = @ /\ kept]
      BY <2>1 DEF Pass
    <3> QED
      BY <1>1, <3>1
  <2>2. CASE ReencodeFails
    BY <1>1, <2>2 DEF ReencodeFails
  <2>3. CASE Reencode
    BY <1>1, <2>3 DEF Reencode
  <2> QED
    BY <1>1, <2>1, <2>2, <2>3 DEF Step, NotDue, PassFails, MarkPolled, MarkFails, NoReencode, catalog
<1>7. polled' \in [Wiretap -> Ages]
  <2>1. CASE MarkPolled
    <3>1. polled' = [polled EXCEPT ![w0] = polled[w0]] \/ polled' = [polled EXCEPT ![w0] = 0]
      BY <2>1 DEF MarkPolled
    <3> QED
      BY <1>1, <1>2, <3>1
  <2> QED
    BY <1>1, <2>1 DEF Step, NotDue, Pass, PassFails, MarkFails, NoReencode, Reencode, ReencodeFails, catalog
<1>8. passed' \in [Wiretap -> Ages]
  <2>1. passed' = passed \/ passed' = [passed EXCEPT ![w0] = 0] \/ passed' = [passed EXCEPT ![w0] = Long]
    BY DEF Step, NotDue, Pass, PassFails, MarkPolled, MarkFails, NoReencode, Reencode, ReencodeFails, history
  <2> QED
    BY <1>1, <1>2, <1>4, <2>1
<1>9. tried' \in [Wiretap -> Ages] /\ reencodeFailed' \in [Wiretap -> Ages]
  <2>1. tried' = tried \/ tried' = [tried EXCEPT ![w0] = 0] \/ tried' = [tried EXCEPT ![w0] = Long]
    BY DEF Step, NotDue, Pass, PassFails, MarkPolled, MarkFails, NoReencode, Reencode, ReencodeFails, history
  <2>2. reencodeFailed' = reencodeFailed \/ reencodeFailed' = [reencodeFailed EXCEPT ![w0] = 0]
    BY DEF Step, NotDue, Pass, PassFails, MarkPolled, MarkFails, NoReencode, Reencode, ReencodeFails
  <2> QED
    BY <1>1, <1>2, <1>4, <2>1, <2>2
<1> QED
  BY <1>1, <1>3, <1>5, <1>6, <1>7, <1>8, <1>9 DEF TypeOK

\* Every step keeps the types.
LEMMA StepTyped == TypeOK /\ [Next]_vars => TypeOK'
<1> SUFFICES ASSUME TypeOK, [Next]_vars PROVE TypeOK'
  OBVIOUS
<1>0. Never \in [Wiretap -> Ages] /\ 0 \in Ages /\ Long \in Ages
  BY LongIs DEF Never, Ages
<1>1. CASE Step
  BY <1>1, StepStepTyped
<1>2. ASSUME NEW gap \in 0..MaxGap, Tick(gap) PROVE TypeOK'
  <2>1. gap \in Nat
    BY TimeAssumption
  <2>2. {polled', reencodeFailed', passed', tried'} \subseteq [Wiretap -> Ages]
    BY <1>2, <2>1, AgedIs DEF Tick, TypeOK
  <2>3. held' \in [Wiretap -> SUBSET (Settings \cup {None})]
    BY <1>2 DEF Tick, TypeOK
  <2>4. todo' \in Seq(Rows) /\ stage' \in {"idle", "pass"} /\ (stage' = "idle" <=> todo' = <<>>)
    <3>1. CASE UNCHANGED tick
      BY <1>2, <3>1 DEF Tick, tick, TypeOK
    <3>2. CASE todo' \in SetToSeqs(Listed(gap)) /\ stage' = IF todo' = <<>> THEN "idle" ELSE "pass"
      BY <2>1, <3>2, ListedIs
    <3> QED
      BY <1>2, <3>1, <3>2 DEF Tick
  <2>5. faults' \in 0..MaxFaults
    BY <1>2, CountsTyped DEF Tick, TypeOK
  <2> QED
    BY <1>2, <2>2, <2>3, <2>4, <2>5 DEF Tick, TypeOK
<1>3. ASSUME NEW w \in Wiretap, UpdateWiretap(w) PROVE TypeOK'
  <2>1. PICK s \in Settings : SetRow(w, s)
    BY <1>3 DEF UpdateWiretap
  <2>2. /\ row' \in [Wiretap -> Settings \cup {None}] /\ saved' \in [Wiretap -> Settings \cup {None}]
        /\ held' \in [Wiretap -> SUBSET (Settings \cup {None})]
    BY <2>1 DEF SetRow, TypeOK
  <2>3. changes' \in 0..MaxChanges
    BY <1>3, CountsTyped DEF UpdateWiretap
  <2> QED
    BY <1>3, <2>2, <2>3 DEF UpdateWiretap, TypeOK, tick
<1>4. ASSUME NEW w \in Wiretap, DeleteWiretap(w) PROVE TypeOK'
  <2>2. /\ row' \in [Wiretap -> Settings \cup {None}] /\ saved' \in [Wiretap -> Settings \cup {None}]
        /\ held' \in [Wiretap -> SUBSET (Settings \cup {None})]
    BY <1>4 DEF DeleteWiretap, SetRow, TypeOK
  <2>3. changes' \in 0..MaxChanges
    BY <1>4, CountsTyped DEF DeleteWiretap
  <2>4. legacy' \in [Wiretap -> BOOLEAN] /\ passed' \in [Wiretap -> Ages]
    BY <1>0, <1>4 DEF DeleteWiretap, TypeOK
  <2> QED
    BY <1>4, <2>2, <2>3, <2>4 DEF DeleteWiretap, TypeOK, tick
<1>5. ASSUME NEW w \in Wiretap, CreateWiretap(w) PROVE TypeOK'
  <2>1. PICK s \in Settings : SetRow(w, s)
    BY <1>5 DEF CreateWiretap
  <2>2. /\ row' \in [Wiretap -> Settings \cup {None}] /\ saved' \in [Wiretap -> Settings \cup {None}]
        /\ held' \in [Wiretap -> SUBSET (Settings \cup {None})]
    BY <2>1 DEF SetRow, TypeOK
  <2>3. changes' \in 0..MaxChanges
    BY <1>5, CountsTyped DEF CreateWiretap
  <2>4. polled' \in [Wiretap -> Ages] /\ passed' \in [Wiretap -> Ages]
    BY <1>0, <1>5 DEF CreateWiretap, TypeOK
  <2> QED
    BY <1>5, <2>2, <2>3, <2>4 DEF CreateWiretap, TypeOK, tick
<1>6. ASSUME NEW w \in Wiretap, CompactNow(w) PROVE TypeOK'
  <2>1. legacy' \in [Wiretap -> BOOLEAN] /\ changes' \in 0..MaxChanges
    BY <1>6, CountsTyped DEF CompactNow, TypeOK
  <2> QED
    BY <1>6, <2>1 DEF CompactNow, TypeOK, tick, history
<1>7. CASE Restart
  <2>1. passed' \in [Wiretap -> Ages]
    <3>1. passed' = passed \/ passed' = [passed EXCEPT ![w0] = Long]
      BY <1>7 DEF Restart
    <3> QED
      BY <1>0, <3>1 DEF TypeOK
  <2>2. faults' \in 0..MaxFaults
    BY <1>7, CountsTyped DEF Restart
  <2>3. todo' = <<>> /\ todo' \in Seq(Rows) /\ stage' = "idle" /\ reencodeFailed' = Never /\ tried' = tried
    BY <1>7, EmptySeq DEF Restart
  <2> QED
    BY <1>0, <1>7, <2>1, <2>2, <2>3 DEF Restart, TypeOK, catalog
<1>8. CASE UNCHANGED vars
  BY <1>8 DEF vars, TypeOK, catalog, tick, history
<1> QED
  BY <1>1, <1>2, <1>3, <1>4, <1>5, <1>6, <1>7, <1>8 DEF Next, User

-----------------------------------------------------------------------------
(* The steps of a tick. *)

\* A step over one wiretap is at one stage, and goes on with it or with the next one.
LEMMA StepIs ==
  ASSUME TypeOK, Step
  PROVE  /\ stage # "idle" /\ row' = row /\ saved' = saved /\ held' = held
         /\ \/ stage = "pass" /\ stage' = "reencode" /\ todo' = todo
            \/ stage = "pass" /\ stage' = "mark" /\ todo' = todo
            \/ stage = "mark" /\ stage' = "reencode" /\ todo' = todo
            \/ stage = "reencode" /\ NextWiretap
         /\ \/ passed' = passed
            \/ stage = "pass" /\ stage' = "mark" /\ passed' = [passed EXCEPT ![w0] = 0]
            \/ stage = "mark" /\ passed' = [passed EXCEPT ![w0] = Long]
         /\ \/ polled' = polled /\ (stage = "mark" => passed' = [passed EXCEPT ![w0] = Long])
            \/ /\ stage = "mark" /\ passed' = passed
               /\ polled' = [polled EXCEPT ![w0] = IF row[w0] = None THEN @ ELSE 0]
         /\ \/ tried' = tried /\ reencodeFailed' = reencodeFailed
            \/ tried' = [tried EXCEPT ![w0] = Long] /\ reencodeFailed' = reencodeFailed
            \/ tried' = [tried EXCEPT ![w0] = 0] /\ reencodeFailed' = [reencodeFailed EXCEPT ![w0] = 0]
<1>1. CASE NotDue
  BY <1>1 DEF NotDue, Go, catalog, history
<1>2. CASE Pass
  BY <1>2 DEF Pass, Go
<1>3. CASE PassFails
  BY <1>3 DEF PassFails, Go, catalog
<1>4. CASE MarkPolled
  BY <1>4 DEF MarkPolled, Go, history
<1>5. CASE MarkFails
  BY <1>5 DEF MarkFails, Go, catalog
<1>6. CASE NoReencode
  BY <1>6 DEF NoReencode, catalog, history
<1>7. CASE Reencode
  BY <1>7 DEF Reencode
<1>8. CASE ReencodeFails
  BY <1>8 DEF ReencodeFails
<1> QED
  BY <1>1, <1>2, <1>3, <1>4, <1>5, <1>6, <1>7, <1>8 DEF Step

\* Every step keeps the list without repetitions, of settings of this tick.
LEMMA StepList ==
  TypeOK /\ OnceEach /\ OfThisTick /\ row = saved /\ [Next]_vars
    => OnceEach' /\ OfThisTick' /\ row' = saved'
<1> SUFFICES ASSUME TypeOK, OnceEach, OfThisTick, row = saved, [Next]_vars
             PROVE  OnceEach' /\ OfThisTick' /\ row' = saved'
  OBVIOUS
<1> USE DEF OnceEach, OfThisTick
<1>1. CASE Step
  <2>1. row' = row /\ saved' = saved /\ held' = held /\ stage # "idle"
    BY <1>1, StepIs
  <2>2. CASE todo' = todo
    BY <2>1, <2>2
  <2>3. CASE NextWiretap
    <3>1. /\ \A i \in 1..Len(todo') : todo'[i] = todo[i + 1] /\ i + 1 \in DOMAIN todo
          /\ DOMAIN todo' = 1..Len(todo') /\ Len(todo') \in Nat
      BY <2>1, <2>3, TailIs, HeadIs
    <3>2. OfThisTick'
      BY <2>1, <3>1
    <3>3. ASSUME NEW i \in DOMAIN todo', NEW j \in DOMAIN todo', todo'[i].id = todo'[j].id PROVE i = j
      <4>1. todo[i + 1].id = todo[j + 1].id /\ i + 1 \in DOMAIN todo /\ j + 1 \in DOMAIN todo
        BY <3>1, <3>3
      <4>2. i + 1 = j + 1 /\ i \in Int /\ j \in Int
        BY <3>1, <4>1
      <4> QED
        BY <4>2
    <3> QED
      BY <2>1, <3>2, <3>3
  <2> QED
    BY <1>1, <2>2, <2>3, StepIs
<1>2. ASSUME NEW gap \in 0..MaxGap, Tick(gap) PROVE OnceEach' /\ OfThisTick' /\ row' = saved'
  <2>1. gap \in Nat /\ row' = row /\ saved' = saved /\ held' = [w \in Wiretap |-> {row[w]}]
    BY <1>2, TimeAssumption DEF Tick
  <2>2. CASE UNCHANGED tick
    <3>1. todo' = <<>>
      BY <1>2, <2>2 DEF Tick, tick, TypeOK
    <3> QED
      BY <2>1, <3>1
  <2>3. CASE todo' \in SetToSeqs(Listed(gap))
    <3>1. /\ todo' \in Seq(Rows)
          /\ \A i \in 1..Len(todo') : todo'[i].id \in Wiretap /\ todo'[i].settings = row[todo'[i].id]
          /\ \A i, j \in 1..Len(todo') : todo'[i].id = todo'[j].id => i = j
      BY <2>1, <2>3, ListedIs
    <3>2. DOMAIN todo' = 1..Len(todo')
      BY <3>1, LenProperties
    <3> QED
      BY <2>1, <3>1, <3>2
  <2> QED
    BY <1>2, <2>2, <2>3 DEF Tick
<1>3. ASSUME NEW w \in Wiretap, NEW s, SetRow(w, s), todo' = todo
      PROVE  OnceEach' /\ OfThisTick' /\ row' = saved'
  <2>1. \A v \in Wiretap : held[v] \subseteq held'[v]
    BY <1>3 DEF SetRow, TypeOK
  <2>2. \A i \in DOMAIN todo : todo[i].id \in Wiretap
    <3>1. todo \in Seq(Rows) /\ DOMAIN todo = 1..Len(todo)
      BY LenProperties DEF TypeOK
    <3>2. \A i \in DOMAIN todo : todo[i] \in Rows
      BY <3>1, ElementOfSeq
    <3> QED
      BY <3>2 DEF Rows
  <2> QED
    BY <1>3, <2>1, <2>2 DEF SetRow
<1>4. ASSUME NEW w \in Wiretap, UpdateWiretap(w) \/ DeleteWiretap(w) \/ CreateWiretap(w)
      PROVE  OnceEach' /\ OfThisTick' /\ row' = saved'
  <2>1. todo' = todo
    BY <1>4 DEF UpdateWiretap, DeleteWiretap, CreateWiretap, tick
  <2> QED
    BY <1>3, <1>4, <2>1 DEF UpdateWiretap, DeleteWiretap, CreateWiretap
<1>5. ASSUME NEW w \in Wiretap, CompactNow(w) PROVE OnceEach' /\ OfThisTick' /\ row' = saved'
  BY <1>5 DEF CompactNow, tick, history
<1>6. CASE Restart
  <2>1. todo' = <<>> /\ row' = row /\ saved' = saved
    BY <1>6 DEF Restart, catalog
  <2> QED
    BY <2>1
<1>7. CASE UNCHANGED vars
  BY <1>7 DEF vars, catalog, tick, history
<1> QED
  BY <1>1, <1>2, <1>4, <1>5, <1>6, <1>7 DEF Next, User

-----------------------------------------------------------------------------
(* The times. *)

\* Every step keeps the times those of the passes and re-encodes it knows of.
LEMMA StepTimes == TypeOK /\ TimesKept /\ [Next]_vars => TimesKept'
<1> SUFFICES ASSUME TypeOK, TimesKept, [Next]_vars, NEW w \in Wiretap
             PROVE  /\ tried'[w] \in {reencodeFailed'[w], Long} \/ reencodeFailed'[w] = Long
                    /\ row'[w] # None /\ polled'[w] > passed'[w] => stage' = "mark" /\ w0' = w
  BY DEF TimesKept
<1>0. /\ polled \in [Wiretap -> Ages] /\ passed \in [Wiretap -> Ages] /\ row \in [Wiretap -> Settings \cup {None}]
      /\ tried \in [Wiretap -> Ages] /\ reencodeFailed \in [Wiretap -> Ages]
      /\ \A a \in Ages : a \in Nat /\ a <= Long
      /\ Long \in Nat
  BY LongIs DEF TypeOK, Ages
<1>00. /\ tried[w] \in {reencodeFailed[w], Long} \/ reencodeFailed[w] = Long
       /\ row[w] # None /\ polled[w] > passed[w] => stage = "mark" /\ w0 = w
  BY DEF TimesKept
<1>1. CASE Step
  <2>1. w0 \in Wiretap /\ row' = row /\ stage # "idle"
    BY <1>1, StepIs, HeadIs
  <2>2. tried'[w] \in {reencodeFailed'[w], Long} \/ reencodeFailed'[w] = Long
    BY <1>0, <1>00, <1>1, <2>1, StepIs
  <2>3. ASSUME row[w] # None, polled'[w] > passed'[w] PROVE stage' = "mark" /\ w0' = w
    <3>1. CASE w = w0
      <4>1. CASE stage = "pass" /\ stage' = "mark" /\ todo' = todo
        BY <3>1, <4>1 DEF w0
      <4>2. CASE stage = "mark"
        <5>1. passed'[w] = Long \/ (polled'[w] = 0 /\ passed'[w] = passed[w])
          <6>1. \/ passed' = [passed EXCEPT ![w0] = Long]
                \/ /\ passed' = passed
                   /\ polled' = [polled EXCEPT ![w0] = IF row[w0] = None THEN @ ELSE 0]
            BY <1>1, <4>2, StepIs
          <6> QED
            BY <1>0, <2>1, <2>3, <3>1, <6>1
        <5>2. polled'[w] \in Nat /\ passed'[w] \in Nat /\ polled'[w] <= Long
          BY <1>0, <1>1, StepStepTyped DEF TypeOK
        <5> QED
          BY <1>0, <2>3, <5>1, <5>2
      <4>3. CASE stage # "mark" /\ passed' = passed
        <5>1. polled' = polled
          BY <1>1, <4>3, StepIs
        <5> QED
          BY <1>00, <2>3, <4>3, <5>1
      <4> QED
        BY <1>1, <4>1, <4>2, <4>3, StepIs
    <3>2. CASE w # w0
      <4>1. passed'[w] = passed[w]
        BY <1>0, <1>1, <3>2, StepIs
      <4>2. polled'[w] = polled[w]
        BY <1>0, <1>1, <3>2, StepIs
      <4> QED
        BY <1>00, <2>3, <3>2, <4>1, <4>2
    <3> QED
      BY <3>1, <3>2
  <2> QED
    BY <2>1, <2>2, <2>3
<1>2. ASSUME NEW gap \in 0..MaxGap, Tick(gap) PROVE TimesKept'
  <2>1. gap \in Nat /\ row' = row /\ stage = "idle"
    BY <1>2, TimeAssumption DEF Tick
  <2>2. ASSUME NEW v \in Wiretap
        PROVE  /\ tried'[v] \in {reencodeFailed'[v], Long} \/ reencodeFailed'[v] = Long
               /\ row'[v] # None => ~(polled'[v] > passed'[v])
    <3>1. /\ tried'[v] = (IF tried[v] + gap <= Long THEN tried[v] + gap ELSE Long)
          /\ reencodeFailed'[v] = (IF reencodeFailed[v] + gap <= Long THEN reencodeFailed[v] + gap ELSE Long)
          /\ polled'[v] = (IF polled[v] + gap <= Long THEN polled[v] + gap ELSE Long)
          /\ passed'[v] = (IF passed[v] + gap <= Long THEN passed[v] + gap ELSE Long)
      BY <1>0, <1>2, <2>1, AgedIs DEF Tick
    <3>2. /\ tried[v] \in {reencodeFailed[v], Long} \/ reencodeFailed[v] = Long
          /\ row[v] # None => ~(polled[v] > passed[v])
      BY <2>1 DEF TimesKept
    <3>3. tried[v] \in Nat /\ reencodeFailed[v] \in Nat /\ polled[v] \in Nat /\ passed[v] \in Nat
      BY <1>0
    <3> QED
      BY <1>0, <2>1, <3>1, <3>2, <3>3
  <2> QED
    BY <2>2 DEF TimesKept
<1>3. ASSUME NEW v \in Wiretap, UpdateWiretap(v) PROVE TimesKept'
  <2>1. row[v] # None /\ row' = [row EXCEPT ![v] = row'[v]]
    BY <1>0, <1>3 DEF UpdateWiretap, SetRow
  <2> QED
    BY <1>0, <1>3, <2>1 DEF UpdateWiretap, TimesKept, tick, w0
<1>4. ASSUME NEW v \in Wiretap, DeleteWiretap(v) PROVE TimesKept'
  BY <1>0, <1>4 DEF DeleteWiretap, SetRow, TimesKept, tick, w0
<1>5. ASSUME NEW v \in Wiretap, CreateWiretap(v) PROVE TimesKept'
  <2>1. \A u \in Wiretap : u # v => row'[u] = row[u]
    BY <1>0, <1>5 DEF CreateWiretap, SetRow
  <2>2. polled' = [polled EXCEPT ![v] = Long] /\ passed' = [passed EXCEPT ![v] = Long]
    BY <1>5 DEF CreateWiretap
  <2> QED
    BY <1>0, <1>5, <2>1, <2>2 DEF CreateWiretap, TimesKept, tick, w0
<1>6. ASSUME NEW v \in Wiretap, CompactNow(v) PROVE TimesKept'
  BY <1>6 DEF CompactNow, TimesKept, tick, history, w0
<1>7. CASE Restart
  <2>1. row' = row /\ polled' = polled /\ reencodeFailed'[w] = Long
    BY <1>7 DEF Restart, Never, catalog
  <2>2. row[w] # None => ~(polled[w] > passed'[w])
    <3>1. CASE stage = "mark"
      BY <1>0, <1>00, <1>7, <3>1 DEF Restart
    <3>2. CASE stage # "mark"
      BY <1>00, <1>7, <3>2 DEF Restart
    <3> QED
      BY <3>1, <3>2
  <2> QED
    BY <2>1, <2>2
<1>8. CASE UNCHANGED vars
  BY <1>00, <1>8 DEF vars, catalog, tick, history, w0
<1> QED
  BY <1>1, <1>2, <1>3, <1>4, <1>5, <1>6, <1>7, <1>8 DEF Next, User, TimesKept

\* Passes that begin no earlier keep what is due due.
LEMMA DueLonger ==
  ASSUME TypeOK, DueStill, todo' = todo, stage' = stage,
         \A v \in Wiretap : passed'[v] = passed[v] \/ passed'[v] = Long
  PROVE  DueStill'
<1> SUFFICES ASSUME NEW i \in DOMAIN todo, todo[i].due, i > 1 \/ stage = "pass"
             PROVE  passed'[todo[i].id] >= todo[i].settings.interval
  BY DEF DueStill
<1>1. todo[i] \in Rows
  BY LenProperties, ElementOfSeq DEF TypeOK
<1>2. todo[i].id \in Wiretap /\ todo[i].settings \in Settings
  BY <1>1 DEF Rows
<1>3. passed[todo[i].id] >= todo[i].settings.interval
  BY DEF DueStill
<1>4. Long \in Nat /\ Long >= todo[i].settings.interval /\ todo[i].settings.interval \in Nat
  BY <1>2, LongIs, SettingsAssumption
<1> QED
  BY <1>2, <1>3, <1>4

\* Every step keeps due what was due when it was listed, until its turn.
LEMMA StepDue ==
  TypeOK /\ OnceEach /\ TimesKept /\ DueStill /\ [Next]_vars => DueStill'
<1> SUFFICES ASSUME TypeOK, OnceEach, TimesKept, DueStill, [Next]_vars PROVE DueStill'
  OBVIOUS
<1>0. passed \in [Wiretap -> Ages] /\ polled \in [Wiretap -> Ages] /\ Long \in Nat
      /\ \A a \in Ages : a \in Nat /\ a <= Long
  BY LongIs DEF TypeOK, Ages
<1>1. CASE Step
  <2> SUFFICES ASSUME NEW i \in DOMAIN todo', todo'[i].due, i > 1 \/ stage' = "pass"
               PROVE  passed'[todo'[i].id] >= todo'[i].settings.interval
    BY DEF DueStill
  <2>1. /\ stage # "idle" /\ w0 \in Wiretap /\ w0 = todo[1].id /\ 1 \in DOMAIN todo
        /\ DOMAIN todo = 1..Len(todo) /\ Len(todo) \in Nat /\ \A k \in DOMAIN todo : todo[k] \in Rows
    BY <1>1, StepIs, HeadIs
  <2>2. PICK k \in DOMAIN todo : k > 1 /\ todo'[i] = todo[k]
    <3>1. CASE NextWiretap
      <4>1. todo'[i] = todo[i + 1] /\ i + 1 \in DOMAIN todo /\ i \in Nat \ {0}
        BY <2>1, <3>1, TailIs
      <4> QED
        BY <4>1
    <3>2. CASE todo' = todo /\ stage' # "pass"
      BY <3>2
    <3> QED
      BY <1>1, <3>1, <3>2, StepIs
  <2>3. passed[todo[k].id] >= todo[k].settings.interval
    BY <2>2 DEF DueStill
  <2>4. todo[k].id \in Wiretap /\ todo[k].id # w0
    BY <2>1, <2>2 DEF OnceEach, Rows
  <2>5. passed'[todo[k].id] = passed[todo[k].id]
    BY <1>0, <1>1, <2>1, <2>4, StepIs
  <2> QED
    BY <2>2, <2>3, <2>5
<1>2. ASSUME NEW gap \in 0..MaxGap, Tick(gap) PROVE DueStill'
  <2>1. gap \in Nat /\ stage = "idle" /\ todo = <<>>
    BY <1>2, TimeAssumption DEF Tick, TypeOK
  <2>2. CASE UNCHANGED tick
    <3>1. todo' = <<>>
      BY <2>1, <2>2 DEF tick
    <3> QED
      BY <3>1 DEF DueStill
  <2>3. CASE todo' \in SetToSeqs(Listed(gap))
    <3> SUFFICES ASSUME NEW i \in DOMAIN todo', todo'[i].due
                 PROVE  passed'[todo'[i].id] >= todo'[i].settings.interval
      BY DEF DueStill
    <3> DEFINE v == todo'[i].id  n == todo'[i].settings.interval
    <3>1. todo' \in Seq(Rows) /\ DOMAIN todo' = 1..Len(todo')
      BY <2>1, <2>3, ListedIs, LenProperties
    <3>2. v \in Wiretap /\ row[v] # None /\ Aged(polled, gap)[v] >= n /\ todo'[i].settings = row[v]
      BY <2>1, <2>3, <3>1, ListedIs
    <3>3. row[v] \in Settings
      BY <3>2 DEF TypeOK
    <3>4. n \in Nat
      BY <3>2, <3>3, SettingsAssumption
    <3>5. /\ Aged(polled, gap)[v] = (IF polled[v] + gap <= Long THEN polled[v] + gap ELSE Long)
          /\ passed'[v] = (IF passed[v] + gap <= Long THEN passed[v] + gap ELSE Long)
      BY <1>0, <1>2, <2>1, <3>2, AgedIs DEF Tick
    <3>6. ~(polled[v] > passed[v])
      BY <2>1, <3>2 DEF TimesKept
    <3>7. polled[v] \in Nat /\ passed[v] \in Nat
      BY <1>0, <3>2
    <3> HIDE DEF v, n
    <3>8. passed'[v] >= n
      BY <1>0, <2>1, <3>2, <3>4, <3>5, <3>6, <3>7
    <3> QED
      BY <3>8 DEF v, n
  <2> QED
    BY <1>2, <2>2, <2>3 DEF Tick
<1>3. ASSUME NEW w \in Wiretap,
             UpdateWiretap(w) \/ DeleteWiretap(w) \/ CreateWiretap(w) \/ CompactNow(w)
      PROVE  DueStill'
  <2>1. todo' = todo /\ stage' = stage
    BY <1>3 DEF UpdateWiretap, DeleteWiretap, CreateWiretap, CompactNow, tick
  <2>2. passed' = passed \/ passed' = [passed EXCEPT ![w] = Long]
    BY <1>3 DEF UpdateWiretap, DeleteWiretap, CreateWiretap, CompactNow, history
  <2>3. \A v \in Wiretap : passed'[v] = passed[v] \/ passed'[v] = Long
    BY <1>0, <2>2
  <2> QED
    BY <2>1, <2>3, DueLonger
<1>4. CASE Restart
  <2>1. todo' = <<>>
    BY <1>4 DEF Restart
  <2> QED
    BY <2>1 DEF DueStill
<1>5. CASE UNCHANGED vars
  BY <1>5, DueLonger DEF vars, tick, history
<1> QED
  BY <1>1, <1>2, <1>3, <1>4, <1>5 DEF Next, User

-----------------------------------------------------------------------------
(* The scheduler. *)

\* SchedulerInv: a tick goes through each wiretap once, by settings of this tick, and
\* undoes nothing the user saves; its times are those of the passes it has made.
THEOREM TicksCorrect == Spec => []SchedulerInv
<1>1. Init => SchedulerInv
  BY InitScheduler
<1>2. SchedulerInv /\ [Next]_vars => SchedulerInv'
  BY StepTyped, StepList, StepTimes, StepDue DEF SchedulerInv
<1> QED
  BY <1>1, <1>2, PTL DEF Spec

\* Spaced: whatever the settings, the lengths of ticks and the user's changes, two passes
\* over a wiretap begin its interval apart if the first was marked in the catalog
\* (pollTick).
THEOREM PassesSpaced == Spec => Spaced
<1>1. SchedulerInv /\ [Next]_vars =>
        [Pass \/ PassFails => passed[w0] >= Head(todo).settings.interval]_vars
  <2> SUFFICES ASSUME SchedulerInv, Pass \/ PassFails
               PROVE  passed[w0] >= Head(todo).settings.interval
    OBVIOUS
  <2>1. TypeOK /\ DueStill
    BY DEF SchedulerInv
  <2>2. stage = "pass" /\ Head(todo).due
    BY DEF Pass, PassFails, Due
  <2>3. Head(todo) = todo[1] /\ w0 = todo[1].id /\ 1 \in DOMAIN todo
    BY <2>1, <2>2, HeadIs
  <2> QED
    BY <2>1, <2>2, <2>3 DEF DueStill
<1> QED
  BY <1>1, TicksCorrect, PTL DEF Spec, Spaced

=============================================================================
