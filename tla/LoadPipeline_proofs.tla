------------------------- MODULE LoadPipeline_proofs ------------------------
(***************************************************************************)
(* Proofs about LoadPipeline, for every number of loads, files of any      *)
(* size, and limits.                                                       *)
(***************************************************************************)
EXTENDS LoadPipeline, SequenceTheorems, FiniteSetTheorems, TLAPS

\* The files of a load are files, and no other load has them.
LEMMA BatchFacts ==
  /\ \A l \in Loads : FilesOf(l) \subseteq Files
  /\ \A l, k \in Loads, f \in Files : f \in FilesOf(l) /\ f \in FilesOf(k) => l = k
<1>1. ASSUME NEW l \in Loads, NEW f \in FilesOf(l) PROVE f \in Files
  <2>1. PICK i \in 1..Len(Batch[l]) : f = Batch[l][i]
    BY DEF FilesOf
  <2>2. Batch[l] \in Seq(Files)
    BY BatchAssumption
  <2> QED
    BY <2>1, <2>2, ElementOfSeq
<1>2. ASSUME NEW l \in Loads, NEW k \in Loads, NEW f \in Files, f \in FilesOf(l), f \in FilesOf(k)
      PROVE  l = k
  BY <1>2, BatchAssumption
<1> QED
  BY <1>1, <1>2

\* What Head and Tail leave of a channel or queue that is not empty.
LEMMA HeadTail ==
  ASSUME NEW s \in Seq(Files), s # <<>>
  PROVE  /\ Head(s) \in Files /\ Head(s) = s[1] /\ 1 \in 1..Len(s)
         /\ Tail(s) \in Seq(Files) /\ Len(Tail(s)) = Len(s) - 1 /\ Len(s) \in Nat
         /\ \A i \in 1..Len(Tail(s)) : Tail(s)[i] = s[i + 1] /\ i + 1 \in 1..Len(s)
<1>1. Len(s) \in Nat \ {0}
  BY EmptySeq
<1>2. Tail(s) \in Seq(Files) /\ Len(Tail(s)) = Len(s) - 1 /\ Head(s) \in Files
  BY HeadTailProperties
<1>3. ASSUME NEW i \in 1..Len(Tail(s)) PROVE Tail(s)[i] = s[i + 1] /\ i + 1 \in 1..Len(s)
  BY <1>1, <1>2, HeadTailProperties
<1> QED
  BY <1>1, <1>2, <1>3

\* Nothing has been fetched in the initial state.
LEMMA InitPipeline == Init => PipelineInv
<1> SUFFICES ASSUME Init PROVE PipelineInv
  OBVIOUS
<1> USE NoneAssumption, LimitAssumption, FaultAssumption DEF Init
<1>1. TypeOK
  <2>1. <<>> \in Seq(Files)
    BY EmptySeq
  <2> QED
    BY <2>1 DEF TypeOK, FetchLabels, MainLabels, ReaderLabels
<1>2. LocksHeld
  BY DEF LocksHeld
<1>3. InOrder
  BY DEF InOrder, ResultsHeld, QueueHeld, Busy
<1>4. ChunksHeld
  <2>1. \A f \in Files : ~InHand(f)
    BY DEF InHand
  <2>2. /\ \A f \in Files : reader[f] = "none" /\ scanned[f] = 0 /\ appended[f] = 0 /\ chunks[f] = 0
        /\ cancelled = {}
    OBVIOUS
  <2>3. \A f \in Files : Size[f] \in Nat
    BY SizeAssumption
  <2> HIDE DEF Init
  <2> QED
    BY <2>1, <2>2, <2>3 DEF ChunksHeld, ChunksOf
<1>5. FlightBounded
  <2>1. \A l \in Loads : queue[l] = <<>> /\ main[l] = "receive"
    OBVIOUS
  <2>2. \A f \in Files : reader[f] = "none" /\ chunks[f] = 0
    OBVIOUS
  <2>3. MaxInFlight \in Nat \ {0} /\ \A l \in Loads : FilesOf(l) \subseteq Files
    BY BatchFacts
  <2> HIDE DEF Init
  <2> QED
    BY <2>1, <2>2, <2>3 DEF FlightBounded, InFlight
<1>6. UnbegunEmpty
  BY DEF UnbegunEmpty
<1> QED
  BY <1>1, <1>2, <1>3, <1>4, <1>5, <1>6 DEF PipelineInv

\* The file a load is committing is the first of its queue.
LEMMA HeadOfQueue ==
  ASSUME TypeOK, InOrder, NEW l \in Loads, main[l] \in {"begin", "take", "append", "close"}
  PROVE  /\ queue[l] # <<>> /\ Head(queue[l]) = queue[l][1] /\ 1 \in 1..Len(queue[l])
         /\ Head(queue[l]) \in Files /\ Head(queue[l]) \in FilesOf(l)
         /\ reader[Head(queue[l])] # "none"
         /\ outcome[Head(queue[l])] = None <=> main[l] # "close"
<1>1. queue[l] # <<>> /\ queue[l] \in Seq(Files)
  BY DEF TypeOK, InOrder, QueueHeld, Busy
<1>2. Head(queue[l]) = queue[l][1] /\ 1 \in 1..Len(queue[l]) /\ Head(queue[l]) \in Files
  BY <1>1, HeadTail
<1> QED
  BY <1>1, <1>2, BatchFacts DEF InOrder, QueueHeld

\* Every step keeps the variables in their sets.
LEMMA StepTyped == TypeOK /\ InOrder /\ [Next]_vars => TypeOK'
<1> SUFFICES ASSUME TypeOK, InOrder, [Next]_vars PROVE TypeOK'
  OBVIOUS
<1> USE NoneAssumption, LimitAssumption, FaultAssumption
    DEF TypeOK, FetchLabels, MainLabels, ReaderLabels, Outcomes, pool, stream, commit, Fault
<1>1. ASSUME NEW l \in Loads, Spawn(l) PROVE TypeOK'
  BY <1>1 DEF Spawn
<1>2. ASSUME NEW l \in Loads, Receive(l) PROVE TypeOK'
  <2>1. Head(results[l]) \in Files /\ Tail(results[l]) \in Seq(Files)
    BY <1>2, HeadTail DEF Receive
  <2>2. results' \in [Loads -> Seq(Files)]
    BY <1>2, <2>1 DEF Receive
  <2>3. CASE Head(results[l]) \in refused
    BY <1>2, <2>1, <2>2, <2>3 DEF Receive
  <2>4. CASE Head(results[l]) \notin refused
    <3>1. /\ reader' = [reader EXCEPT ![Head(results[l])] = "scan"]
          /\ queue' = [queue EXCEPT ![l] = Append(queue[l], Head(results[l]))]
          /\ main' = [main EXCEPT ![l] = AfterPrepare(l, queue'[l])]
          /\ UNCHANGED outcome
      BY <1>2, <2>4 DEF Receive
    <3>2. queue' \in [Loads -> Seq(Files)]
      BY <2>1, <3>1, AppendProperties
    <3>3. reader' \in [Files -> ReaderLabels] /\ main' \in [Loads -> MainLabels]
      BY <2>1, <3>1 DEF AfterPrepare
    <3> QED
      BY <1>2, <2>2, <3>1, <3>2, <3>3 DEF Receive
  <2> QED
    BY <2>3, <2>4
<1>3. ASSUME NEW l \in Loads, Drain(l) PROVE TypeOK'
  BY <1>3 DEF Drain
<1>4. ASSUME NEW l \in Loads, Begin(l) PROVE TypeOK'
  BY <1>4 DEF Begin
<1>5. ASSUME NEW l \in Loads, Take(l) PROVE TypeOK'
  <2>1. PICK g \in Files : g = Head(queue[l])
    BY <1>5, HeadOfQueue DEF Take
  <2>2. chunks[g] \in 0..Depth /\ chunks[g] > 0 /\ chunks' = [chunks EXCEPT ![g] = chunks[g] - 1]
    BY <1>5, <2>1 DEF Take
  <2>3. chunks' \in [Files -> 0..Depth]
    BY <2>2
  <2> QED
    BY <1>5, <2>3 DEF Take
<1>6. ASSUME NEW l \in Loads, AppendChunk(l) PROVE TypeOK'
  <2>1. PICK g \in Files : g = Head(queue[l])
    BY <1>6, HeadOfQueue DEF AppendChunk
  <2>2. appended' = [appended EXCEPT ![g] = appended[g] + 1] /\ appended[g] \in Nat
    BY <1>6, <2>1 DEF AppendChunk
  <2>3. appended' \in [Files -> Nat]
    BY <2>2
  <2> QED
    BY <1>6, <2>3 DEF AppendChunk
<1>7. ASSUME NEW l \in Loads, EndOfStream(l) PROVE TypeOK'
  <2>1. Head(queue[l]) \in Files
    BY <1>7, HeadOfQueue DEF EndOfStream
  <2>2. PICK r \in Outcomes : Return(l, r) /\ faults' \in 0..MaxFaults
    BY <1>7 DEF EndOfStream, Outcomes
  <2>3. outcome' \in [Files -> Outcomes \cup {None}] /\ cancelled' \subseteq Files
    BY <2>1, <2>2 DEF Return
  <2> QED
    BY <2>2, <2>3, <1>7 DEF Return, EndOfStream
<1>8. ASSUME NEW l \in Loads, CommitFails(l) PROVE TypeOK'
  <2>1. Head(queue[l]) \in Files
    BY <1>8, HeadOfQueue DEF CommitFails
  <2>2. PICK r \in Outcomes : Return(l, r) /\ faults' \in 0..MaxFaults
    BY <1>8 DEF CommitFails, Outcomes
  <2>3. outcome' \in [Files -> Outcomes \cup {None}] /\ cancelled' \subseteq Files
    BY <2>1, <2>2 DEF Return
  <2> QED
    BY <2>2, <2>3, <1>8 DEF Return, CommitFails
<1>9. ASSUME NEW l \in Loads, CloseBody(l) PROVE TypeOK'
  <2>1. Head(queue[l]) \in Files /\ queue[l] # <<>>
    BY <1>9, HeadOfQueue DEF CloseBody
  <2>2. Tail(queue[l]) \in Seq(Files)
    BY <2>1, HeadTail
  <2>3. queue' \in [Loads -> Seq(Files)]
    BY <1>9, <2>2 DEF CloseBody
  <2> QED
    BY <1>9, <2>1, <2>3 DEF CloseBody
<1>10. ASSUME NEW f \in Files, Open(f) PROVE TypeOK'
  <2>1. faults' \in 0..MaxFaults /\ fetch' \in [Files -> FetchLabels]
    BY <1>10 DEF Open
  <2>2. refused' \subseteq Files
    BY <1>10 DEF Open
  <2>3. UNCHANGED <<results, main, queue, writer, stream, chunks, commit>>
    BY <1>10 DEF Open
  <2> QED
    BY <2>1, <2>2, <2>3
<1>11. ASSUME NEW f \in Files, Scan(f) PROVE TypeOK'
  <2>1. scanned' \in [Files -> Nat] /\ reader' \in [Files -> ReaderLabels]
    <3>1. scanned[f] + 1 \in Nat /\ scanned' = [scanned EXCEPT ![f] = scanned[f] + 1]
      BY <1>11 DEF Scan
    <3> QED
      BY <1>11, <3>1 DEF Scan
  <2> QED
    BY <1>11, <2>1 DEF Scan
<1>12. ASSUME NEW f \in Files, ReachEnd(f) PROVE TypeOK'
  BY <1>12 DEF ReachEnd
<1>13. ASSUME NEW f \in Files, ReadFails(f) PROVE TypeOK'
  <2>1. faults' \in 0..MaxFaults
    BY <1>13 DEF ReadFails
  <2> QED
    BY <1>13, <2>1 DEF ReadFails
<1>14. ASSUME NEW f \in Files, TakeSlot(f) PROVE TypeOK'
  BY <1>14 DEF TakeSlot
<1>15. ASSUME NEW f \in Files, Parse(f) PROVE TypeOK'
  BY <1>15 DEF Parse
<1>16. ASSUME NEW f \in Files, Send(f) PROVE TypeOK'
  <2>1. chunks' \in [Files -> 0..Depth]
    BY <1>16 DEF Send
  <2> QED
    BY <1>16, <2>1 DEF Send
<1>17. ASSUME NEW f \in Files, GiveUp(f) PROVE TypeOK'
  BY <1>17 DEF GiveUp
<1>18. ASSUME NEW l \in Loads, NEW f \in FilesOf(l), f \in Files, Hand(l, f) PROVE TypeOK'
  <2>1. Append(results[l], f) \in Seq(Files)
    BY <1>18, AppendProperties
  <2> QED
    BY <1>18, <2>1 DEF Hand
<1>19. CASE UNCHANGED vars
  BY <1>19 DEF vars
<1> QED
  BY <1>1, <1>2, <1>3, <1>4, <1>5, <1>6, <1>7, <1>8, <1>9, <1>10, <1>11, <1>12, <1>13,
     <1>14, <1>15, <1>16, <1>17, <1>18, <1>19
     DEF Next, Advance, Commit, Fetch, Read

\* CommitFile's return gives the write lock back and leaves the slot alone.
LEMMA ReturnLocks ==
  ASSUME TypeOK, LocksHeld, NEW l \in Loads, NEW r \in Outcomes,
         main[l] \in {"begin", "take", "append"}, Return(l, r)
  PROVE  LocksHeld'
BY NoneAssumption DEF TypeOK, LocksHeld, Return, stream

\* The write lock and the parse slot change hands with the label.
LEMMA StepLocks == TypeOK /\ InOrder /\ LocksHeld /\ [Next]_vars => LocksHeld'
<1> SUFFICES ASSUME TypeOK, InOrder, LocksHeld, [Next]_vars PROVE LocksHeld'
  OBVIOUS
<1> USE NoneAssumption, BatchFacts
    DEF TypeOK, LocksHeld, FetchLabels, MainLabels, ReaderLabels, pool, stream, commit, Fault
<1>1. ASSUME NEW l \in Loads, Spawn(l) PROVE LocksHeld'
  BY <1>1 DEF Spawn
<1>2. ASSUME NEW l \in Loads, Receive(l) PROVE LocksHeld'
  <2>1. CASE Head(results[l]) \in refused
    BY <1>2, <2>1 DEF Receive
  <2>2. CASE Head(results[l]) \notin refused
    <3>1. /\ reader' = [reader EXCEPT ![Head(results[l])] = "scan"]
          /\ main[l] = "receive" /\ results[l] # <<>>
          /\ main' = [main EXCEPT ![l] = main'[l]] /\ main'[l] \in {"receive", "begin"}
          /\ UNCHANGED <<writer, slot>>
      <4>1. /\ reader' = [reader EXCEPT ![Head(results[l])] = "scan"]
            /\ main[l] = "receive" /\ results[l] # <<>>
            /\ UNCHANGED <<writer, slot>>
        BY <1>2, <2>2 DEF Receive
      <4>2. main' = [main EXCEPT ![l] = AfterPrepare(l, queue'[l])]
        BY <1>2, <2>2 DEF Receive
      <4>3. AfterPrepare(l, queue'[l]) \in {"receive", "begin"}
        BY DEF AfterPrepare
      <4> HIDE DEF AfterPrepare
      <4> QED
        BY <4>1, <4>2, <4>3
    <3>2. reader[Head(results[l])] = "none" /\ Head(results[l]) \in Files
      BY <3>1, HeadTail DEF InOrder, ResultsHeld
    <3> QED
      BY <3>1, <3>2
  <2> QED
    BY <2>1, <2>2
<1>3. ASSUME NEW l \in Loads, Drain(l) PROVE LocksHeld'
  BY <1>3 DEF Drain
<1>4. ASSUME NEW l \in Loads, Begin(l) PROVE LocksHeld'
  BY <1>4 DEF Begin
<1>5. ASSUME NEW l \in Loads, Take(l) PROVE LocksHeld'
  BY <1>5 DEF Take
<1>6. ASSUME NEW l \in Loads, AppendChunk(l) PROVE LocksHeld'
  BY <1>6 DEF AppendChunk
<1>7. ASSUME NEW l \in Loads, EndOfStream(l) PROVE LocksHeld'
  <2>1. main[l] = "take" /\ \E r \in Outcomes : Return(l, r)
    BY <1>7 DEF EndOfStream, Outcomes
  <2> QED
    BY <2>1, ReturnLocks
<1>8. ASSUME NEW l \in Loads, CommitFails(l) PROVE LocksHeld'
  <2>1. main[l] \in {"begin", "take", "append"} /\ Return(l, "failed")
    BY <1>8 DEF CommitFails
  <2> QED
    BY <2>1, ReturnLocks DEF Outcomes
<1>9. ASSUME NEW l \in Loads, CloseBody(l) PROVE LocksHeld'
  BY <1>9 DEF CloseBody
<1>10. ASSUME NEW f \in Files, Open(f) PROVE LocksHeld'
  BY <1>10 DEF Open
<1>11. ASSUME NEW f \in Files, Scan(f) PROVE LocksHeld'
  BY <1>11 DEF Scan
<1>12. ASSUME NEW f \in Files, ReachEnd(f) PROVE LocksHeld'
  BY <1>12 DEF ReachEnd
<1>13. ASSUME NEW f \in Files, ReadFails(f) PROVE LocksHeld'
  BY <1>13 DEF ReadFails
<1>14. ASSUME NEW f \in Files, TakeSlot(f) PROVE LocksHeld'
  BY <1>14 DEF TakeSlot
<1>15. ASSUME NEW f \in Files, Parse(f) PROVE LocksHeld'
  BY <1>15 DEF Parse
<1>16. ASSUME NEW f \in Files, Send(f) PROVE LocksHeld'
  BY <1>16 DEF Send
<1>17. ASSUME NEW f \in Files, GiveUp(f) PROVE LocksHeld'
  BY <1>17 DEF GiveUp
<1>18. ASSUME NEW l \in Loads, NEW f \in FilesOf(l), f \in Files, Hand(l, f) PROVE LocksHeld'
  BY <1>18 DEF Hand
<1>19. CASE UNCHANGED vars
  BY <1>19 DEF vars
<1> QED
  BY <1>1, <1>2, <1>3, <1>4, <1>5, <1>6, <1>7, <1>8, <1>9, <1>10, <1>11, <1>12, <1>13,
     <1>14, <1>15, <1>16, <1>17, <1>18, <1>19
     DEF Next, Advance, Commit, Fetch, Read

\* A step that moves no file between the pool, the channel and the queue.
LEMMA OrderFrame ==
  ASSUME InOrder, UNCHANGED <<results, queue, outcome>>,
         \A f \in Files : /\ fetch[f] = "handed" <=> fetch'[f] = "handed"
                          /\ reader'[f] = "none" <=> reader[f] = "none",
         \A l \in Loads : /\ main'[l] \in Busy => queue[l] # <<>>
                          /\ main'[l] = "close" <=> main[l] = "close"
  PROVE  InOrder'
<1>1. ASSUME NEW l \in Loads PROVE ResultsHeld(l)'
  <2>1. ResultsHeld(l) /\ results'[l] = results[l]
    BY DEF InOrder
  <2>2. \A i \in 1..Len(results[l]) : results[l][i] \in Files
    BY <2>1, BatchFacts DEF ResultsHeld
  <2> QED
    BY <2>1, <2>2 DEF ResultsHeld
<1>2. ASSUME NEW l \in Loads PROVE QueueHeld(l)'
  <2>1. QueueHeld(l) /\ queue'[l] = queue[l]
    BY DEF InOrder
  <2>2. \A i \in 1..Len(queue[l]) : queue[l][i] \in Files
    BY <2>1, BatchFacts DEF QueueHeld
  <2> QED
    BY <2>1, <2>2 DEF QueueHeld
<1>3. \A f \in Files : fetch'[f] # "handed" => reader'[f] = "none" /\ outcome'[f] = None
  BY DEF InOrder
<1> QED
  BY <1>1, <1>2, <1>3 DEF InOrder
\* CommitFile's return reports the head of the queue, and no other file.
LEMMA ReturnOrder ==
  ASSUME TypeOK, InOrder, NEW l \in Loads, NEW r \in Outcomes,
         main[l] \in {"begin", "take", "append"}, Return(l, r)
  PROVE  InOrder'
<1> USE BatchFacts
<1>1. PICK f \in Files : /\ f = Head(queue[l]) /\ f = queue[l][1] /\ 1 \in 1..Len(queue[l])
                         /\ f \in FilesOf(l) /\ reader[f] # "none" /\ outcome[f] = None
  BY HeadOfQueue
<1>2. /\ outcome' = [outcome EXCEPT ![f] = r] /\ main' = [main EXCEPT ![l] = "close"]
      /\ UNCHANGED <<fetch, results, queue, reader>>
  BY <1>1 DEF Return, pool, stream
<1>3. r # None
  BY NoneAssumption DEF Outcomes
<1>4. \A g \in Files : outcome'[g] = IF g = f THEN r ELSE outcome[g]
  BY <1>2 DEF TypeOK
<1>5. ASSUME NEW k \in Loads PROVE ResultsHeld(k)'
  <2>1. ResultsHeld(k)
    BY DEF InOrder
  <2>2. \A i \in 1..Len(results[k]) : results[k][i] # f /\ results[k][i] \in Files
    BY <1>1, <2>1 DEF ResultsHeld
  <2> QED
    BY <1>2, <1>4, <2>1, <2>2 DEF ResultsHeld
<1>6. ASSUME NEW k \in Loads PROVE QueueHeld(k)'
  <2>1. QueueHeld(k) /\ QueueHeld(l)
    BY DEF InOrder
  <2>2. \A i \in 1..Len(queue[k]) : queue[k][i] = f => k = l /\ i = 1
    BY <1>1, <2>1 DEF QueueHeld
  <2>3. \A i \in 1..Len(queue[k]) : queue[k][i] \in Files
    BY <2>1 DEF QueueHeld
  <2>4. main'[k] = (IF k = l THEN "close" ELSE main[k]) /\ main[l] # "close"
    BY <1>2 DEF TypeOK
  <2>5. main'[k] \in Busy => queue'[k] # <<>>
    BY <1>2, <2>1, <2>4 DEF QueueHeld, Busy
  <2>6. ASSUME NEW i \in 1..Len(queue[k])
        PROVE outcome'[queue[k][i]] = None <=> ~(i = 1 /\ main'[k] = "close")
    <3>1. outcome[queue[k][i]] = None <=> ~(i = 1 /\ main[k] = "close")
      BY <2>1 DEF QueueHeld
    <3>2. CASE queue[k][i] = f
      BY <1>3, <1>4, <2>2, <2>3, <2>4, <3>2
    <3>3. CASE queue[k][i] # f
      <4>1. ~(k = l /\ i = 1)
        BY <1>1, <3>3
      <4> QED
        BY <1>4, <2>3, <2>4, <3>1, <3>3, <4>1
    <3> QED
      BY <3>2, <3>3
  <2> QED
    BY <1>2, <2>1, <2>5, <2>6 DEF QueueHeld
<1>7. \A g \in Files : fetch'[g] # "handed" => reader'[g] = "none" /\ outcome'[g] = None
  BY <1>1, <1>2, <1>4 DEF InOrder
<1> QED
  BY <1>5, <1>6, <1>7 DEF InOrder

\* A file enters the results channel once.
LEMMA HandOrder ==
  ASSUME TypeOK, InOrder, NEW l \in Loads, NEW f \in FilesOf(l), Hand(l, f)
  PROVE  InOrder'
<1> USE BatchFacts
<1>1. f \in Files /\ fetch[f] # "handed" /\ reader[f] = "none" /\ outcome[f] = None
  BY DEF Hand, InOrder
<1>2. /\ results' = [results EXCEPT ![l] = Append(results[l], f)]
      /\ fetch' = [fetch EXCEPT ![f] = "handed"]
      /\ UNCHANGED <<main, queue, reader, outcome>>
  BY DEF Hand, stream, commit
<1>3. \A g \in Files : fetch'[g] = IF g = f THEN "handed" ELSE fetch[g]
  BY <1>2 DEF TypeOK
<1>4. ASSUME NEW k \in Loads PROVE ResultsHeld(k)'
  <2>1. ResultsHeld(k) /\ results[k] \in Seq(Files)
    BY DEF InOrder, TypeOK
  <2>2. \A i \in 1..Len(results[k]) : results[k][i] # f /\ results[k][i] \in Files
    BY <1>1, <2>1 DEF ResultsHeld
  <2>3. CASE k = l
    <3> DEFINE n == Len(results[l])
    <3>1. /\ n \in Nat /\ Len(results'[l]) = n + 1 /\ results'[l][n + 1] = f
          /\ \A i \in 1..n : results'[l][i] = results[l][i]
      BY <1>1, <1>2, <2>1, <2>3, AppendProperties, LenProperties DEF TypeOK
    <3>2. ASSUME NEW i \in 1..n
          PROVE  /\ results[l][i] \in FilesOf(l) /\ results[l][i] # f
                 /\ fetch'[results[l][i]] = "handed"
                 /\ reader'[results[l][i]] = "none" /\ outcome'[results[l][i]] = None
                 /\ \A j \in 1..n : results[l][i] = results[l][j] => i = j
      BY <1>2, <1>3, <2>1, <2>2, <2>3 DEF ResultsHeld
    <3>3. fetch'[f] = "handed" /\ reader'[f] = "none" /\ outcome'[f] = None
      BY <1>1, <1>2, <1>3
    <3> HIDE DEF n
    <3>4. \A i \in 1..(n + 1) : i \in 1..n \/ i = n + 1
      BY <3>1
    <3>5. ASSUME NEW i \in 1..(n + 1)
          PROVE  /\ results'[l][i] \in FilesOf(l) /\ fetch'[results'[l][i]] = "handed"
                 /\ reader'[results'[l][i]] = "none" /\ outcome'[results'[l][i]] = None
                 /\ \A j \in 1..(n + 1) : results'[l][i] = results'[l][j] => i = j
      <4>1. CASE i \in 1..n
        <5>1. results'[l][i] = results[l][i]
          BY <3>1, <4>1
        <5>2. ASSUME NEW j \in 1..(n + 1), results'[l][i] = results'[l][j] PROVE i = j
          <6>1. CASE j \in 1..n
            BY <3>1, <3>2, <4>1, <5>1, <5>2, <6>1
          <6>2. CASE j = n + 1
            BY <3>1, <3>2, <4>1, <5>1, <5>2, <6>2
          <6> QED
            BY <3>4, <6>1, <6>2
        <5> QED
          BY <3>2, <4>1, <5>1, <5>2
      <4>2. CASE i = n + 1
        BY <3>1, <3>2, <3>3, <3>4, <4>2
      <4> QED
        BY <3>4, <4>1, <4>2
    <3> QED
      BY <2>3, <3>1, <3>5 DEF ResultsHeld
  <2>4. CASE k # l
    <3>1. results'[k] = results[k] /\ reader' = reader /\ outcome' = outcome
      BY <1>2, <2>4 DEF TypeOK
    <3> QED
      BY <1>3, <2>1, <2>2, <3>1 DEF ResultsHeld
  <2> QED
    BY <2>3, <2>4
<1>5. ASSUME NEW k \in Loads PROVE QueueHeld(k)'
  BY <1>2 DEF InOrder, QueueHeld
<1>6. \A g \in Files : fetch'[g] # "handed" => reader'[g] = "none" /\ outcome'[g] = None
  BY <1>1, <1>2, <1>3 DEF InOrder
<1> QED
  BY <1>4, <1>5, <1>6 DEF InOrder

\* The file whose body was closed leaves the queue.
LEMMA CloseOrder ==
  ASSUME TypeOK, InOrder, NEW l \in Loads, CloseBody(l)
  PROVE  InOrder'
<1> USE BatchFacts
<1>1. /\ main[l] = "close" /\ queue' = [queue EXCEPT ![l] = Tail(queue[l])]
      /\ main' = [main EXCEPT ![l] = "receive"] /\ UNCHANGED <<fetch, results, reader, outcome>>
  BY DEF CloseBody, pool, stream
<1>2. ASSUME NEW k \in Loads PROVE QueueHeld(k)'
  <2>1. QueueHeld(k) /\ queue[k] \in Seq(Files)
    BY DEF InOrder, TypeOK
  <2>2. CASE k = l
    <3> DEFINE t == Tail(queue[l])
    <3>1. queue[l] # <<>> /\ queue'[l] = t /\ main'[l] = "receive"
      BY <1>1, <2>1, <2>2 DEF QueueHeld, Busy, TypeOK
    <3>2. /\ Len(queue[l]) \in Nat /\ Len(t) = Len(queue[l]) - 1
          /\ \A i \in 1..Len(t) : t[i] = queue[l][i + 1] /\ i + 1 \in 1..Len(queue[l])
      BY <2>1, <2>2, <3>1, HeadTail
    <3> HIDE DEF t
    <3>3. ASSUME NEW i \in 1..Len(t)
          PROVE  /\ t[i] \in FilesOf(l) /\ reader[t[i]] # "none" /\ outcome[t[i]] = None
                 /\ \A j \in 1..Len(t) : t[i] = t[j] => i = j
      <4>1. i + 1 \in 1..Len(queue[l]) /\ i + 1 # 1 /\ t[i] = queue[l][i + 1] /\ i \in Int
        BY <3>2
      <4>2. t[i] \in FilesOf(l) /\ reader[t[i]] # "none" /\ outcome[t[i]] = None
        BY <2>1, <2>2, <4>1 DEF QueueHeld
      <4>3. ASSUME NEW j \in 1..Len(t), t[i] = t[j] PROVE i = j
        <5>1. j + 1 \in 1..Len(queue[l]) /\ t[j] = queue[l][j + 1] /\ j \in Int
          BY <3>2
        <5>2. i + 1 = j + 1
          BY <2>1, <2>2, <4>1, <4>3, <5>1 DEF QueueHeld
        <5> QED
          BY <4>1, <5>1, <5>2
      <4> QED
        BY <4>2, <4>3
    <3>4. reader' = reader /\ outcome' = outcome
      BY <1>1
    <3>5. main'[l] \notin Busy /\ main'[l] # "close"
      BY <3>1 DEF Busy
    <3> QED
      BY <2>2, <3>1, <3>3, <3>4, <3>5 DEF QueueHeld
  <2>3. CASE k # l
    <3>1. queue'[k] = queue[k] /\ main'[k] = main[k]
      BY <1>1, <2>3 DEF TypeOK
    <3>2. reader' = reader /\ outcome' = outcome
      BY <1>1
    <3> QED
      BY <2>1, <3>1, <3>2 DEF QueueHeld
  <2> QED
    BY <2>2, <2>3
<1>3. ASSUME NEW k \in Loads PROVE ResultsHeld(k)'
  BY <1>1 DEF InOrder, ResultsHeld
<1>4. \A g \in Files : fetch'[g] # "handed" => reader'[g] = "none" /\ outcome'[g] = None
  BY <1>1 DEF InOrder
<1> QED
  BY <1>2, <1>3, <1>4 DEF InOrder

\* What Receive does with the first file of the channel, which nobody else has.
LEMMA Received ==
  ASSUME TypeOK, InOrder, NEW l \in Loads, Receive(l)
  PROVE  \E f \in FilesOf(l) :
           /\ f = Head(results[l]) /\ f = results[l][1] /\ results[l] # <<>> /\ main[l] = "receive"
           /\ fetch[f] = "handed" /\ reader[f] = "none" /\ outcome[f] = None
           /\ results' = [results EXCEPT ![l] = Tail(results[l])] /\ fetch' = fetch
           /\ \/ /\ f \in refused /\ outcome' = [outcome EXCEPT ![f] = "failed"]
                 /\ UNCHANGED <<main, queue, reader>>
              \/ /\ f \notin refused /\ reader' = [reader EXCEPT ![f] = "scan"]
                 /\ queue' = [queue EXCEPT ![l] = Append(queue[l], f)]
                 /\ main' = [main EXCEPT ![l] = AfterPrepare(l, queue'[l])]
                 /\ UNCHANGED outcome
<1>1. results[l] # <<>> /\ main[l] = "receive" /\ results[l] \in Seq(Files) /\ ResultsHeld(l)
  BY DEF Receive, TypeOK, InOrder
<1>2. Head(results[l]) = results[l][1] /\ 1 \in 1..Len(results[l])
  BY <1>1, HeadTail
<1>3. PICK f \in FilesOf(l) : f = Head(results[l]) /\ f = results[l][1]
  BY <1>1, <1>2 DEF ResultsHeld
<1>4. fetch[f] = "handed" /\ reader[f] = "none" /\ outcome[f] = None
  BY <1>1, <1>2, <1>3 DEF ResultsHeld
<1> QED
  BY <1>1, <1>3, <1>4 DEF Receive, pool

\* A received file leaves the channel, and enters the queue unless it is reported.
LEMMA ReceiveOrder ==
  ASSUME TypeOK, InOrder, NEW l \in Loads, Receive(l)
  PROVE  InOrder'
<1> USE BatchFacts
<1>1. PICK f \in FilesOf(l) :
        /\ f = Head(results[l]) /\ f = results[l][1] /\ results[l] # <<>> /\ main[l] = "receive"
        /\ fetch[f] = "handed" /\ reader[f] = "none" /\ outcome[f] = None
        /\ results' = [results EXCEPT ![l] = Tail(results[l])] /\ fetch' = fetch
        /\ \/ /\ f \in refused /\ outcome' = [outcome EXCEPT ![f] = "failed"]
              /\ UNCHANGED <<main, queue, reader>>
           \/ /\ f \notin refused /\ reader' = [reader EXCEPT ![f] = "scan"]
              /\ queue' = [queue EXCEPT ![l] = Append(queue[l], f)]
              /\ main' = [main EXCEPT ![l] = AfterPrepare(l, queue'[l])]
              /\ UNCHANGED outcome
  BY Received
<1>2. \A g \in Files : g # f => reader'[g] = reader[g] /\ outcome'[g] = outcome[g]
  BY <1>1 DEF TypeOK
<1>3. ASSUME NEW k \in Loads PROVE ResultsHeld(k)'
  <2>1. ResultsHeld(k) /\ results[k] \in Seq(Files)
    BY DEF InOrder, TypeOK
  <2>2. CASE k = l
    <3> DEFINE t == Tail(results[l])
    <3>1. /\ Len(results[l]) \in Nat /\ Len(t) = Len(results[l]) - 1 /\ 1 \in 1..Len(results[l])
          /\ \A i \in 1..Len(t) : t[i] = results[l][i + 1] /\ i + 1 \in 1..Len(results[l])
      BY <1>1, <2>1, <2>2, HeadTail
    <3>2. results'[l] = t /\ fetch' = fetch
      BY <1>1 DEF TypeOK
    <3> HIDE DEF t
    <3>3. ASSUME NEW i \in 1..Len(t)
          PROVE  /\ t[i] \in FilesOf(l) /\ t[i] # f /\ fetch[t[i]] = "handed"
                 /\ reader[t[i]] = "none" /\ outcome[t[i]] = None
                 /\ \A j \in 1..Len(t) : t[i] = t[j] => i = j
      <4>1. i + 1 \in 1..Len(results[l]) /\ i + 1 # 1 /\ t[i] = results[l][i + 1] /\ i \in Int
        BY <3>1
      <4>2. /\ t[i] \in FilesOf(l) /\ t[i] # f /\ fetch[t[i]] = "handed"
            /\ reader[t[i]] = "none" /\ outcome[t[i]] = None
        BY <1>1, <2>1, <2>2, <3>1, <4>1 DEF ResultsHeld
      <4>3. ASSUME NEW j \in 1..Len(t), t[i] = t[j] PROVE i = j
        <5>1. j + 1 \in 1..Len(results[l]) /\ t[j] = results[l][j + 1] /\ j \in Int
          BY <3>1
        <5>2. results[l][i + 1] = results[l][j + 1]
          BY <4>1, <4>3, <5>1
        <5>3. \A a, b \in 1..Len(results[l]) : results[l][a] = results[l][b] => a = b
          BY <2>1, <2>2 DEF ResultsHeld
        <5>4. i + 1 = j + 1
          BY <4>1, <5>1, <5>2, <5>3
        <5> QED
          BY <4>1, <5>1, <5>4
      <4> QED
        BY <4>2, <4>3
    <3>4. \A i \in 1..Len(t) : reader'[t[i]] = "none" /\ outcome'[t[i]] = None
      BY <1>2, <3>3
    <3> QED
      BY <2>2, <3>2, <3>3, <3>4 DEF ResultsHeld
  <2>3. CASE k # l
    <3>1. results'[k] = results[k] /\ fetch' = fetch
      BY <1>1, <2>3 DEF TypeOK
    <3>2. \A i \in 1..Len(results[k]) : results[k][i] # f /\ results[k][i] \in Files
      BY <2>1, <2>3 DEF ResultsHeld
    <3> QED
      BY <1>2, <2>1, <3>1, <3>2 DEF ResultsHeld
  <2> QED
    BY <2>2, <2>3
<1>4. ASSUME NEW k \in Loads PROVE QueueHeld(k)'
  <2>1. QueueHeld(k) /\ queue[k] \in Seq(Files)
    BY DEF InOrder, TypeOK
  <2>2. \A i \in 1..Len(queue[k]) : queue[k][i] # f /\ queue[k][i] \in Files
    BY <1>1, <2>1 DEF QueueHeld
  <2>3. CASE queue'[k] = queue[k] /\ main'[k] = main[k]
    BY <1>2, <2>1, <2>2, <2>3 DEF QueueHeld
  <2>4. CASE /\ k = l /\ reader' = [reader EXCEPT ![f] = "scan"] /\ outcome' = outcome
             /\ queue' = [queue EXCEPT ![l] = Append(queue[l], f)]
             /\ main' = [main EXCEPT ![l] = AfterPrepare(l, queue'[l])]
    <3> DEFINE n == Len(queue[l])
    <3>1. /\ n \in Nat /\ Len(queue'[l]) = n + 1 /\ queue'[l][n + 1] = f
          /\ \A i \in 1..n : queue'[l][i] = queue[l][i]
      BY <2>1, <2>4, AppendProperties, LenProperties DEF TypeOK
    <3>2. main'[l] # "close" /\ main[l] # "close" /\ queue'[l] # <<>>
      <4>1. main'[l] = AfterPrepare(l, queue'[l]) /\ main[l] # "close"
        BY <1>1, <2>4 DEF TypeOK
      <4>2. queue'[l] = Append(queue[l], f)
        BY <2>4 DEF TypeOK
      <4> QED
        BY <2>1, <2>4, <4>1, <4>2, AppendProperties DEF AfterPrepare
    <3>3. ASSUME NEW i \in 1..n
          PROVE  /\ queue[l][i] \in FilesOf(l) /\ queue[l][i] # f
                 /\ reader'[queue[l][i]] # "none" /\ outcome'[queue[l][i]] = None
                 /\ \A j \in 1..n : queue[l][i] = queue[l][j] => i = j
      BY <1>2, <2>1, <2>2, <2>4, <3>2 DEF QueueHeld
    <3>4. reader'[f] # "none" /\ outcome'[f] = None
      BY <1>1, <2>4 DEF TypeOK
    <3> HIDE DEF n
    <3>5. \A i \in 1..(n + 1) : i \in 1..n \/ i = n + 1
      BY <3>1
    <3>6. ASSUME NEW i \in 1..(n + 1)
          PROVE  /\ queue'[l][i] \in FilesOf(l) /\ reader'[queue'[l][i]] # "none"
                 /\ outcome'[queue'[l][i]] = None
                 /\ \A j \in 1..(n + 1) : queue'[l][i] = queue'[l][j] => i = j
      <4>1. CASE i \in 1..n
        <5>1. queue'[l][i] = queue[l][i]
          BY <3>1, <4>1
        <5>2. ASSUME NEW j \in 1..(n + 1), queue'[l][i] = queue'[l][j] PROVE i = j
          <6>1. CASE j \in 1..n
            BY <3>1, <3>3, <4>1, <5>1, <5>2, <6>1
          <6>2. CASE j = n + 1
            BY <3>1, <3>3, <4>1, <5>1, <5>2, <6>2
          <6> QED
            BY <3>5, <6>1, <6>2
        <5> QED
          BY <3>3, <4>1, <5>1, <5>2
      <4>2. CASE i = n + 1
        BY <3>1, <3>3, <3>4, <3>5, <4>2
      <4> QED
        BY <3>5, <4>1, <4>2
    <3> QED
      BY <2>4, <3>1, <3>2, <3>6 DEF QueueHeld
  <2> QED
    BY <1>1, <2>3, <2>4 DEF TypeOK
<1>5. \A g \in Files : fetch'[g] # "handed" => reader'[g] = "none" /\ outcome'[g] = None
  BY <1>1, <1>2 DEF InOrder
<1> QED
  BY <1>3, <1>4, <1>5 DEF InOrder

\* A file moves from the pool to the channel, from there to the queue or its
\* outcome, and from the queue to its outcome.
LEMMA StepOrder == TypeOK /\ InOrder /\ [Next]_vars => InOrder'
<1> SUFFICES ASSUME TypeOK, InOrder, [Next]_vars PROVE InOrder'
  OBVIOUS
<1>1. ASSUME NEW l \in Loads, Spawn(l) \/ Drain(l) \/ Begin(l) \/ Take(l) \/ AppendChunk(l)
      PROVE  InOrder'
  <2> USE DEF Spawn, Drain, Begin, Take, AppendChunk, pool, stream, commit
  <2>1. UNCHANGED <<results, queue, outcome, reader>>
    BY <1>1
  <2>2. \A f \in Files : fetch'[f] = "handed" <=> fetch[f] = "handed"
    BY <1>1 DEF TypeOK
  <2>3. ASSUME NEW k \in Loads
        PROVE  /\ main'[k] \in Busy => queue[k] # <<>>
               /\ main'[k] = "close" <=> main[k] = "close"
    <3>1. main[k] \in Busy => queue[k] # <<>>
      BY DEF InOrder, QueueHeld
    <3>2. CASE k = l
      <4>1. CASE main'[l] = main[l]
        BY <3>1, <3>2, <4>1
      <4>2. CASE main'[l] # main[l]
        BY <1>1, <3>1, <3>2, <4>2 DEF TypeOK, Busy
      <4> QED
        BY <4>1, <4>2
    <3>3. CASE k # l
      <4>1. main'[k] = main[k]
        BY <1>1, <3>3 DEF TypeOK
      <4> QED
        BY <3>1, <4>1
    <3> QED
      BY <3>2, <3>3
  <2> QED
    BY <2>1, <2>2, <2>3, OrderFrame
<1>2. ASSUME NEW f \in Files, Open(f) \/ Read(f) PROVE InOrder'
  <2> USE DEF Open, Read, Scan, ReachEnd, ReadFails, TakeSlot, Parse, Send, GiveUp, pool, commit, stream
  <2>1. UNCHANGED <<results, queue, outcome, main>>
    BY <1>2
  <2>2. \A g \in Files : fetch'[g] = "handed" <=> fetch[g] = "handed"
    BY <1>2 DEF TypeOK
  <2>3. \A g \in Files : reader'[g] = "none" <=> reader[g] = "none"
    BY <1>2 DEF TypeOK
  <2>4. \A k \in Loads : main'[k] \in Busy => queue[k] # <<>>
    BY <2>1 DEF InOrder, QueueHeld
  <2> QED
    BY <2>1, <2>2, <2>3, <2>4, OrderFrame
<1>3. ASSUME NEW l \in Loads, EndOfStream(l) \/ CommitFails(l) PROVE InOrder'
  <2>1. main[l] \in {"begin", "take", "append"} /\ \E r \in Outcomes : Return(l, r)
    BY <1>3 DEF EndOfStream, CommitFails, Outcomes
  <2> QED
    BY <2>1, ReturnOrder
<1>4. CASE UNCHANGED vars
  BY <1>4, OrderFrame DEF vars, pool, stream, commit, InOrder, QueueHeld
<1> QED
  BY <1>1, <1>2, <1>3, <1>4, HandOrder, ReceiveOrder, CloseOrder DEF Next, Advance, Commit, Fetch

\* A chunk that was taken from a file's channel is with the load that has the file.
LEMMA InHandOfHead ==
  ASSUME TypeOK, InOrder, NEW l \in Loads, main[l] \in {"begin", "take", "append", "close"}
  PROVE  InHand(Head(queue[l])) <=> main[l] = "append"
<1>1. ASSUME NEW k \in Loads, main[k] = "append", Head(queue[k]) = Head(queue[l]) PROVE k = l
  <2>1. Head(queue[k]) \in FilesOf(k)
    BY <1>1, HeadOfQueue
  <2>2. Head(queue[l]) \in FilesOf(l) /\ Head(queue[l]) \in Files
    BY HeadOfQueue
  <2> QED
    BY <1>1, <2>1, <2>2, BatchFacts
<1> QED
  BY <1>1 DEF InHand

\* A step that moves no chunk of a file, or ends its commit.
LEMMA ChunksFrame ==
  ASSUME NEW f \in Files, ChunksOf(f), InHand(f)' <=> InHand(f),
         scanned'[f] = scanned[f], appended'[f] = appended[f], chunks'[f] = chunks[f],
         readErr' = readErr, outcome'[f] = None => outcome[f] = None,
         f \in cancelled' => f \in cancelled \/ outcome'[f] # None,
         reader'[f] = reader[f] \/ (reader[f] = "none" /\ reader'[f] = "scan")
  PROVE  ChunksOf(f)'
BY DEF ChunksOf

\* CommitFile's return moves no chunk.
LEMMA ReturnChunks ==
  ASSUME TypeOK, InOrder, ChunksHeld, NEW l \in Loads, NEW r \in Outcomes,
         main[l] \in {"begin", "take", "append"}, Return(l, r)
  PROVE  ChunksHeld'
<1>1. PICK f \in Files : f = Head(queue[l]) /\ outcome[f] = None
  BY HeadOfQueue
<1>2. /\ outcome' = [outcome EXCEPT ![f] = r] /\ main' = [main EXCEPT ![l] = "close"]
      /\ UNCHANGED <<queue, reader, scanned, readErr, chunks, appended>>
      /\ cancelled' \subseteq cancelled \cup {f}
  BY <1>1 DEF Return, pool, stream
<1>3. r # None
  BY NoneAssumption DEF Outcomes
<1>4. ASSUME NEW g \in Files PROVE ChunksOf(g)'
  <2>1. ChunksOf(g)
    BY DEF ChunksHeld
  <2>2. CASE g = f
    <3>1. outcome'[g] # None
      BY <1>2, <1>3, <2>2 DEF TypeOK
    <3> QED
      BY <1>2, <2>1, <3>1 DEF ChunksOf
  <2>3. CASE g # f
    <3>1. outcome'[g] = outcome[g]
      BY <1>2, <2>3 DEF TypeOK
    <3>2. InHand(g)' <=> InHand(g)
      BY <1>1, <1>2, <2>3 DEF InHand, TypeOK
    <3> QED
      BY <1>2, <2>1, <2>3, <3>1, <3>2, ChunksFrame
  <2> QED
    BY <2>2, <2>3
<1> QED
  BY <1>4 DEF ChunksHeld

\* A chunk goes from its reader to the channel, to the commit, to the database.
LEMMA StepChunks == TypeOK /\ InOrder /\ ChunksHeld /\ [Next]_vars => ChunksHeld'
<1> SUFFICES ASSUME TypeOK, InOrder, ChunksHeld, [Next]_vars PROVE ChunksHeld'
  OBVIOUS
<1>1. ASSUME NEW l \in Loads, Spawn(l) \/ Drain(l) \/ Begin(l) \/ CloseBody(l) \/ Receive(l)
      PROVE  ChunksHeld'
  <2>1. ASSUME NEW k \in Loads
        PROVE  /\ main'[k] = "append" <=> main[k] = "append"
               /\ main[k] = "append" => queue'[k] = queue[k]
    <3>1. CASE Receive(l)
      BY <3>1 DEF Receive, AfterPrepare, TypeOK
    <3>2. CASE Drain(l) \/ CloseBody(l)
      BY <3>2 DEF Drain, CloseBody, TypeOK
    <3>3. CASE Spawn(l) \/ Begin(l)
      BY <3>3 DEF Spawn, Begin, TypeOK
    <3> QED
      BY <1>1, <3>1, <3>2, <3>3
  <2>2. UNCHANGED <<scanned, appended, chunks, readErr, cancelled>>
    BY <1>1 DEF Spawn, Drain, Begin, CloseBody, Receive, stream, commit
  <2>3. ASSUME NEW g \in Files PROVE InHand(g)' <=> InHand(g)
    BY <2>1 DEF InHand
  <2>4. ASSUME NEW g \in Files
        PROVE  /\ outcome'[g] = None => outcome[g] = None
               /\ reader'[g] = reader[g] \/ (reader[g] = "none" /\ reader'[g] = "scan")
    <3>1. CASE Receive(l)
      <4>1. PICK f \in FilesOf(l) :
              /\ reader[f] = "none" /\ outcome[f] = None
              /\ \/ outcome' = [outcome EXCEPT ![f] = "failed"] /\ UNCHANGED reader
                 \/ reader' = [reader EXCEPT ![f] = "scan"] /\ UNCHANGED outcome
        BY <3>1, Received
      <4> QED
        BY <4>1, NoneAssumption DEF TypeOK
    <3>2. CASE ~Receive(l)
      BY <1>1, <3>2 DEF Spawn, Drain, Begin, CloseBody, stream, commit
    <3> QED
      BY <3>1, <3>2
  <2> QED
    BY <2>2, <2>3, <2>4, ChunksFrame DEF ChunksHeld
<1>2. ASSUME NEW f \in Files, Open(f) \/ TakeSlot(f) \/ Parse(f) PROVE ChunksHeld'
  <2>1. UNCHANGED <<main, queue, scanned, appended, chunks, readErr, cancelled, outcome>>
    BY <1>2 DEF Open, TakeSlot, Parse, stream, commit
  <2>2. ASSUME NEW g \in Files PROVE ChunksOf(g)'
    <3>1. ChunksOf(g) /\ (InHand(g)' <=> InHand(g))
      BY <2>1 DEF ChunksHeld, InHand
    <3>2. /\ reader'[g] \in {"await", "parse", "send"} <=> reader[g] \in {"await", "parse", "send"}
          /\ reader'[g] = "ended" <=> reader[g] = "ended"
      BY <1>2 DEF Open, TakeSlot, Parse, stream, TypeOK
    <3> QED
      BY <2>1, <3>1, <3>2 DEF ChunksOf
  <2> QED
    BY <2>2 DEF ChunksHeld
<1>3. ASSUME NEW l \in Loads, NEW f \in Files, Hand(l, f) PROVE ChunksHeld'
  BY <1>3 DEF Hand, stream, commit, ChunksHeld, ChunksOf, InHand
<1>4. ASSUME NEW f \in Files, Scan(f) \/ ReachEnd(f) \/ ReadFails(f) \/ Send(f) \/ GiveUp(f)
      PROVE  ChunksHeld'
  <2>1. UNCHANGED <<main, queue, appended, cancelled, outcome>>
    BY <1>4 DEF Scan, ReachEnd, ReadFails, Send, GiveUp, commit
  <2>2. ASSUME NEW g \in Files PROVE ChunksOf(g)'
    <3>1. ChunksOf(g) /\ (InHand(g)' <=> InHand(g))
      BY <2>1 DEF ChunksHeld, InHand
    <3>2. scanned[g] \in Nat /\ appended[g] \in Nat /\ chunks[g] \in Nat /\ Size[g] \in Nat
      BY SizeAssumption, LimitAssumption DEF TypeOK
    <3>3. CASE g # f
      <4>1. reader'[g] = reader[g] /\ scanned'[g] = scanned[g] /\ chunks'[g] = chunks[g]
            /\ (g \in readErr' <=> g \in readErr)
        BY <1>4, <3>3 DEF Scan, ReachEnd, ReadFails, Send, GiveUp, TypeOK
      <4> QED
        BY <2>1, <3>1, <4>1 DEF ChunksOf
    <3>4. CASE g = f
      <4>1. CASE Scan(f)
        <5>1. /\ reader[g] = "scan" /\ reader'[g] = "await" /\ scanned'[g] = scanned[g] + 1
              /\ scanned[g] < Size[g]
              /\ chunks' = chunks /\ readErr' = readErr
          BY <3>4, <4>1 DEF Scan, TypeOK
        <5> QED
          BY <2>1, <3>1, <3>2, <5>1 DEF ChunksOf
      <4>2. CASE ReachEnd(f)
        <5>1. /\ reader[g] = "scan" /\ reader'[g] = "ended" /\ scanned[g] = Size[g]
              /\ scanned' = scanned /\ chunks' = chunks /\ readErr' = readErr
          BY <3>4, <4>2 DEF ReachEnd, TypeOK
        <5> QED
          BY <2>1, <3>1, <3>2, <5>1 DEF ChunksOf
      <4>3. CASE ReadFails(f)
        <5>1. /\ reader[g] = "scan" /\ reader'[g] = "ended" /\ g \in readErr'
              /\ scanned' = scanned /\ chunks' = chunks
          BY <3>4, <4>3 DEF ReadFails, TypeOK
        <5> QED
          BY <2>1, <3>1, <3>2, <5>1 DEF ChunksOf
      <4>4. CASE Send(f)
        <5>1. /\ reader[g] = "send" /\ reader'[g] = "scan" /\ chunks'[g] = chunks[g] + 1
              /\ scanned' = scanned /\ readErr' = readErr
          BY <3>4, <4>4 DEF Send, TypeOK
        <5> QED
          BY <2>1, <3>1, <3>2, <5>1 DEF ChunksOf
      <4>5. CASE GiveUp(f)
        <5>1. g \in readErr' /\ g \in cancelled /\ scanned' = scanned
          BY <3>4, <4>5 DEF GiveUp
        <5> QED
          BY <2>1, <3>1, <5>1 DEF ChunksOf
      <4> QED
        BY <1>4, <4>1, <4>2, <4>3, <4>4, <4>5
    <3> QED
      BY <3>3, <3>4
  <2> QED
    BY <2>2 DEF ChunksHeld
<1>5. ASSUME NEW l \in Loads, Take(l) \/ AppendChunk(l) PROVE ChunksHeld'
  <2>1. /\ main[l] \in {"take", "append"}
        /\ UNCHANGED <<queue, reader, scanned, readErr, cancelled, outcome>>
    BY <1>5 DEF Take, AppendChunk, stream, commit
  <2>2. PICK f \in Files : f = Head(queue[l])
    BY <2>1, HeadOfQueue
  <2>3. InHand(f) <=> main[l] = "append"
    BY <2>1, <2>2, InHandOfHead
  <2>4. \A k \in Loads : k # l => main'[k] = main[k]
    BY <1>5 DEF Take, AppendChunk, TypeOK
  <2>5. ASSUME NEW k \in Loads, k # l, main[k] = "append" PROVE Head(queue[k]) # f
    <3>1. Head(queue[k]) \in FilesOf(k) /\ f \in FilesOf(l)
      BY <2>1, <2>2, <2>5, HeadOfQueue
    <3> QED
      BY <2>5, <3>1, BatchFacts
  <2>6. InHand(f)' <=> main'[l] = "append"
    BY <2>1, <2>2, <2>4, <2>5 DEF InHand
  <2>7. ASSUME NEW g \in Files PROVE ChunksOf(g)'
    <3>1. ChunksOf(g)
      BY DEF ChunksHeld
    <3>2. scanned[g] \in Nat /\ appended[g] \in Nat /\ chunks[g] \in Nat
      BY LimitAssumption DEF TypeOK
    <3>3. CASE g # f
      <4>1. appended'[g] = appended[g] /\ chunks'[g] = chunks[g]
        BY <1>5, <2>2, <3>3 DEF Take, AppendChunk, TypeOK, commit
      <4>2. InHand(g)' <=> InHand(g)
        BY <2>1, <2>2, <2>4, <3>3 DEF InHand
      <4> QED
        BY <2>1, <3>1, <4>1, <4>2, ChunksFrame
    <3>4. CASE g = f /\ Take(l)
      <4>1. /\ main[l] = "take" /\ main'[l] = "append" /\ appended' = appended
            /\ chunks'[g] = chunks[g] - 1
        BY <2>2, <3>4 DEF Take, TypeOK, commit
      <4>2. ~InHand(g) /\ InHand(g)'
        BY <2>3, <2>6, <3>4, <4>1
      <4> QED
        BY <2>1, <3>1, <3>2, <4>1, <4>2 DEF ChunksOf
    <3>5. CASE g = f /\ AppendChunk(l)
      <4>1. /\ main[l] = "append" /\ main'[l] = "take" /\ chunks' = chunks
            /\ appended'[g] = appended[g] + 1
        BY <2>2, <3>5 DEF AppendChunk, TypeOK
      <4>2. InHand(g) /\ ~InHand(g)'
        BY <2>3, <2>6, <3>5, <4>1
      <4> QED
        BY <2>1, <3>1, <3>2, <4>1, <4>2 DEF ChunksOf
    <3> QED
      BY <1>5, <3>3, <3>4, <3>5
  <2> QED
    BY <2>7 DEF ChunksHeld
<1>6. ASSUME NEW l \in Loads, EndOfStream(l) \/ CommitFails(l) PROVE ChunksHeld'
  <2>1. main[l] \in {"begin", "take", "append"} /\ \E r \in Outcomes : Return(l, r)
    BY <1>6 DEF EndOfStream, CommitFails, Outcomes
  <2> QED
    BY <2>1, ReturnChunks
<1>7. CASE UNCHANGED vars
  BY <1>7 DEF vars, stream, commit, ChunksHeld, ChunksOf, InHand
<1> QED
  BY <1>1, <1>2, <1>3, <1>4, <1>5, <1>6, <1>7, BatchFacts DEF Next, Advance, Commit, Fetch, Read

\* A file is marked when its last chunk has been appended.
LEMMA StepLoaded == PipelineInv /\ LoadedMeansComplete /\ [Next]_vars => LoadedMeansComplete'
<1> SUFFICES ASSUME PipelineInv, LoadedMeansComplete, [Next]_vars PROVE LoadedMeansComplete'
  OBVIOUS
<1>1. TypeOK /\ InOrder /\ ChunksHeld
  BY DEF PipelineInv
<1>2. ASSUME NEW l \in Loads, NEW r \in Outcomes, main[l] \in {"begin", "take", "append"}, Return(l, r),
             r = "ok" => main[l] = "take" /\ StreamEnded(l) /\ Head(queue[l]) \notin readErr
      PROVE  LoadedMeansComplete'
  <2>1. PICK f \in Files : f = Head(queue[l]) /\ outcome[f] = None
    BY <1>1, <1>2, HeadOfQueue
  <2>2. outcome' = [outcome EXCEPT ![f] = r] /\ appended' = appended
    BY <1>2, <2>1 DEF Return
  <2>3. ASSUME r = "ok" PROVE appended[f] = Size[f]
    <3>1. f \notin readErr /\ reader[f] = "ended" /\ chunks[f] = 0 /\ main[l] = "take"
      BY <1>2, <2>1, <2>3 DEF StreamEnded
    <3>2. ~InHand(f)
      BY <1>1, <2>1, <3>1, InHandOfHead
    <3>3. ChunksOf(f) /\ appended[f] \in Nat /\ scanned[f] \in Nat /\ Size[f] \in Nat
      BY <1>1, SizeAssumption DEF ChunksHeld, TypeOK
    <3> QED
      BY <2>1, <3>1, <3>2, <3>3 DEF ChunksOf
  <2> QED
    BY <1>1, <2>2, <2>3 DEF LoadedMeansComplete, TypeOK
<1>3. ASSUME NEW l \in Loads, EndOfStream(l) PROVE LoadedMeansComplete'
  <2>1. CASE Head(queue[l]) \in readErr
    BY <1>2, <1>3, <2>1 DEF EndOfStream, Outcomes
  <2>2. CASE Head(queue[l]) \notin readErr
    BY <1>2, <1>3, <2>2 DEF EndOfStream, Outcomes
  <2> QED
    BY <2>1, <2>2
<1>4. ASSUME NEW l \in Loads, CommitFails(l) PROVE LoadedMeansComplete'
  <2>1. main[l] \in {"begin", "take", "append"} /\ Return(l, "failed")
    BY <1>4 DEF CommitFails
  <2> QED
    BY <1>2, <2>1 DEF Outcomes
<1>5. ASSUME NEW l \in Loads, AppendChunk(l) PROVE LoadedMeansComplete'
  <2>1. main[l] = "append" /\ outcome' = outcome
    BY <1>5 DEF AppendChunk
  <2>2. PICK f \in Files : f = Head(queue[l]) /\ outcome[f] = None
    BY <1>1, <2>1, HeadOfQueue
  <2>3. \A g \in Files : g # f => appended'[g] = appended[g]
    BY <1>1, <1>5, <2>2 DEF AppendChunk, TypeOK
  <2> QED
    BY <2>1, <2>2, <2>3, NoneAssumption DEF LoadedMeansComplete
<1>6. ASSUME NEW l \in Loads, Receive(l) PROVE LoadedMeansComplete'
  <2>1. PICK f \in FilesOf(l) : outcome' = [outcome EXCEPT ![f] = "failed"] \/ UNCHANGED outcome
    BY <1>1, <1>6, Received
  <2>2. appended' = appended
    BY <1>6 DEF Receive
  <2> QED
    BY <1>1, <2>1, <2>2 DEF LoadedMeansComplete, TypeOK
<1>7. ASSUME UNCHANGED <<appended, outcome>> PROVE LoadedMeansComplete'
  BY <1>7 DEF LoadedMeansComplete
<1>8. ASSUME NEW l \in Loads, Spawn(l) \/ Drain(l) \/ Begin(l) \/ Take(l) \/ CloseBody(l)
      PROVE  LoadedMeansComplete'
  BY <1>7, <1>8 DEF Spawn, Drain, Begin, Take, CloseBody, commit
<1>9. ASSUME NEW f \in Files, Open(f) \/ Read(f) PROVE LoadedMeansComplete'
  BY <1>7, <1>9
     DEF Open, Read, Scan, ReachEnd, ReadFails, TakeSlot, Parse, Send, GiveUp, commit
<1>10. ASSUME NEW l \in Loads, NEW f \in Files, Hand(l, f) PROVE LoadedMeansComplete'
  BY <1>7, <1>10 DEF Hand, commit
<1>11. CASE UNCHANGED vars
  BY <1>7, <1>11 DEF vars, commit
<1> QED
  BY <1>3, <1>4, <1>5, <1>6, <1>8, <1>9, <1>10, <1>11 DEF Next, Advance, Commit, Fetch

\* A step that neither writes nor ends a commit.
LEMMA UnbegunFrame ==
  ASSUME UnbegunEmpty, appended' = appended,
         \A f \in Files : outcome'[f] = None => outcome[f] = None,
         \A l \in Loads : Writing(l) => Writing(l)' /\ Head(queue'[l]) = Head(queue[l])
  PROVE  UnbegunEmpty'
<1> SUFFICES ASSUME NEW f \in Files, outcome'[f] = None, appended'[f] > 0
             PROVE  \E l \in Loads : Writing(l)' /\ Head(queue'[l]) = f
  BY DEF UnbegunEmpty
<1>1. PICK l \in Loads : Writing(l) /\ Head(queue[l]) = f
  BY DEF UnbegunEmpty
<1> QED
  BY <1>1

\* A file has no chunk in the database before its commit begins.
LEMMA StepUnbegun == TypeOK /\ InOrder /\ UnbegunEmpty /\ [Next]_vars => UnbegunEmpty'
<1> SUFFICES ASSUME TypeOK, InOrder, UnbegunEmpty, [Next]_vars PROVE UnbegunEmpty'
  OBVIOUS
<1>1. ASSUME NEW l \in Loads, Spawn(l) \/ Drain(l) \/ Begin(l) \/ Take(l) \/ CloseBody(l)
      PROVE  UnbegunEmpty'
  <2>1. /\ UNCHANGED <<appended, outcome>>
        /\ queue' = queue \/ (main[l] = "close" /\ \A k \in Loads : k # l => queue'[k] = queue[k])
    BY <1>1 DEF Spawn, Drain, Begin, Take, CloseBody, commit, TypeOK
  <2>2. \A k \in Loads : Writing(k) => Writing(k)'
    BY <1>1 DEF Spawn, Drain, Begin, Take, CloseBody, Writing, TypeOK
  <2>3. \A k \in Loads : Writing(k) => Head(queue'[k]) = Head(queue[k])
    BY <2>1 DEF Writing
  <2> QED
    BY <2>1, <2>2, <2>3, UnbegunFrame
<1>2. ASSUME NEW l \in Loads, Receive(l) PROVE UnbegunEmpty'
  <2>1. /\ appended' = appended /\ main[l] = "receive"
        /\ \A k \in Loads : k # l => main'[k] = main[k] /\ queue'[k] = queue[k]
    BY <1>2 DEF Receive, TypeOK
  <2>2. PICK f \in FilesOf(l) :
          outcome' = [outcome EXCEPT ![f] = "failed"] \/ UNCHANGED outcome
    BY <1>2, Received
  <2>3. \A g \in Files : outcome'[g] = None => outcome[g] = None
    BY <2>2, NoneAssumption DEF TypeOK
  <2>4. \A k \in Loads : Writing(k) => Writing(k)' /\ Head(queue'[k]) = Head(queue[k])
    BY <2>1 DEF Writing
  <2> QED
    BY <2>1, <2>3, <2>4, UnbegunFrame
<1>3. ASSUME NEW l \in Loads, AppendChunk(l) PROVE UnbegunEmpty'
  <2>1. /\ main[l] = "append" /\ main' = [main EXCEPT ![l] = "take"]
        /\ queue' = queue /\ outcome' = outcome
    BY <1>3 DEF AppendChunk
  <2>2. PICK f \in Files : f = Head(queue[l])
    BY <2>1, HeadOfQueue
  <2>3. \A g \in Files : g # f => appended'[g] = appended[g]
    BY <1>3, <2>2 DEF AppendChunk, TypeOK
  <2>4. \A k \in Loads : Writing(k) => Writing(k)'
    BY <2>1 DEF Writing, TypeOK
  <2>5. Writing(l)'
    BY <2>1 DEF Writing, TypeOK
  <2> SUFFICES ASSUME NEW g \in Files, outcome'[g] = None, appended'[g] > 0
               PROVE  \E k \in Loads : Writing(k)' /\ Head(queue'[k]) = g
    BY DEF UnbegunEmpty
  <2>6. CASE g = f
    BY <2>1, <2>2, <2>5, <2>6
  <2>7. CASE g # f
    <3>1. PICK k \in Loads : Writing(k) /\ Head(queue[k]) = g
      BY <2>1, <2>3, <2>7 DEF UnbegunEmpty
    <3> QED
      BY <2>1, <2>4, <3>1
  <2> QED
    BY <2>6, <2>7
<1>4. ASSUME NEW l \in Loads, EndOfStream(l) \/ CommitFails(l) PROVE UnbegunEmpty'
  <2>1. PICK r \in Outcomes : main[l] \in {"begin", "take", "append"} /\ Return(l, r)
    BY <1>4 DEF EndOfStream, CommitFails, Outcomes
  <2>2. PICK f \in Files : f = Head(queue[l]) /\ outcome[f] = None
    BY <2>1, HeadOfQueue
  <2>3. /\ outcome' = [outcome EXCEPT ![f] = r] /\ main' = [main EXCEPT ![l] = "close"]
        /\ queue' = queue /\ appended' = appended
    BY <2>1, <2>2 DEF Return
  <2> SUFFICES ASSUME NEW g \in Files, outcome'[g] = None, appended'[g] > 0
               PROVE  \E k \in Loads : Writing(k)' /\ Head(queue'[k]) = g
    BY DEF UnbegunEmpty
  <2>4. g # f /\ outcome[g] = None
    BY <2>3, NoneAssumption DEF TypeOK, Outcomes
  <2>5. PICK k \in Loads : Writing(k) /\ Head(queue[k]) = g
    BY <2>3, <2>4 DEF UnbegunEmpty
  <2>6. k # l /\ main'[k] = main[k]
    BY <2>2, <2>3, <2>4, <2>5 DEF TypeOK
  <2> QED
    BY <2>3, <2>5, <2>6 DEF Writing
<1>5. ASSUME UNCHANGED <<main, queue, appended, outcome>> PROVE UnbegunEmpty'
  BY <1>5 DEF UnbegunEmpty, Writing
<1>6. ASSUME NEW f \in Files, Open(f) \/ Read(f) PROVE UnbegunEmpty'
  BY <1>5, <1>6
     DEF Open, Read, Scan, ReachEnd, ReadFails, TakeSlot, Parse, Send, GiveUp, commit
<1>7. ASSUME NEW l \in Loads, NEW f \in Files, Hand(l, f) PROVE UnbegunEmpty'
  BY <1>5, <1>7 DEF Hand, commit
<1>8. CASE UNCHANGED vars
  BY <1>5, <1>8 DEF vars, commit
<1> QED
  BY <1>1, <1>2, <1>3, <1>4, <1>6, <1>7, <1>8 DEF Next, Advance, Commit, Fetch

-----------------------------------------------------------------------------
(* Files in flight. *)

\* A step that moves no file into a queue or out of it, and parses nothing.
LEMMA FlightFrame ==
  ASSUME FlightBounded, queue' = queue,
         \A l \in Loads : main'[l] \in {"receive", "done"} => main[l] \in {"receive", "done"}
                                                             \/ Len(queue[l]) < MaxInFlight,
         \A f \in Files : /\ reader'[f] = "none" <=> reader[f] = "none"
                          /\ outcome'[f] = None => outcome[f] = None
                          /\ reader[f] = "none" => chunks'[f] = chunks[f]
  PROVE  FlightBounded'
<1>1. ASSUME NEW l \in Loads PROVE InFlight(l)'
  <2>1. InFlight(l) /\ queue'[l] = queue[l] /\ FilesOf(l) \subseteq Files
    BY BatchFacts DEF FlightBounded
  <2> QED
    BY <2>1 DEF InFlight
<1> QED
  BY <1>1 DEF FlightBounded

\* A received file takes the place that is left in the queue.
LEMMA ReceiveFlight ==
  ASSUME TypeOK, InOrder, FlightBounded, NEW l \in Loads, Receive(l)
  PROVE  FlightBounded'
<1> USE BatchFacts
<1>1. PICK f \in FilesOf(l) :
        /\ f = Head(results[l]) /\ f = results[l][1] /\ results[l] # <<>> /\ main[l] = "receive"
        /\ fetch[f] = "handed" /\ reader[f] = "none" /\ outcome[f] = None
        /\ results' = [results EXCEPT ![l] = Tail(results[l])] /\ fetch' = fetch
        /\ \/ /\ f \in refused /\ outcome' = [outcome EXCEPT ![f] = "failed"]
              /\ UNCHANGED <<main, queue, reader>>
           \/ /\ f \notin refused /\ reader' = [reader EXCEPT ![f] = "scan"]
              /\ queue' = [queue EXCEPT ![l] = Append(queue[l], f)]
              /\ main' = [main EXCEPT ![l] = AfterPrepare(l, queue'[l])]
              /\ UNCHANGED outcome
  BY Received
<1>2. chunks' = chunks /\ f \in Files
  BY <1>1 DEF Receive
<1>3. CASE f \in refused
  <2>1. UNCHANGED <<main, queue, reader>> /\ outcome' = [outcome EXCEPT ![f] = "failed"]
    BY <1>1, <1>3
  <2>2. \A g \in Files : outcome'[g] = None => outcome[g] = None
    BY <1>2, <2>1, NoneAssumption DEF TypeOK
  <2> QED
    BY <1>2, <2>1, <2>2, FlightFrame
<1>4. CASE f \notin refused
  <2>1. /\ reader' = [reader EXCEPT ![f] = "scan"] /\ outcome' = outcome
        /\ queue' = [queue EXCEPT ![l] = Append(queue[l], f)]
        /\ main' = [main EXCEPT ![l] = AfterPrepare(l, queue'[l])]
    BY <1>1, <1>4
  <2>2. \A g \in Files : reader'[g] = "none" => reader[g] = "none"
    BY <2>1 DEF TypeOK
  <2>3. ASSUME NEW k \in Loads PROVE InFlight(k)'
    <3>1. InFlight(k) /\ queue[k] \in Seq(Files)
      BY DEF FlightBounded, TypeOK
    <3>2. CASE k = l
      <4> DEFINE q == queue'[l]  n == Len(queue[l])
      <4>1. /\ q = Append(queue[l], f) /\ n < MaxInFlight /\ n \in Nat /\ MaxInFlight \in Nat
        <5>1. q = Append(queue[l], f)
          BY <2>1 DEF TypeOK
        <5>2. n \in Nat /\ MaxInFlight \in Nat
          BY <3>1, <3>2, LimitAssumption
        <5>3. main[l] = "receive" => n < MaxInFlight
          BY <3>1, <3>2 DEF InFlight
        <5> HIDE DEF q, n
        <5> QED
          BY <1>1, <5>1, <5>2, <5>3
      <4>2. /\ Len(q) = n + 1 /\ q[n + 1] = f /\ \A i \in 1..n : q[i] = queue[l][i]
        BY <1>2, <3>1, <3>2, <4>1, AppendProperties
      <4>3. main'[l] = IF Len(q) = MaxInFlight THEN "begin" ELSE "receive"
        BY <2>1 DEF TypeOK, AfterPrepare
      <4> HIDE DEF q, n
      <4>4. Len(q) <= MaxInFlight /\ (main'[l] \in {"receive", "done"} => Len(q) < MaxInFlight)
        BY <4>1, <4>2, <4>3
      <4>5. ASSUME NEW g \in FilesOf(l), reader'[g] # "none", outcome'[g] = None
            PROVE  \E i \in 1..Len(q) : q[i] = g
        <5>1. CASE g = f
          <6>1. n + 1 \in 1..Len(q)
            BY <4>1, <4>2
          <6> QED
            BY <4>2, <5>1, <6>1
        <5>2. CASE g # f
          <6>1. reader[g] # "none" /\ outcome[g] = None
            BY <2>1, <4>5, <5>2 DEF TypeOK
          <6>2. PICK i \in 1..n : queue[l][i] = g
            BY <3>1, <3>2, <6>1 DEF InFlight, n
          <6>3. i \in 1..Len(q)
            BY <4>1, <4>2
          <6> QED
            BY <4>2, <6>2, <6>3
        <5> QED
          BY <5>1, <5>2
      <4> QED
        BY <3>2, <4>4, <4>5 DEF InFlight, q
    <3>3. CASE k # l
      <4>1. queue'[k] = queue[k] /\ main'[k] = main[k]
        BY <2>1, <3>3 DEF TypeOK
      <4>2. \A g \in FilesOf(k) : reader'[g] = reader[g] /\ outcome'[g] = outcome[g]
        <5> SUFFICES ASSUME NEW g \in FilesOf(k) PROVE g # f
          BY <2>1 DEF TypeOK
        <5> QED
          BY <1>1, <3>3
      <4> QED
        BY <3>1, <4>1, <4>2 DEF InFlight
    <3> QED
      BY <3>2, <3>3
  <2> QED
    BY <1>2, <2>2, <2>3 DEF FlightBounded
<1> QED
  BY <1>3, <1>4

\* A file that leaves the queue was reported.
LEMMA CloseFlight ==
  ASSUME TypeOK, InOrder, FlightBounded, NEW l \in Loads, CloseBody(l)
  PROVE  FlightBounded'
<1>1. /\ main[l] = "close" /\ queue' = [queue EXCEPT ![l] = Tail(queue[l])]
      /\ main' = [main EXCEPT ![l] = "receive"] /\ UNCHANGED <<reader, outcome, chunks>>
  BY DEF CloseBody, stream
<1>2. ASSUME NEW k \in Loads PROVE InFlight(k)'
  <2>1. InFlight(k) /\ queue[k] \in Seq(Files) /\ MaxInFlight \in Nat
    BY LimitAssumption DEF FlightBounded, TypeOK
  <2>2. CASE k = l
    <3> DEFINE q == queue[l]  t == Tail(q)
    <3>1. q # <<>> /\ queue'[l] = t /\ q[1] = Head(q) /\ outcome[q[1]] # None
      BY <1>1, HeadOfQueue DEF TypeOK
    <3>2. /\ Len(q) \in Nat /\ Len(t) = Len(q) - 1
          /\ \A i \in 1..Len(t) : t[i] = q[i + 1]
      BY <2>1, <2>2, <3>1, HeadTail
    <3>3. Len(q) <= MaxInFlight /\ \A g \in FilesOf(l) : reader[g] # "none" /\ outcome[g] = None =>
                                                          \E i \in 1..Len(q) : q[i] = g
      BY <2>1, <2>2 DEF InFlight
    <3> HIDE DEF q, t
    <3>4. Len(t) < MaxInFlight
      BY <2>1, <3>2, <3>3
    <3>5. ASSUME NEW g \in FilesOf(l), reader[g] # "none", outcome[g] = None
          PROVE  \E i \in 1..Len(t) : t[i] = g
      <4>1. PICK i \in 1..Len(q) : q[i] = g
        BY <3>3, <3>5
      <4>2. i # 1
        BY <3>1, <3>5, <4>1
      <4>3. i - 1 \in 1..Len(t) /\ (i - 1) + 1 = i
        BY <3>2, <4>2
      <4> QED
        BY <3>2, <4>1, <4>3
    <3>6. /\ queue'[l] = t /\ main'[l] = "receive" /\ reader' = reader /\ outcome' = outcome
          /\ Len(t) \in Nat /\ Len(t) <= MaxInFlight
      <4>1. Len(t) \in Nat
        BY <2>1, <2>2, <3>1, HeadTail DEF q, t
      <4> QED
        BY <1>1, <2>1, <3>1, <3>4, <4>1 DEF TypeOK
    <3> QED
      BY <2>2, <3>4, <3>5, <3>6 DEF InFlight
  <2>3. CASE k # l
    <3>1. queue'[k] = queue[k] /\ main'[k] = main[k]
      BY <1>1, <2>3 DEF TypeOK
    <3> QED
      BY <1>1, <2>1, <3>1 DEF InFlight
  <2> QED
    BY <2>2, <2>3
<1> QED
  BY <1>1, <1>2 DEF FlightBounded

\* Every step keeps the files in flight few, and in their queues.
LEMMA StepFlight == TypeOK /\ InOrder /\ FlightBounded /\ [Next]_vars => FlightBounded'
<1> SUFFICES ASSUME TypeOK, InOrder, FlightBounded, [Next]_vars PROVE FlightBounded'
  OBVIOUS
<1>1. ASSUME NEW l \in Loads, Spawn(l) \/ Begin(l) \/ AppendChunk(l) PROVE FlightBounded'
  <2> USE DEF Spawn, Begin, AppendChunk, pool, stream, commit
  <2>1. UNCHANGED <<queue, outcome, reader, chunks>>
    BY <1>1
  <2>2. \A k \in Loads : main'[k] \in {"receive", "done"} => main[k] \in {"receive", "done"}
    BY <1>1 DEF TypeOK
  <2> QED
    BY <2>1, <2>2, FlightFrame
<1>2. ASSUME NEW l \in Loads, Drain(l) PROVE FlightBounded'
  <2>1. UNCHANGED <<queue, outcome, reader, chunks>> /\ main[l] = "receive"
    BY <1>2 DEF Drain, stream, commit
  <2>2. \A k \in Loads : k # l => main'[k] = main[k]
    BY <1>2 DEF Drain, TypeOK
  <2> QED
    BY <2>1, <2>2, FlightFrame
<1>3. ASSUME NEW l \in Loads, Take(l) PROVE FlightBounded'
  <2>1. UNCHANGED <<queue, outcome, reader>> /\ main[l] = "take"
        /\ main' = [main EXCEPT ![l] = "append"]
        /\ chunks' = [chunks EXCEPT ![Head(queue[l])] = chunks[Head(queue[l])] - 1]
    BY <1>3 DEF Take, stream, commit
  <2>2. reader[Head(queue[l])] # "none"
    BY <2>1, HeadOfQueue
  <2>3. \A f \in Files : reader[f] = "none" => chunks'[f] = chunks[f]
    BY <2>1, <2>2 DEF TypeOK
  <2>4. \A k \in Loads : main'[k] \in {"receive", "done"} => main[k] \in {"receive", "done"}
    BY <2>1 DEF TypeOK
  <2> QED
    BY <2>1, <2>3, <2>4, FlightFrame
<1>4. ASSUME NEW l \in Loads, EndOfStream(l) \/ CommitFails(l) PROVE FlightBounded'
  <2>1. PICK r \in Outcomes : Return(l, r)
    BY <1>4 DEF EndOfStream, CommitFails, Outcomes
  <2>2. /\ main' = [main EXCEPT ![l] = "close"] /\ UNCHANGED <<queue, reader, chunks>>
        /\ outcome' = [outcome EXCEPT ![Head(queue[l])] = r]
    BY <2>1 DEF Return, stream
  <2>3. \A f \in Files : outcome'[f] = None => outcome[f] = None
    BY <2>2, NoneAssumption DEF TypeOK, Outcomes
  <2>4. \A k \in Loads : main'[k] \in {"receive", "done"} => main[k] \in {"receive", "done"}
    BY <2>2 DEF TypeOK
  <2> QED
    BY <2>2, <2>3, <2>4, FlightFrame
<1>5. ASSUME NEW f \in Files, Open(f) \/ Read(f) PROVE FlightBounded'
  <2> USE DEF Open, Read, Scan, ReachEnd, ReadFails, TakeSlot, Parse, Send, GiveUp, pool, commit, stream
  <2>1. UNCHANGED <<queue, outcome, main>>
    BY <1>5
  <2>2. \A g \in Files : reader'[g] = "none" <=> reader[g] = "none"
    BY <1>5 DEF TypeOK
  <2>3. \A g \in Files : reader[g] = "none" => chunks'[g] = chunks[g]
    BY <1>5 DEF TypeOK
  <2> QED
    BY <2>1, <2>2, <2>3, FlightFrame
<1>6. ASSUME NEW l \in Loads, NEW f \in Files, Hand(l, f) PROVE FlightBounded'
  BY <1>6, FlightFrame DEF Hand, commit, stream
<1>7. CASE UNCHANGED vars
  BY <1>7, FlightFrame DEF vars, commit, stream
<1> QED
  BY <1>1, <1>2, <1>3, <1>4, <1>5, <1>6, <1>7, ReceiveFlight, CloseFlight
     DEF Next, Advance, Commit, Fetch

\* No product grows when a factor shrinks.
LEMMA LesserProduct ==
  ASSUME NEW a \in Nat, NEW b \in Nat, NEW c \in Nat, a <= b
  PROVE  a * c <= b * c
OBVIOUS

\* The numbers up to n are n.
LEMMA UpTo ==
  ASSUME NEW n \in Nat
  PROVE  IsFiniteSet(1..n) /\ Cardinality(1..n) = n
<1>1. IsFiniteSet(1..n) /\ Cardinality(1..n) = IF 1 > n THEN 0 ELSE n - 1 + 1
  BY FS_Interval
<1>2. (IF 1 > n THEN 0 ELSE n - 1 + 1) = n
  OBVIOUS
<1> QED
  BY <1>1, <1>2

\* The chunks of the files in flight are those of a full queue of full files, at most.
LEMMA FlightMemory ==
  ASSUME TypeOK, InOrder, FlightBounded, NEW l \in Loads
  PROVE  LET inFlight == {f \in FilesOf(l) : outcome[f] = None}
             held     == UNION {{f} \X (1..Parsed(f)) : f \in inFlight}
         IN  Cardinality(held) <= MaxInFlight * (Depth + 1) /\ Cardinality(held) \in Nat
<1> DEFINE inFlight == {f \in FilesOf(l) : outcome[f] = None}
           held     == UNION {{f} \X (1..Parsed(f)) : f \in inFlight}
           n == Len(queue[l])
           D == 1..n
           S == {queue[l][i] : i \in D}
           T == 1..(Depth + 1)
<1>1. /\ n \in Nat /\ n <= MaxInFlight /\ MaxInFlight \in Nat /\ Depth \in Nat
  BY LimitAssumption DEF FlightBounded, InFlight, TypeOK
<1>2. held \in SUBSET (S \X T)
  <2> SUFFICES ASSUME NEW f \in inFlight, NEW x \in {f} \X (1..Parsed(f)) PROVE x \in S \X T
    OBVIOUS
  <2>1. f \in Files /\ f \in FilesOf(l)
    BY BatchFacts
  <2>2. chunks[f] \in 0..Depth
    BY <2>1 DEF TypeOK
  <2>3. Parsed(f) \in 0..(Depth + 1)
    BY <1>1, <2>2 DEF Parsed
  <2>4. reader[f] # "none"
    <3> SUFFICES ASSUME reader[f] = "none" PROVE FALSE
      OBVIOUS
    <3>1. Parsed(f) = 0
      BY <2>1 DEF Parsed, FlightBounded
    <3> QED
      BY <3>1
  <2>5. f \in S
    BY <2>1, <2>4 DEF FlightBounded, InFlight
  <2>6. \A j \in 1..Parsed(f) : j \in T
    BY <1>1, <2>3
  <2> QED
    BY <2>5, <2>6
<1>3. IsFiniteSet(S) /\ Cardinality(S) <= n
  <2> DEFINE q == [i \in D |-> queue[l][i]]
  <2>1. q \in Surjection(D, S)
    BY DEF Surjection
  <2>2. IsFiniteSet(D) /\ Cardinality(D) = n
    BY <1>1, UpTo
  <2> HIDE DEF q, D, S, n
  <2> QED
    BY <2>1, <2>2, FS_Surjection
<1>4. IsFiniteSet(T) /\ Cardinality(T) = Depth + 1
  BY <1>1, UpTo
<1> HIDE DEF held, S, T, n
<1>5. IsFiniteSet(S \X T) /\ Cardinality(S \X T) = Cardinality(S) * (Depth + 1)
  BY <1>3, <1>4, FS_Product
<1>6. /\ IsFiniteSet(held) /\ Cardinality(held) <= Cardinality(S) * (Depth + 1)
      /\ Cardinality(held) \in Nat /\ Cardinality(S) \in Nat
  BY <1>2, <1>3, <1>5, FS_Subset, FS_CardinalityType
<1>7. Cardinality(S) <= MaxInFlight
  BY <1>1, <1>3, <1>6
<1>8. Cardinality(S) * (Depth + 1) <= MaxInFlight * (Depth + 1)
  BY <1>1, <1>6, <1>7, LesserProduct
<1>9. Cardinality(held) <= MaxInFlight * (Depth + 1)
  <2> DEFINE a == Cardinality(S) * (Depth + 1)  b == MaxInFlight * (Depth + 1)
  <2>1. a \in Int /\ b \in Int /\ Cardinality(held) <= a /\ a <= b
    BY <1>1, <1>6, <1>8
  <2> HIDE DEF a, b
  <2>2. Cardinality(held) <= b
    BY <1>6, <2>1
  <2> QED
    BY <2>2 DEF b
<1> QED
  BY <1>6, <1>9 DEF held

-----------------------------------------------------------------------------
\* PipelineInv holds in every reachable state: the files are in order, each in
\* one place, every chunk is accounted for, and the write lock and the parse slot
\* are held in their sections.
THEOREM PipelineCorrect == Spec => []PipelineInv
<1>1. PipelineInv /\ [Next]_vars => PipelineInv'
  BY StepTyped, StepOrder, StepLocks, StepChunks, StepFlight, StepUnbegun DEF PipelineInv
<1> QED
  BY InitPipeline, <1>1, PTL DEF Spec

\* loadPipeline reports a file as loaded only with all of its chunks in the
\* database, however many loads, readers and failures there are.
THEOREM LoadedComplete == Spec => []LoadedMeansComplete
<1>1. Init => LoadedMeansComplete
  BY NoneAssumption DEF Init, LoadedMeansComplete
<1> QED
  BY <1>1, StepLoaded, PipelineCorrect, PTL DEF Spec

\* BoundedMemory: the files in flight hold no more parsed chunks than
\* maxInFlightFiles and pendingChunkDepth allow, whatever their number and size.
THEOREM MemoryBounded == Spec => []BoundedMemory
<1>1. PipelineInv => BoundedMemory
  <2> SUFFICES ASSUME PipelineInv, NEW l \in Loads
               PROVE  LET inFlight == {f \in FilesOf(l) : outcome[f] = None}
                          held     == UNION {{f} \X (1..Parsed(f)) : f \in inFlight}
                      IN  Cardinality(held) + (IF main[l] = "append" THEN 1 ELSE 0)
                            <= MaxInFlight * (Depth + 1) + 1
    BY DEF BoundedMemory
  <2> DEFINE inFlight == {f \in FilesOf(l) : outcome[f] = None}
             held     == UNION {{f} \X (1..Parsed(f)) : f \in inFlight}
             b        == MaxInFlight * (Depth + 1)
  <2>1. Cardinality(held) <= b /\ Cardinality(held) \in Nat
    BY FlightMemory DEF PipelineInv
  <2>2. b \in Int
    BY LimitAssumption
  <2> HIDE DEF held, b
  <2>3. Cardinality(held) + (IF main[l] = "append" THEN 1 ELSE 0) <= b + 1
    BY <2>1, <2>2
  <2> QED
    BY <2>3 DEF held, b
<1> QED
  BY <1>1, PipelineCorrect, PTL

-----------------------------------------------------------------------------
(* SerialLoad is implemented. *)

\* The file that is being written, as SerialLoad sees it.
Current == IF writer = None THEN None ELSE Head(queue[writer])
Mapped  == <<Current, appended, outcome>>

\* It is that of the load that has the lock.
LEMMA CurrentIs ==
  ASSUME PipelineInv
  PROVE  /\ \A l \in Loads : Writing(l) => /\ writer = l /\ Current = Head(queue[l])
                                           /\ Current \in Files /\ Current # None
         /\ writer # None => \E l \in Loads : l = writer /\ Writing(l)
<1>1. ASSUME NEW l \in Loads, Writing(l)
      PROVE  writer = l /\ Current = Head(queue[l]) /\ Current \in Files /\ Current # None
  <2>1. writer = l /\ l # None
    BY <1>1, NoneAssumption DEF PipelineInv, LocksHeld, Writing
  <2>2. Head(queue[l]) \in Files
    BY <1>1, HeadOfQueue DEF PipelineInv, Writing
  <2> QED
    BY <2>1, <2>2, NoneAssumption DEF Current
<1>2. ASSUME writer # None PROVE \E l \in Loads : l = writer /\ Writing(l)
  BY <1>2 DEF PipelineInv, TypeOK, LocksHeld, Writing
<1> QED
  BY <1>1, <1>2

\* A step that does not touch what is being written.
LEMMA SameCurrent ==
  ASSUME PipelineInv, writer' = writer,
         \A l \in Loads : Writing(l) => queue'[l] = queue[l]
  PROVE  Current' = Current
BY CurrentIs DEF Current

\* A file that no load is committing is not being written, and has nothing in the database.
LEMMA NotBegun ==
  ASSUME PipelineInv, NEW f \in Files, outcome[f] = None,
         \A l \in Loads : Writing(l) => Head(queue[l]) # f
  PROVE  Current # f /\ appended[f] = 0
<1>1. Current # f
  BY CurrentIs, NoneAssumption DEF Current
<1>2. ~(appended[f] > 0) /\ appended[f] \in Nat
  BY DEF PipelineInv, UnbegunEmpty, TypeOK
<1> QED
  BY <1>1, <1>2

\* The commit of a file begins with nothing of it in the database.
LEMMA BeginMaps ==
  ASSUME PipelineInv, NEW l \in Loads, Begin(l)
  PROVE  \E f \in Files : Serial!Begin(f)
<1>1. /\ main[l] = "begin" /\ writer = None /\ writer' = l
      /\ UNCHANGED <<queue, appended, outcome>>
  BY DEF Begin, commit
<1>2. PICK f \in Files : f = Head(queue[l]) /\ outcome[f] = None
  BY <1>1, HeadOfQueue DEF PipelineInv
<1>3. \A k \in Loads : ~Writing(k)
  BY <1>1, CurrentIs, NoneAssumption
<1>4. appended[f] = 0
  BY <1>2, <1>3, NotBegun
<1>5. Current = None /\ Current' = f
  BY <1>1, <1>2, NoneAssumption DEF Current
<1> QED
  BY <1>1, <1>2, <1>4, <1>5, Zenon DEF Serial!Begin, Current

\* A chunk that is appended is one more of the file's.
LEMMA AppendMaps ==
  ASSUME PipelineInv, NEW l \in Loads, AppendChunk(l)
  PROVE  \E f \in Files : Serial!Write(f)
<1>1. main[l] = "append" /\ UNCHANGED <<queue, writer, outcome>>
  BY DEF AppendChunk
<1>2. PICK f \in Files : f = Head(queue[l]) /\ outcome[f] = None
  BY <1>1, HeadOfQueue DEF PipelineInv
<1>3. Writing(l) /\ InHand(f)
  BY <1>1, <1>2 DEF Writing, InHand
<1>4. appended[f] < Size[f]
  <2>1. /\ ChunksOf(f) /\ appended[f] \in Nat /\ scanned[f] \in Nat /\ chunks[f] \in Nat
        /\ Size[f] \in Nat
    BY SizeAssumption, LimitAssumption DEF PipelineInv, ChunksHeld, TypeOK
  <2> QED
    BY <1>2, <1>3, <2>1 DEF ChunksOf
<1>5. Current = f /\ Current' = Current
  BY <1>1, <1>2, <1>3, CurrentIs, SameCurrent
<1>6. appended' = [appended EXCEPT ![f] = @ + 1]
  BY <1>2 DEF AppendChunk
<1> QED
  BY <1>1, <1>4, <1>5, <1>6, Zenon DEF Serial!Write, Current

\* CommitFile's return, from its wait for the lock or from under it.
LEMMA ReturnMaps ==
  ASSUME PipelineInv, NEW l \in Loads, NEW r \in Outcomes,
         main[l] \in {"begin", "take", "append"}, Return(l, r),
         r = "ok" => Writing(l) /\ appended[Head(queue[l])] = Size[Head(queue[l])]
  PROVE  \E f \in Files : Serial!Finish(f) \/ Serial!GiveUp(f)
<1>1. PICK f \in Files : f = Head(queue[l]) /\ outcome[f] = None /\ f \in FilesOf(l)
  BY HeadOfQueue DEF PipelineInv
<1>2. /\ outcome' = [outcome EXCEPT ![f] = r] /\ UNCHANGED <<queue, appended>>
      /\ writer' = IF writer = l THEN None ELSE writer
  BY <1>1 DEF Return
<1>3. l # None /\ f # None
  BY NoneAssumption
<1>4. CASE Writing(l)
  <2>1. writer = l /\ Current = f
    BY <1>1, <1>4, CurrentIs
  <2>2. Current' = None
    BY <1>2, <2>1 DEF Current
  <2>3. r = "ok" \/ r = "failed"
    BY DEF Outcomes
  <2>4. CASE r = "ok"
    <3>1. appended[f] = Size[f]
      BY <1>1, <2>4
    <3>2. Serial!Finish(f)
      BY <1>2, <2>1, <2>2, <2>4, <3>1, Zenon DEF Serial!Finish, Current
    <3> QED
      BY <3>2
  <2>5. CASE r = "failed"
    <3>1. Serial!GiveUp(f)
      BY <1>1, <1>2, <2>1, <2>2, <2>5, Zenon DEF Serial!GiveUp, Current
    <3> QED
      BY <3>1
  <2> QED
    BY <2>3, <2>4, <2>5
<1>5. CASE ~Writing(l)
  <2>1. r = "failed"
    BY <1>5 DEF Outcomes
  <2>2. writer # l
    BY <1>3, <1>5, CurrentIs
  <2>3. ASSUME NEW k \in Loads, Writing(k) PROVE Head(queue[k]) # f
    <3>1. Head(queue[k]) \in FilesOf(k)
      BY <2>3, HeadOfQueue DEF PipelineInv, Writing
    <3> QED
      BY <1>1, <1>5, <2>3, <3>1, BatchFacts
  <2>4. Current # f /\ appended[f] = 0
    BY <1>1, <2>3, NotBegun
  <2>5. writer' = writer /\ Current' = Current
    BY <1>2, <2>2 DEF Current
  <2>6. Serial!GiveUp(f)
    BY <1>1, <1>2, <2>1, <2>4, <2>5, Zenon DEF Serial!GiveUp, Current
  <2> QED
    BY <2>6
<1> QED
  BY <1>4, <1>5

\* The end of a file's stream.
LEMMA EndMaps ==
  ASSUME PipelineInv, NEW l \in Loads, EndOfStream(l)
  PROVE  \E f \in Files : Serial!Finish(f) \/ Serial!GiveUp(f)
<1>1. main[l] = "take" /\ StreamEnded(l)
      /\ Return(l, IF Head(queue[l]) \in readErr THEN "failed" ELSE "ok")
  BY DEF EndOfStream
<1>2. PICK f \in Files : f = Head(queue[l]) /\ outcome[f] = None
  BY <1>1, HeadOfQueue DEF PipelineInv
<1>3. CASE f \in readErr
  BY <1>1, <1>2, <1>3, ReturnMaps DEF Outcomes
<1>4. CASE f \notin readErr
  <2>1. reader[f] = "ended" /\ chunks[f] = 0 /\ ~InHand(f)
    <3>1. InHand(Head(queue[l])) <=> main[l] = "append"
      BY <1>1, InHandOfHead DEF PipelineInv
    <3> QED
      BY <1>1, <1>2, <3>1 DEF StreamEnded
  <2>2. ChunksOf(f) /\ appended[f] \in Nat /\ scanned[f] \in Nat
    BY DEF PipelineInv, ChunksHeld, TypeOK
  <2>3. appended[f] = Size[f]
    BY <1>2, <1>4, <2>1, <2>2 DEF ChunksOf
  <2>4. Writing(l)
    BY <1>1 DEF Writing
  <2> QED
    BY <1>1, <1>2, <1>4, <2>3, <2>4, ReturnMaps DEF Outcomes
<1> QED
  BY <1>3, <1>4

\* A download that failed was never begun.
LEMMA ReceiveMaps ==
  ASSUME PipelineInv, NEW l \in Loads, Receive(l)
  PROVE  (\E f \in Files : Serial!GiveUp(f)) \/ UNCHANGED Mapped
<1>1. /\ main[l] = "receive" /\ UNCHANGED <<writer, appended>>
      /\ \A k \in Loads : k # l => queue'[k] = queue[k]
  BY DEF Receive, PipelineInv, TypeOK
<1>2. Current' = Current
  <2>1. \A k \in Loads : Writing(k) => queue'[k] = queue[k]
    BY <1>1 DEF Writing
  <2> QED
    BY <1>1, <2>1, SameCurrent
<1>3. PICK f \in FilesOf(l) :
        /\ reader[f] = "none" /\ outcome[f] = None
        /\ outcome' = [outcome EXCEPT ![f] = "failed"] \/ UNCHANGED outcome
  BY Received DEF PipelineInv
<1>4. f \in Files
  BY BatchFacts
<1>5. Current # f /\ appended[f] = 0
  <2>1. \A k \in Loads : Writing(k) => Head(queue[k]) # f
    BY <1>3, HeadOfQueue DEF PipelineInv, Writing
  <2> QED
    BY <1>3, <1>4, <2>1, NotBegun
<1>6. CASE outcome' = [outcome EXCEPT ![f] = "failed"]
  <2>1. Serial!GiveUp(f)
    BY <1>1, <1>2, <1>3, <1>5, <1>6, Zenon DEF Serial!GiveUp, Current
  <2> QED
    BY <1>4, <2>1
<1>7. CASE UNCHANGED outcome
  BY <1>1, <1>2, <1>7 DEF Mapped
<1> QED
  BY <1>3, <1>6, <1>7

\* Every step is one of SerialLoad's, or does not show.
LEMMA StepSerial ==
  ASSUME PipelineInv, [Next]_vars
  PROVE  Serial!Next \/ UNCHANGED Mapped
<1>1. ASSUME NEW l \in Loads, Begin(l) \/ AppendChunk(l) \/ EndOfStream(l) PROVE Serial!Next
  BY <1>1, BeginMaps, AppendMaps, EndMaps DEF Serial!Next
<1>2. ASSUME NEW l \in Loads, CommitFails(l) PROVE Serial!Next
  <2>1. main[l] \in {"begin", "take", "append"} /\ Return(l, "failed")
    BY <1>2 DEF CommitFails
  <2> QED
    BY <2>1, ReturnMaps DEF Serial!Next, Outcomes
<1>3. ASSUME NEW l \in Loads, Receive(l) PROVE Serial!Next \/ UNCHANGED Mapped
  BY <1>3, ReceiveMaps DEF Serial!Next
<1>4. ASSUME NEW l \in Loads, CloseBody(l) PROVE UNCHANGED Mapped
  <2>1. /\ main[l] = "close" /\ UNCHANGED <<writer, appended, outcome>>
        /\ \A k \in Loads : k # l => queue'[k] = queue[k]
    BY <1>4 DEF CloseBody, PipelineInv, TypeOK
  <2>2. \A k \in Loads : Writing(k) => queue'[k] = queue[k]
    BY <2>1 DEF Writing
  <2> QED
    BY <2>1, <2>2, SameCurrent DEF Mapped
<1>5. ASSUME UNCHANGED <<writer, queue, appended, outcome>> PROVE UNCHANGED Mapped
  BY <1>5 DEF Mapped, Current
<1>6. ASSUME NEW l \in Loads, Spawn(l) \/ Drain(l) \/ Take(l) PROVE UNCHANGED Mapped
  BY <1>5, <1>6 DEF Spawn, Drain, Take, commit
<1>7. ASSUME NEW f \in Files, Open(f) \/ Read(f) PROVE UNCHANGED Mapped
  BY <1>5, <1>7
     DEF Open, Read, Scan, ReachEnd, ReadFails, TakeSlot, Parse, Send, GiveUp, commit
<1>8. ASSUME NEW l \in Loads, NEW f \in Files, Hand(l, f) PROVE UNCHANGED Mapped
  BY <1>5, <1>8 DEF Hand, commit
<1>9. CASE UNCHANGED vars
  BY <1>5, <1>9 DEF vars, commit
<1> QED
  BY <1>1, <1>2, <1>3, <1>4, <1>6, <1>7, <1>8, <1>9 DEF Next, Advance, Commit, Fetch

\* Pools, channels and readers do not show: files are written one by one from start to
\* end, and each is reported once, as loaded only when all of it is written
\* (loadPipeline, CommitFile).
THEOREM PipelineImplements == Spec => Implements
<1>1. Init => Serial!Init
  BY DEF Init, Serial!Init
<1>2. PipelineInv /\ [Next]_vars => [Serial!Next]_Mapped
  BY StepSerial
<1> QED
  BY <1>1, <1>2, PipelineCorrect, PTL DEF Spec, Implements, Serial!Spec, Serial!vars, Mapped, Current
=============================================================================
