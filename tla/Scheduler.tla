------------------------------- MODULE Scheduler -------------------------------
(***************************************************************************)
(* The scheduler's ticks over all wiretaps.                                *)
(*                                                                         *)
(* A tick lists the catalog and takes the time once, then goes through the *)
(* list: load and retention for a wiretap that is due, MarkPolled, and a   *)
(* re-encode of a legacy file.  A tick may last longer than the ticker's   *)
(* minute, and the user changes, deletes and creates wiretaps under it.    *)
(* Loads and compactions are under no control of this module: they end,    *)
(* well or with an error, one wiretap's perhaps always with an error.      *)
(*                                                                         *)
(* Every time the code compares or stores is the time of a tick, so times  *)
(* are kept as ages, in minutes before the last tick; Long stands for ages *)
(* no comparison tells apart, and for a time that was never set.           *)
(***************************************************************************)
EXTENDS Integers, Sequences, FiniteSets, FiniteSetsExt, SequencesExt

CONSTANTS Wiretap,
          Settings,   \* [auto, retention : BOOLEAN, interval : minutes]
          RetryAfter, \* reencodeRetryAfter
          MaxGap,     \* bounds the minutes from one tick to the next
          MaxChanges, \* bounds what the user does
          MaxFaults,  \* bounds the errors of the catalog and the restarts
          None

ASSUME SettingsAssumption ==
  /\ Settings \subseteq [auto : BOOLEAN, retention : BOOLEAN, interval : Nat \ {0}]
  /\ IsFiniteSet(Settings) /\ IsFiniteSet(Wiretap)
ASSUME TimeAssumption  == RetryAfter \in Nat \ {0} /\ MaxGap \in Nat \ {0}
ASSUME BoundAssumption == MaxChanges \in Nat /\ MaxFaults \in Nat

Long == Max({RetryAfter} \cup {s.interval : s \in Settings})
Ages == 0..Long

VARIABLES
  row,       \* per wiretap the settings in its catalog row, None without a row
  polled,    \* last_polled_at
  legacy,    \* NeedsReencode: its file is of an old format
  todo,      \* the rows the tick has listed and not done with
  stage,     \* what it does for the first of them
  reencodeFailed,
  saved,     \* history: the settings as the user left them
  held,      \* history: the settings since the tick began
  passed,    \* history: the last pass begun whose end could be recorded
  tried,     \* history: the last re-encode, if it failed
  changes, faults

catalog == <<row, polled, legacy>>
tick    == <<todo, stage>>
history == <<saved, held, passed, tried>>
vars    == <<catalog, tick, reencodeFailed, history, changes, faults>>

Rows == [id : Wiretap, settings : Settings, due : BOOLEAN]

TypeOK ==
  /\ row \in [Wiretap -> Settings \cup {None}] /\ saved \in [Wiretap -> Settings \cup {None}]
  /\ {polled, reencodeFailed, passed, tried} \subseteq [Wiretap -> Ages]
  /\ legacy \in [Wiretap -> BOOLEAN] /\ held \in [Wiretap -> SUBSET (Settings \cup {None})]
  /\ todo \in Seq(Rows)
  /\ stage \in {"idle", "pass", "mark", "reencode"} /\ (stage = "idle" <=> todo = <<>>)
  /\ changes \in 0..MaxChanges /\ faults \in 0..MaxFaults

Never == [w \in Wiretap |-> Long]

\* The program starts on wiretaps of an older version; polls of before are long ago.
Init ==
  /\ row \in [Wiretap -> Settings] /\ saved = row /\ held = [w \in Wiretap |-> {row[w]}]
  /\ polled = Never /\ reencodeFailed = Never /\ passed = Never /\ tried = Never
  /\ legacy \in [Wiretap -> BOOLEAN]
  /\ todo = <<>> /\ stage = "idle" /\ changes = 0 /\ faults = 0

Fault  == faults < MaxFaults /\ faults' = faults + 1
Change == changes < MaxChanges /\ changes' = changes + 1

-----------------------------------------------------------------------------
(* tick: the list, and the time. *)

Aged(age, gap) == [w \in Wiretap |-> Min({age[w] + gap, Long})]

Active(s) == s.auto \/ s.retention

Listed(gap) ==
  {[id |-> w, settings |-> row[w], due |-> Aged(polled, gap)[w] >= row[w].interval] :
     w \in {v \in Wiretap : row[v] # None}}

\* ORDER BY name; the user may rename a wiretap between two ticks.  A tick that was
\* waiting in the ticker's channel comes less than a minute after the last one.
Tick(gap) ==
  /\ stage = "idle"
  /\ polled' = Aged(polled, gap) /\ reencodeFailed' = Aged(reencodeFailed, gap)
  /\ passed' = Aged(passed, gap) /\ tried' = Aged(tried, gap)
  /\ held' = [w \in Wiretap |-> {row[w]}]
  /\ \/ /\ todo' \in SetToSeqs(Listed(gap))
        /\ stage' = IF todo' = <<>> THEN "idle" ELSE "pass"
        /\ UNCHANGED faults
     \/ UNCHANGED tick /\ Fault
  /\ UNCHANGED <<row, legacy, saved, changes>>

-----------------------------------------------------------------------------
(* tick: one wiretap, by the row that was listed. *)

w0 == Head(todo).id
Due == Head(todo).due /\ Active(Head(todo).settings)

Go(next) == stage' = next /\ UNCHANGED todo

NotDue ==
  /\ stage = "pass" /\ ~Due
  /\ Go("reencode")
  /\ UNCHANGED <<catalog, reencodeFailed, history, changes, faults>>

\* autoLoadNewFiles and ApplyRetention, which may compact the file.
Pass ==
  /\ stage = "pass" /\ Due
  /\ \E kept \in IF Head(todo).settings.retention THEN BOOLEAN ELSE {TRUE} :
       legacy' = [legacy EXCEPT ![w0] = @ /\ kept]
  /\ passed' = [passed EXCEPT ![w0] = 0]
  /\ Go("mark")
  /\ UNCHANGED <<row, polled, reencodeFailed, saved, held, tried, changes, faults>>

\* Variant: only a pass that succeeded is marked.
PassFailsUnmarked ==
  /\ stage = "pass" /\ Due
  /\ passed' = [passed EXCEPT ![w0] = 0]
  /\ Go("reencode")
  /\ UNCHANGED <<catalog, reencodeFailed, saved, held, tried, changes, faults>>

\* Variant: an error ends the tick.
PassFailsForAll ==
  /\ stage = "pass" /\ Due
  /\ passed' = [passed EXCEPT ![w0] = 0]
  /\ todo' = <<>> /\ stage' = "idle"
  /\ UNCHANGED <<catalog, reencodeFailed, saved, held, tried, changes, faults>>

\* The load or the retention fails, and the tick goes on as if it had not.
PassFails ==
  /\ stage = "pass" /\ Due
  /\ passed' = [passed EXCEPT ![w0] = 0]
  /\ Go("mark")
  /\ UNCHANGED <<catalog, reencodeFailed, saved, held, tried, changes, faults>>

\* Variant: the listed row is written back with its time.
MarkPolledRow ==
  /\ stage = "mark"
  /\ polled' = [polled EXCEPT ![w0] = IF row[w0] = None THEN @ ELSE 0]
  /\ row' = [row EXCEPT ![w0] = IF @ = None THEN @ ELSE Head(todo).settings]
  /\ Go("reencode")
  /\ UNCHANGED <<legacy, reencodeFailed, history, changes, faults>>

\* The row of that id, if there is one, gets the time of the tick.
MarkPolled ==
  /\ stage = "mark"
  /\ polled' = [polled EXCEPT ![w0] = IF row[w0] = None THEN @ ELSE 0]
  /\ Go("reencode")
  /\ UNCHANGED <<row, legacy, reencodeFailed, history, changes, faults>>

MarkFails ==
  /\ stage = "mark"
  /\ passed' = [passed EXCEPT ![w0] = Long]
  /\ Go("reencode")
  /\ UNCHANGED <<catalog, reencodeFailed, saved, held, tried, changes, faults>>

NextWiretap ==
  /\ todo' = Tail(todo)
  /\ stage' = IF Len(todo) = 1 THEN "idle" ELSE "pass"

NeedsReencode == legacy[w0] /\ reencodeFailed[w0] >= RetryAfter

NoReencode ==
  /\ stage = "reencode" /\ ~NeedsReencode
  /\ NextWiretap
  /\ UNCHANGED <<catalog, reencodeFailed, history, changes, faults>>

Reencode ==
  /\ stage = "reencode" /\ NeedsReencode
  /\ legacy' = [legacy EXCEPT ![w0] = FALSE]
  /\ tried' = [tried EXCEPT ![w0] = Long]
  /\ NextWiretap
  /\ UNCHANGED <<row, polled, reencodeFailed, saved, held, passed, changes, faults>>

\* The copy fails; or the swap fails when the new file is in place already.
ReencodeFails ==
  /\ stage = "reencode" /\ NeedsReencode
  /\ \E kept \in BOOLEAN : legacy' = [legacy EXCEPT ![w0] = kept]
  /\ reencodeFailed' = [reencodeFailed EXCEPT ![w0] = 0]
  /\ tried' = [tried EXCEPT ![w0] = 0]
  /\ NextWiretap
  /\ UNCHANGED <<row, polled, saved, held, passed, changes, faults>>

-----------------------------------------------------------------------------
(* The user, at any point of a tick. *)

SetRow(w, s) ==
  /\ row' = [row EXCEPT ![w] = s] /\ saved' = [saved EXCEPT ![w] = s]
  /\ held' = [held EXCEPT ![w] = @ \cup {s}]

UpdateWiretap(w) ==
  /\ row[w] # None /\ Change
  /\ \E s \in Settings : SetRow(w, s)
  /\ UNCHANGED <<polled, legacy, tick, reencodeFailed, passed, tried, faults>>

DeleteWiretap(w) ==
  /\ row[w] # None /\ Change
  /\ SetRow(w, None)
  /\ legacy' = [legacy EXCEPT ![w] = FALSE] /\ passed' = [passed EXCEPT ![w] = Long]
  /\ UNCHANGED <<polled, tick, reencodeFailed, tried, faults>>

CreateWiretap(w) ==
  /\ row[w] = None /\ Change
  /\ \E s \in Settings : SetRow(w, s)
  /\ polled' = [polled EXCEPT ![w] = Long] /\ passed' = [passed EXCEPT ![w] = Long]
  /\ UNCHANGED <<legacy, tick, reencodeFailed, tried, faults>>

\* CompactWiretapNow, or a RunRetentionNow that compacts.
CompactNow(w) ==
  /\ legacy[w] /\ Change
  /\ legacy' = [legacy EXCEPT ![w] = FALSE]
  /\ UNCHANGED <<row, polled, tick, reencodeFailed, history, faults>>

\* The window is closed, or the program dies, with a tick under way: stop waits for
\* nothing.  A pass that was not marked yet is forgotten, and so are failed re-encodes.
Restart ==
  /\ Fault
  /\ todo' = <<>> /\ stage' = "idle"
  /\ reencodeFailed' = Never
  /\ passed' = IF stage = "mark" THEN [passed EXCEPT ![w0] = Long] ELSE passed
  /\ UNCHANGED <<catalog, saved, held, tried, changes>>

-----------------------------------------------------------------------------
Step == NotDue \/ Pass \/ PassFails \/ MarkPolled \/ MarkFails \/ NoReencode \/ Reencode \/ ReencodeFails

User == \E w \in Wiretap : UpdateWiretap(w) \/ DeleteWiretap(w) \/ CreateWiretap(w) \/ CompactNow(w)

Next == Step \/ User \/ Restart \/ \E gap \in 0..MaxGap : Tick(gap)

Spec == Init /\ [][Next]_vars

\* A tick's calls end, and the ticker's time goes on.
FairSpec == Spec /\ WF_vars(Step) /\ SF_vars(\E gap \in 1..MaxGap : Tick(gap))

-----------------------------------------------------------------------------
\* A tick works through each wiretap once, with settings that were the user's at
\* some moment of this tick.
OnceEach   == \A i, j \in DOMAIN todo : todo[i].id = todo[j].id => i = j
OfThisTick == \A i \in DOMAIN todo : todo[i].settings \in held[todo[i].id]

\* The times it compares with are those of the passes and failed re-encodes it has made.  A
\* restart forgets the failed ones, and then they are tried again at once, not after an hour.
TimesKept ==
  \A w \in Wiretap :
    /\ tried[w] \in {reencodeFailed[w], Long} \/ reencodeFailed[w] = Long
    /\ row[w] # None /\ polled[w] > passed[w] => stage = "mark" /\ w0 = w

\* What was due when it was listed is still due when its turn comes.
DueStill ==
  \A i \in DOMAIN todo : todo[i].due /\ (i > 1 \/ stage = "pass") =>
                           passed[todo[i].id] >= todo[i].settings.interval

\* And it never undoes what the user saves under it.
SchedulerInv == TypeOK /\ OnceEach /\ OfThisTick /\ row = saved /\ TimesKept /\ DueStill

\* The cadence the comment on pollTick promises: two passes over a wiretap begin its
\* interval apart, also over errors in them, long ticks, ticks in quick succession,
\* changed settings and restarts, if the first was marked in the catalog.  After one that
\* was not, because MarkPolled failed or the program ended before it, the next may begin
\* at once.
Spaced == [][Pass \/ PassFails => passed[w0] >= Head(todo).settings.interval]_vars

\* A wiretap whose load, retention or re-encode always fails keeps no other one from
\* its turn: every wiretap with work to do is passed over again and again, and every
\* legacy file tried again until it is re-encoded.
EveryoneServed ==
  \A w \in Wiretap :
    /\ []<>(row[w] = None \/ ~Active(row[w]) \/ (stage = "mark" /\ w0 = w))
    /\ []<>(~legacy[w] \/ tried[w] = 0)
=============================================================================
