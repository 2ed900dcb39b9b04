------------------------------ MODULE SearchView ------------------------------
(***************************************************************************)
(* The window's search view over the pages that Search returns.            *)
(*                                                                         *)
(* A call leaves the window with the wiretap and the filters of that       *)
(* moment; it runs some time later on the table of then, and its answer    *)
(* comes back in any order with others.  Meanwhile the user may edit the   *)
(* filters, search again, scroll, or change the wiretap, and loads and     *)
(* retention change the tables.  Nothing tells an old answer from a new    *)
(* one.                                                                    *)
(*                                                                         *)
(* A filter is the set of rows it matches; rows with no time come last.    *)
(***************************************************************************)
EXTENDS Integers, Sequences, FiniteSets, FiniteSetsExt, SequencesExt

CONSTANTS Wiretap, Row,
          TimeOf,     \* per row its time, 0 for none
          Filters,    \* the sets of rows a form of filters may match
          PageSize,
          MaxCalls,   \* bounds the calls under way
          MaxChanges, \* bounds the changes of tables and wiretap
          None

ASSUME PageAssumption == PageSize \in Nat \ {0} /\ MaxCalls \in Nat /\ MaxChanges \in Nat
ASSUME RowAssumption  == IsFiniteSet(Row) /\ TimeOf \in [Row -> Nat] /\ Filters \subseteq SUBSET Row

VARIABLES
  tables,       \* per wiretap its rows
  current,      \* currentWiretapId, None before one is selected
  form,         \* what the filters in the form match
  shown,        \* the rows of the results table, each with its wiretap
  currentOffset, hasMoreResults, loadingMore,
  calls,        \* the calls under way, and what each has found
  searched,     \* history: the form when the view was last searched
  calm,         \* history: nothing has interfered since then
  late,         \* history: the wiretaps of the calls under way when the view was last
                \* searched, or the wiretap changed
  changes

view    == <<shown, currentOffset, hasMoreResults>>
history == <<searched, calm, late>>
vars    == <<tables, current, form, view, loadingMore, calls, history, changes>>

Pages == [rows : Seq(Row), hasMore : BOOLEAN]
Calls == [more : BOOLEAN, wiretap : Wiretap, filter : Filters, offset : Nat]

TypeOK ==
  /\ tables \in [Wiretap -> SUBSET Row] /\ current \in Wiretap \cup {None}
  /\ form \in Filters /\ searched \in Filters
  /\ shown \in Seq(Wiretap \X Row) /\ currentOffset \in Nat
  /\ {hasMoreResults, loadingMore, calm} \subseteq BOOLEAN /\ late \subseteq Wiretap
  /\ calls \subseteq [call : Calls, page : {None} \cup Pages, n : 0..MaxCalls]
  /\ IsFiniteSet(calls) /\ Cardinality(calls) <= MaxCalls
  /\ changes \in 0..MaxChanges

Init ==
  /\ tables \in [Wiretap -> {Row}] /\ current = None /\ form \in Filters
  /\ shown = <<>> /\ currentOffset = 0 /\ hasMoreResults = FALSE /\ loadingMore = FALSE
  /\ calls = {} /\ searched = form /\ calm = FALSE /\ late = {} /\ changes = 0

-----------------------------------------------------------------------------
(* Search: ORDER BY "time" DESC, one row more than a page. *)

\* The orders the query may give; rows of one time come in any.
Orders(S) == {q \in SetToSeqs(S) : \A i, j \in DOMAIN q : i < j => TimeOf[q[i]] >= TimeOf[q[j]]}

\* Variant: the row after the page is not asked for.
PageExact(q, offset) ==
  LET rows == SubSeq(q, offset + 1, Min({offset + PageSize, Len(q)}))
  IN  [rows |-> rows, hasMore |-> Len(rows) > PageSize]

Page(q, offset) ==
  LET rows == SubSeq(q, offset + 1, Min({offset + PageSize + 1, Len(q)}))
  IN  [rows |-> SubSeq(rows, 1, Min({Len(rows), PageSize})), hasMore |-> Len(rows) > PageSize]

Run(c) ==
  /\ c.page = None
  /\ \E q \in Orders(tables[c.call.wiretap] \cap c.call.filter) :
       calls' = (calls \ {c}) \cup {[c EXCEPT !.page = Page(q, c.call.offset)]}
  /\ UNCHANGED <<tables, current, form, view, loadingMore, history, changes>>

\* The next call's number tells two equal calls apart.
Ask(call) == calls' = calls \cup
  {[call |-> call, page |-> None, n |-> CHOOSE n \in 0..MaxCalls : \A c \in calls : c.n # n]}

-----------------------------------------------------------------------------
(* The window's handlers. *)

\* The wiretaps that calls under way ask about.
Asked == {c.call.wiretap : c \in calls}

\* Variant: the rows of the wiretap before stay until the next search.
ChangeWiretapKeeps(w) ==
  /\ w # current /\ changes < MaxChanges /\ changes' = changes + 1
  /\ current' = w
  /\ IF w = None THEN UNCHANGED form ELSE form' \in Filters
  /\ calm' = FALSE
  /\ late' = Asked
  /\ UNCHANGED <<tables, view, loadingMore, calls, searched>>

\* onWiretapChange; selecting none only hides the view.
ChangeWiretap(w) ==
  /\ w # current /\ changes < MaxChanges /\ changes' = changes + 1
  /\ current' = w
  /\ IF w = None THEN UNCHANGED <<form, view>>
     ELSE /\ shown' = <<>> /\ currentOffset' = 0 /\ hasMoreResults' = FALSE
          /\ form' \in Filters
  /\ calm' = FALSE
  /\ late' = Asked
  /\ UNCHANGED <<tables, loadingMore, calls, searched>>

EditFilters ==
  /\ current # None /\ form' \in Filters \ {form}
  /\ UNCHANGED <<tables, current, view, loadingMore, calls, history, changes>>

\* Variant: a new search forgets that a page is being loaded.
SearchResets ==
  /\ current # None /\ Cardinality(calls) < MaxCalls
  /\ shown' = <<>> /\ currentOffset' = 0 /\ hasMoreResults' = FALSE /\ loadingMore' = FALSE
  /\ Ask([more |-> FALSE, wiretap |-> current, filter |-> form, offset |-> 0])
  /\ searched' = form /\ calm' = (calls = {})
  /\ late' = Asked
  /\ UNCHANGED <<tables, current, form, changes>>

\* onSearch up to its await.
Search ==
  /\ current # None /\ Cardinality(calls) < MaxCalls
  /\ shown' = <<>> /\ currentOffset' = 0 /\ hasMoreResults' = FALSE
  /\ Ask([more |-> FALSE, wiretap |-> current, filter |-> form, offset |-> 0])
  /\ searched' = form /\ calm' = (calls = {})
  /\ late' = Asked
  /\ UNCHANGED <<tables, current, form, loadingMore, changes>>

\* loadMoreResults up to its await, with the form as it is now.
Scroll ==
  /\ current # None /\ ~loadingMore /\ hasMoreResults /\ Cardinality(calls) < MaxCalls
  /\ loadingMore' = TRUE
  /\ Ask([more |-> TRUE, wiretap |-> current, filter |-> form, offset |-> currentOffset])
  /\ calm' = (calm /\ form = searched)
  /\ UNCHANGED <<tables, current, form, view, searched, late, changes>>

Shown(c) == [i \in DOMAIN c.page.rows |-> <<c.call.wiretap, c.page.rows[i]>>]

\* Variant: every answer sets the offset, as onSearch's does.
AnswerSets(c) ==
  /\ c.page # None /\ calls' = calls \ {c}
  /\ shown' = shown \o Shown(c) /\ hasMoreResults' = c.page.hasMore
  /\ currentOffset' = Len(c.page.rows)
  /\ loadingMore' = (loadingMore /\ ~c.call.more)
  /\ UNCHANGED <<tables, current, form, history, changes>>

\* The rest of onSearch and of loadMoreResults.
Answer(c) ==
  /\ c.page # None /\ calls' = calls \ {c}
  /\ shown' = shown \o Shown(c) /\ hasMoreResults' = c.page.hasMore
  /\ currentOffset' = Len(c.page.rows) + (IF c.call.more THEN currentOffset ELSE 0)
  /\ loadingMore' = (loadingMore /\ ~c.call.more)
  /\ UNCHANGED <<tables, current, form, history, changes>>

\* Variant: the page that failed is still being loaded.
FailStays(c) ==
  /\ calls' = calls \ {c}
  /\ UNCHANGED <<tables, current, form, view, loadingMore, history, changes>>

\* The call fails: only loadMoreResults has something to undo.
Fail(c) ==
  /\ calls' = calls \ {c}
  /\ loadingMore' = (loadingMore /\ ~c.call.more)
  /\ UNCHANGED <<tables, current, form, view, history, changes>>

\* A load or retention changes a table under the view.
ChangeTable(w, r) ==
  /\ changes < MaxChanges /\ changes' = changes + 1
  /\ tables' = [tables EXCEPT ![w] = IF r \in @ THEN @ \ {r} ELSE @ \cup {r}]
  /\ calm' = (calm /\ w # current)
  /\ UNCHANGED <<current, form, view, loadingMore, calls, searched, late>>

Next ==
  \/ Search \/ Scroll \/ EditFilters
  \/ \E w \in Wiretap \cup {None} : ChangeWiretap(w)
  \/ \E w \in Wiretap, r \in Row : ChangeTable(w, r)
  \/ \E c \in calls : Run(c) \/ Answer(c) \/ Fail(c)

\* A query ends, and its answer, or its error, comes back.
Fairness == WF_vars(\E c \in calls : c.call.more /\ Run(c))
            /\ WF_vars(\E c \in calls : c.call.more /\ (Answer(c) \/ Fail(c)))
Spec     == Init /\ [][Next]_vars /\ Fairness

-----------------------------------------------------------------------------
(* A page is being loaded exactly while its call is under way, and it is    *)
(* the only one: whatever is searched or selected meanwhile, the view never *)
(* waits for a page nobody loads, nor loads one twice (loadMoreResults).    *)
PageLoading ==
  /\ loadingMore <=> \E c \in calls : c.call.more
  /\ \A c, d \in calls : c.call.more /\ d.call.more => c = d

(* No two calls are taken for one.                                          *)
Numbered == \A c, d \in calls : c.n = d.n => c = d

(* A call under way asks about the selected wiretap, or was under way when  *)
(* the view was last searched or the wiretap changed.                       *)
OwnCalls == current # None => Asked \subseteq {current} \cup late

(* With nothing interfering, the view shows the newest rows that match,     *)
(* each once, page after page, and its offset is how many they are          *)
(* (onSearch, loadMoreResults).  Interfering are: another search or wiretap *)
(* before the answer, an edited form, a change of the table, equal times:   *)
(* without those, the rows that match have one order only.                  *)
Matching   == tables[current] \cap searched
Distinct   == \A r, s \in Matching : r # s => TimeOf[r] # TimeOf[s]
Settled    == current # None /\ calm /\ Distinct
Newest(q)  == Len(shown) <= Len(q) /\ \A i \in DOMAIN shown : shown[i] = <<current, q[i]>>
PagesRight == Settled => currentOffset = Len(shown) /\ \A q \in Orders(Matching) : Newest(q)

(* "End of results." stands under all of them (updateScrollStatus).         *)
EndMeansAll ==
  Settled /\ currentOffset > 0 /\ ~hasMoreResults /\ ~loadingMore => Len(shown) = Cardinality(Matching)

(* Then at most one call is under way, for the rows that come next, and its *)
(* page is theirs; more are asked for only after a page with more.          *)
NextPage(c) ==
  /\ c.call = [more |-> hasMoreResults, wiretap |-> current, filter |-> searched, offset |-> currentOffset]
  /\ ~c.call.more => currentOffset = 0
  /\ c.page # None => \E q \in Orders(Matching) : c.page = Page(q, currentOffset)
Paging ==
  Settled => /\ currentOffset = Len(shown) /\ \A q \in Orders(Matching) : Newest(q)
             /\ \A c \in calls : NextPage(c) /\ calls = {c}
             /\ currentOffset > 0 /\ ~hasMoreResults => Len(shown) = Cardinality(Matching)

ViewInv == TypeOK /\ PageLoading /\ Numbered /\ OwnCalls /\ Paging

(* A row shown is of the selected wiretap, so that the line fetched for it  *)
(* is its own (toggleExpandRow), or of a wiretap whose call was under way   *)
(* when the view was cleared: only such a late answer, which onSearch and   *)
(* loadMoreResults append whatever is selected by then, shows other rows.   *)
OwnRows == current # None => \A i \in DOMAIN shown : shown[i][1] \in {current} \cup late

(* The view does not stay at "Loading more…" (loadMoreResults' finally).    *)
LoadingEnds == loadingMore ~> ~loadingMore
===============================================================================
