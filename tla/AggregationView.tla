--------------------------- MODULE AggregationView ---------------------------
(***************************************************************************)
(* createAggregateView of the counter and slice aggregation controllers   *)
(* (src/ui/src/controller/aggregation/counter_aggregation_controller.ts). *)
(*                                                                         *)
(* Each call drops the controller's view, awaits, selects the area's      *)
(* track ids of the controller's track kinds, returns false when there    *)
(* are none, and otherwise creates the view and awaits again.  A call is   *)
(* split at its awaits: one action up to and including each engine.query, *)
(* one for the code after it.  The engine is not in this tree; it is       *)
(* taken to run one query at a time in the order they were issued, so a   *)
(* query changes the database at the step that issues it.  SQL text is     *)
(* abstracted to the track ids and area span the view is made from.        *)
(*                                                                         *)
(* The caller (AggregationController) is not in this tree either: it may  *)
(* let up to MaxPending calls per controller be in flight at once.         *)
(***************************************************************************)
EXTENDS Integers, Sequences, FiniteSets

CONSTANTS
  Controllers,  \* the controllers, each with its own view named this.kind
  Tracks,       \* the keys of globals.state.tracks an area can name
  TrackInfo,    \* TrackInfo[t]: [uri, kind, ids]; uri FALSE: no uri (a group)
  Areas,        \* the areas the caller can pass: [tracks, span]
  MaxCalls,     \* bound on createAggregateView calls per controller
  MaxPending    \* calls of one controller the caller lets overlap

\* Each controller is one of the two classes of the file; the caller makes
\* at least one call and lets at least one be in flight.
ASSUME Controllers \subseteq {"counter", "slice"}
ASSUME {MaxCalls, MaxPending} \subseteq Nat \ {0}

VARIABLES
  view,   \* view[c]: NoView, or the ids and span the view c was created from
  calls   \* calls[c]: every call of controller c so far, as [area, pc]

vars == <<view, calls>>

NoView == [ids |-> {}, span |-> 0]

\* The loop of counter createAggregateView: tracks that have a uri and
\* resolve to a counter track contribute their trackIds.
CounterTrackIds(area) ==
  UNION {TrackInfo[t].ids : t \in {t \in area.tracks :
           TrackInfo[t].uri /\ TrackInfo[t].kind = "counter"}}

\* getSelectedTrackIds: tracks with a uri that resolve to a slice or an
\* async slice track contribute their trackIds.
SelectedTrackIds(area) ==
  UNION {TrackInfo[t].ids : t \in {t \in area.tracks :
           TrackInfo[t].uri /\ TrackInfo[t].kind \in {"slice", "async"}}}

TrackIdsOf(c, area) ==
  IF c = "counter" THEN CounterTrackIds(area) ELSE SelectedTrackIds(area)

\* The view a create query makes: its track ids and the area's span.
ViewOf(c, area) == [ids |-> TrackIdsOf(c, area), span |-> area.span]

Pending(c) == {i \in DOMAIN calls[c] : calls[c][i].pc \in {"drop", "create"}}

CallStates == {"drop", "create", "true", "false", "rejected"}

\* Types; a view that exists was made from at least one track id.
TypeOK ==
  /\ view \in [Controllers -> {NoView} \cup
                 [ids : SUBSET UNION {TrackInfo[t].ids : t \in Tracks} \ {{}},
                  span : {a.span : a \in Areas}]]
  /\ calls \in [Controllers -> Seq([area : Areas, pc : CallStates])]

Init ==
  /\ view = [c \in Controllers |-> NoView]
  /\ calls = [c \in Controllers |-> <<>>]

\* Mutant: the call creates without dropping the old view first.
CallNoDrop(c, area) ==
  /\ Len(calls[c]) < MaxCalls
  /\ Cardinality(Pending(c)) < MaxPending
  /\ calls' = [calls EXCEPT ![c] = Append(@, [area |-> area, pc |-> "drop"])]
  /\ UNCHANGED view

\* The caller calls createAggregateView(engine, area), which issues
\* "drop view if exists" and awaits it.
Call(c, area) ==
  /\ Len(calls[c]) < MaxCalls
  /\ Cardinality(Pending(c)) < MaxPending
  /\ view' = [view EXCEPT ![c] = NoView]
  /\ calls' = [calls EXCEPT ![c] = Append(@, [area |-> area, pc |-> "drop"])]

\* Mutant: the empty-selection early return is dropped.
AfterDropNoEarlyReturn(c, i) ==
  /\ calls[c][i].pc = "drop"
  /\ LET area == calls[c][i].area IN
       IF view[c] = NoView
       THEN /\ view' = [view EXCEPT ![c] = ViewOf(c, area)]
            /\ calls' = [calls EXCEPT ![c][i].pc = "create"]
       ELSE /\ calls' = [calls EXCEPT ![c][i].pc = "rejected"]
            /\ UNCHANGED view

\* The drop has completed: select the track ids, return false if there
\* are none, otherwise issue "create view" and await it.  The create fails
\* if the view exists, and the await then throws.
AfterDrop(c, i) ==
  /\ calls[c][i].pc = "drop"
  /\ LET area == calls[c][i].area
         ids  == TrackIdsOf(c, area)
     IN  CASE ids = {} ->
              /\ calls' = [calls EXCEPT ![c][i].pc = "false"]
              /\ UNCHANGED view
         [] ids # {} /\ view[c] = NoView ->
              /\ view' = [view EXCEPT ![c] = ViewOf(c, area)]
              /\ calls' = [calls EXCEPT ![c][i].pc = "create"]
         [] ids # {} /\ view[c] # NoView ->
              /\ calls' = [calls EXCEPT ![c][i].pc = "rejected"]
              /\ UNCHANGED view

\* The create has completed: return true.
AfterCreate(c, i) ==
  /\ calls[c][i].pc = "create"
  /\ calls' = [calls EXCEPT ![c][i].pc = "true"]
  /\ UNCHANGED view

Next ==
  \E c \in Controllers :
    \/ \E area \in Areas : Call(c, area)
    \/ \E i \in DOMAIN calls[c] : AfterDrop(c, i) \/ AfterCreate(c, i)

Spec == Init /\ [][Next]_vars /\ WF_vars(Next)

(***************************************************************************)
(* Properties.                                                             *)
(***************************************************************************)
\* Once no call of a controller is in flight, its view is the one its
\* caller's last area gives: none when the area has no tracks of the
\* controller's kinds, since createAggregateView drops the view before it
\* returns false, and otherwise the view of that area's ids and span.
\* Breaking it takes a drop that is skipped, a create or an early return
\* that is lost, or two calls whose drop and create steps interleave.
ViewMatchesLastArea ==
  \A c \in Controllers :
    (calls[c] # <<>> /\ Pending(c) = {}) =>
      LET last == calls[c][Len(calls[c])].area IN
        view[c] = IF TrackIdsOf(c, last) = {} THEN NoView ELSE ViewOf(c, last)

=============================================================================
