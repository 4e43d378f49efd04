------------------------- MODULE MCAggregationView -------------------------
(***************************************************************************)
(* Tracks and areas for AggregationView.  One track of each kind the      *)
(* controllers tell apart: a counter track, a slice and an async slice    *)
(* track, a track group (no uri), and a counter track whose trackIds are  *)
(* missing.  The areas select tracks of one controller only, of both, or *)
(* of neither, over two spans.                                             *)
(***************************************************************************)
EXTENDS AggregationView

MCTracks == {"cnt", "sl", "async", "group", "cntNoIds"}

MCTrackInfo ==
  [t \in MCTracks |->
     CASE t = "cnt"      -> [uri |-> TRUE,  kind |-> "counter", ids |-> {1}]
       [] t = "sl"       -> [uri |-> TRUE,  kind |-> "slice",   ids |-> {2}]
       [] t = "async"    -> [uri |-> TRUE,  kind |-> "async",   ids |-> {3}]
       [] t = "group"    -> [uri |-> FALSE, kind |-> "slice",   ids |-> {4}]
       [] t = "cntNoIds" -> [uri |-> TRUE,  kind |-> "counter", ids |-> {}]]

MCAreas ==
  [tracks : {{"cnt"}, {"sl", "async"}, {"group", "cntNoIds"}, {"cnt", "sl"}},
   span : {1, 2}]
=============================================================================
