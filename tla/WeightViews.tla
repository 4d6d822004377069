----------------------------- MODULE WeightViews -----------------------------
(***************************************************************************)
(* What the streaming pipeline promises about its views of the weights:    *)
(* every chunk gets at most one view in the life of the model, the view    *)
(* stays until the model is being closed, and when the views have been     *)
(* shut down none exists and none can appear.                              *)
(***************************************************************************)
CONSTANT Chunks

VARIABLES
  view,     \* view[c]: "fresh", "mapped" or "released"
  closing,  \* close() has begun
  shut      \* the views are shut down

viewVars == <<view, closing, shut>>

Init ==
  /\ view = [c \in Chunks |-> "fresh"]
  /\ closing = FALSE
  /\ shut = FALSE

Map(c) ==
  /\ ~shut
  /\ view[c] = "fresh"
  /\ view' = [view EXCEPT ![c] = "mapped"]
  /\ UNCHANGED <<closing, shut>>

BeginClose ==
  /\ ~closing
  /\ closing' = TRUE
  /\ UNCHANGED <<view, shut>>

Release(c) ==
  /\ closing
  /\ view[c] = "mapped"
  /\ view' = [view EXCEPT ![c] = "released"]
  /\ UNCHANGED <<closing, shut>>

Shutdown ==
  /\ closing
  /\ ~shut
  /\ shut' = TRUE
  /\ view' = [c \in Chunks |-> IF view[c] = "mapped" THEN "released" ELSE view[c]]
  /\ UNCHANGED closing

Next ==
  \/ BeginClose
  \/ Shutdown
  \/ \E c \in Chunks : Map(c) \/ Release(c)

Spec == Init /\ [][Next]_viewVars
=============================================================================
