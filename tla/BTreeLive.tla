----------------------------- MODULE BTreeLive -----------------------------
(***************************************************************************)
(* The B+ tree with the one assumption its liveness needs: the thread that  *)
(* is inside a call keeps running.  clock flips at every step, so that a    *)
(* step of find that changes nothing (it takes the same node again, for     *)
(* ever) counts as running, not as standing still.                          *)
(***************************************************************************)
EXTENDS BTreeRefine

VARIABLE clock

Ticks == clock' = 1 - clock

LiveInit == RefineInit /\ clock = 0

\* A step of the call, or an idle step while there is no call.
LiveNext == \/ RefineNext /\ Ticks
            \/ pc = "idle" /\ Ticks /\ UNCHANGED <<vars, committed>>

\* Weak fairness: the thread is scheduled again and again, whatever it is doing.
LiveSpec == LiveInit /\ [][LiveNext]_<<vars, committed, clock>> /\ WF_clock(Ticks)

\* Every call returns: find reaches a leaf, the loops end, and the recursions of
\* insert_in_parent and deleteInnerNode reach the root (insert, erase, get).
CallsReturn == pc # "idle" ~> pc = "idle"
=============================================================================
