------------------------------- MODULE VCFifo -------------------------------
(***************************************************************************)
(* What one hop promises: every virtual channel is a queue of its own, in  *)
(* which flits stay in order and are neither lost nor duplicated, and      *)
(* which never holds more than capacity flits.                             *)
(***************************************************************************)
EXTENDS Naturals, Sequences

CONSTANTS VC, Flit

VARIABLES capacity,  \* fixed when the hop is configured
          queue

vars == <<capacity, queue>>

Init == capacity \in Nat /\ queue = [v \in VC |-> <<>>]

Enter(v, f) == /\ Len(queue[v]) < capacity
               /\ queue' = [queue EXCEPT ![v] = Append(@, f)]
               /\ UNCHANGED capacity

Leave(v) == /\ queue[v] # <<>>
            /\ queue' = [queue EXCEPT ![v] = Tail(@)]
            /\ UNCHANGED capacity

Next == \E v \in VC : Leave(v) \/ \E f \in Flit : f.vc = v /\ Enter(v, f)

Safety == Init /\ [][Next]_vars

Spec == Safety /\ \A v \in VC : WF_vars(Leave(v))
=============================================================================
