----------------------------- MODULE NocService -----------------------------
(***************************************************************************)
(* What the simulated network promises to the design connected to it:      *)
(* every flit accepted at a port is presented once, at the port it is for, *)
(* and flits from one port to another on one virtual channel stay in       *)
(* order.  A port takes and presents at most one flit per clock cycle.     *)
(***************************************************************************)
EXTENDS Naturals, Sequences, Functions

CONSTANT Ports

VARIABLES sent,     \* every flit accepted, [src, dest, vc, ...], in order
          received  \* the numbers of the flits presented at each port, in order

vars == <<sent, received>>

Init == sent = <<>> /\ received = [d \in Ports |-> <<>>]

Accept == /\ Len(sent) <= Len(sent') /\ SubSeq(sent', 1, Len(sent)) = sent
          /\ \A i, j \in Len(sent) + 1 .. Len(sent') : sent'[i].src = sent'[j].src => i = j
          /\ UNCHANGED received

SameStream(f, g) == f.src = g.src /\ f.dest = g.dest /\ f.vc = g.vc

(* The flits that may be presented next at port d. *)
Deliverable(d) ==
  {i \in DOMAIN sent : /\ sent[i].dest = d /\ i \notin Range(received[d])
                       /\ \A j \in 1 .. i - 1 :
                            SameStream(sent[i], sent[j]) => j \in Range(received[d])}

Present == /\ \A d \in Ports : \/ received'[d] = received[d]
                               \/ \E i \in Deliverable(d) : received'[d] = Append(received[d], i)
           /\ UNCHANGED sent

Next == Accept \/ Present

Spec == Init /\ [][Next]_vars
=============================================================================
