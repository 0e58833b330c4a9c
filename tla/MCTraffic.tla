------------------------------ MODULE MCTraffic ------------------------------
EXTENDS TrafficManager, TLC

(* A node that sends packets of one or two flits to another.               *)
MCBase == [nodes |-> 2, classes |-> 1, subnets |-> 1, vcs |-> 1, room |-> 1, pri |-> (0 :> 0), hold |-> FALSE,
           rw |-> {}, draws |-> Requests, dests |-> (0 :> {1}) @@ (1 :> {}), size |-> [t \in Types |-> {1, 2}],
           range |-> [t \in Types |-> <<0, 0>>], subnet |-> [t \in Types |-> 0],
           latency |-> TRUE, queuing |-> TRUE, sims |-> 2, batch |-> 0, batches |-> 0, outstanding |-> 0]
MCSingle == {MCBase, [MCBase EXCEPT !.latency = FALSE, !.queuing = FALSE]}

(* Two classes share the VCs of a port.                                    *)
MCClasses ==
  {[MCBase EXCEPT !.nodes = 1, !.dests = (0 :> {0}), !.classes = 2, !.pri = (0 :> 0) @@ (1 :> 0), !.vcs = 2,
                  !.range = [t \in Types |-> <<0, 1>>], !.hold = h, !.sims = 1, !.batch = 4, !.batches = 1] :
     h \in BOOLEAN}

(* Requests and replies: of batches between two nodes, and in a measured   *)
(* simulation on a subnet each.                                            *)
MCReplies == [MCBase EXCEPT !.rw = {0}, !.size = [t \in Types |-> {1}], !.sims = 1]
MCBatches ==
  {[MCReplies EXCEPT !.dests = [n \in 0 .. 1 |-> {1 - n}], !.batch = 1, !.batches = 2, !.outstanding = 1],
   [MCBase EXCEPT !.dests = [n \in 0 .. 1 |-> {1 - n}], !.sims = 1, !.batch = 2, !.batches = 2, !.outstanding = 1]}
MCSubnets ==
  {[MCReplies EXCEPT !.draws = {"read_request"}, !.nodes = 1, !.dests = (0 :> {0}), !.subnets = 2,
                     !.subnet = [t \in Types |-> IF t \in Replies THEN 1 ELSE 0]]}

MCConfigs == MCSingle \cup MCClasses \cup MCBatches \cup MCSubnets
=============================================================================
