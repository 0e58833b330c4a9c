------------------------------ MODULE MCRouter ------------------------------
EXTENDS Router

MCBase == [inputs |-> 2, outputs |-> 1, vcs |-> 1, mode |-> "plain", hold |-> FALSE,
           routing |-> 1, vca |-> 1, swa |-> 1, crossbar |-> 1,
           lanesIn |-> 1, lanesOut |-> 1, outBufSize |-> -1]

(* Two inputs compete for the one VC of an output.                         *)
MCContended ==
  {[MCBase EXCEPT !.mode = m, !.hold = h] : m \in Modes, h \in BOOLEAN}
  \cup {[MCBase EXCEPT !.mode = m, !.hold = TRUE, !.vca = 2, !.swa = 2, !.routing = 0] : m \in Modes}

(* Pipelined allocation of either kind, several lanes per output, a bound  *)
(* on the output buffers.                                                  *)
MCDelayed ==
  {[MCBase EXCEPT !.vca = 2, !.hold = TRUE], [MCBase EXCEPT !.swa = 2, !.hold = TRUE],
   [MCBase EXCEPT !.mode = "spec", !.swa = 2], [MCBase EXCEPT !.lanesOut = 2, !.crossbar = 2],
   [MCBase EXCEPT !.lanesOut = 2, !.outBufSize = 1],
   [MCBase EXCEPT !.lanesOut = 2, !.outBufSize = 1, !.hold = TRUE]}
  \cup {[MCBase EXCEPT !.mode = m, !.lanesOut = 2, !.hold = TRUE] : m \in {"spec", "prio"}}

(* Two VCs share a port of the switch, or have a lane each.                *)
MCShared ==
  {[MCBase EXCEPT !.inputs = 1, !.vcs = 2, !.mode = m, !.hold = TRUE] : m \in {"prio", "piggyback"}}
  \cup {[MCBase EXCEPT !.inputs = 1, !.vcs = 2, !.lanesIn = 2, !.lanesOut = 2]}

(* Packets that may take either output.                                    *)
MCAdaptive == {[MCBase EXCEPT !.outputs = 2, !.mode = m] : m \in {"spec", "prio", "piggyback"}}

MCSafe == MCContended \cup MCDelayed \cup MCShared \cup MCAdaptive
MCFair == {[MCBase EXCEPT !.mode = m, !.hold = (m # "spec")] : m \in Modes}

(* Two lanes per output, and the VC chosen only when the grant is used.    *)
MCRace == {[MCBase EXCEPT !.mode = "piggyback", !.lanesOut = 2]}
=============================================================================
