---------------------------- MODULE BufferState ----------------------------
(***************************************************************************)
(* BufferState (buffer_state.cpp): the sender's picture of the buffer at   *)
(* the far end of a channel.  A sender (a router output, or a terminal's   *)
(* injection port) takes a VC for a packet, sends its flits while the      *)
(* policy says there is room, and gets the slots back with credits.        *)
(* config is fixed at start-up: the policy and wait_for_tail_credit.       *)
(* Errors the class reports are not guards here: they are the invariants   *)
(* of the modules that use it.                                             *)
(***************************************************************************)
EXTENDS BufferPolicy

VARIABLES config,    \* [policy, waitTail]
          occupancy, \* _occupancy
          vcOcc,     \* _vc_occupancy
          inUse,     \* _in_use_by, reduced to whether it is >= 0
          tailSent,  \* _tail_sent
          lastPid,   \* _last_pid
          p          \* the data of _buffer_policy

stateVars == <<config, occupancy, vcOcc, inUse, tailSent, lastPid, p>>

StateInit(policies) ==
  /\ config \in [policy : policies, waitTail : BOOLEAN]
  /\ occupancy = 0
  /\ vcOcc = [v \in VC |-> 0]
  /\ inUse = [v \in VC |-> FALSE]
  /\ tailSent = [v \in VC |-> FALSE]
  /\ lastPid = [v \in VC |-> -1]
  /\ p = Empty(config.policy)

IsAvailableForAll(v) == TRUE  \* mutant: the VC may be in use

IsAvailableFor(v) == ~inUse[v]
IsFullFor(v) == PolicyIsFullFor(config.policy, p, v, vcOcc[v])

TakeBuffer(v) ==
  /\ inUse' = [inUse EXCEPT ![v] = TRUE]
  /\ tailSent' = [tailSent EXCEPT ![v] = FALSE]
  /\ p' = PolicyTakeBuffer(config.policy, p)
  /\ UNCHANGED <<config, occupancy, vcOcc, lastPid>>

SendingFlit(f) ==
  /\ occupancy' = occupancy + 1
  /\ vcOcc' = [vcOcc EXCEPT ![f.vc] = @ + 1]
  /\ p' = PolicySendingFlit(config.policy, p, f.vc, f.tail, vcOcc[f.vc] + 1)
  /\ tailSent' = [tailSent EXCEPT ![f.vc] = @ \/ f.tail]
  /\ inUse' = [inUse EXCEPT ![f.vc] = @ /\ (f.tail => config.waitTail)]
  /\ lastPid' = [lastPid EXCEPT ![f.vc] = f.pid]
  /\ UNCHANGED config

(* The VCs a credit c releases: under wait_for_tail_credit a VC is given   *)
(* up when the credit of its packet's last flit comes back.                *)
Released(c) == {v \in c : config.waitTail /\ vcOcc[v] = 1 /\ tailSent[v]}

(* A credit names a set of VCs; the order they are visited in is           *)
(* immaterial, as the policies' counters only add and subtract.            *)
ProcessCredit(c) ==
  LET kept(v)  == inUse[v] /\ v \notin Released(c)
      free(v, q) == PolicyFreeSlotFor(config.policy, q, v, ~kept(v), vcOcc[v] = 1)
  IN  /\ occupancy' = occupancy - Cardinality(c)
      /\ vcOcc' = [v \in VC |-> IF v \in c THEN vcOcc[v] - 1 ELSE vcOcc[v]]
      /\ inUse' = [v \in VC |-> kept(v)]
      /\ p' = FoldSet(free, p, c)
      /\ UNCHANGED <<config, tailSent, lastPid>>
=============================================================================
