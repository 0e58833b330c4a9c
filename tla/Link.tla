-------------------------------- MODULE Link --------------------------------
(***************************************************************************)
(* One hop of the network under credit-based flow control: a sender with   *)
(* its BufferState, the flit channel, the receiver's Buffer of VCs         *)
(* (buffer.cpp, vc.cpp) and the credit channel back.  Every cycle has two  *)
(* phases, as Network::ReadInputs, Evaluate and WriteOutputs order them:   *)
(*   "read"      both channels and both ends read their inputs;            *)
(*   "evaluate"  the ends act, then everything writes its outputs.         *)
(* What the sender has to send and when the receiver can forward are left  *)
(* open: any router, allocator or terminal may stand at either end.        *)
(***************************************************************************)
EXTENDS BufferState

CONSTANTS FlitDelay, CreditDelay,  \* latencies of the two channels
          TestedPolicies,          \* the buffer_policy values of the run
          NoItem

ASSUME LinkAssumption == /\ FlitDelay \in Nat \ {0} /\ CreditDelay \in Nat \ {0}
                         /\ TestedPolicies \subseteq Policies

VARIABLES pid,                 \* id of the packet that last took each VC
          fIn, fWait, fOut,    \* the flit channel
          cIn, cWait, cOut,    \* the credit channel
          buf,                 \* Buffer::_vc[v]->_buffer
          bufOcc,              \* Buffer::_occupancy
          expected,            \* VC::_expected_pid
          phase

(* Packet ids: successive packets of a VC differ, which is all the         *)
(* contiguity check can see; -1 is `no packet expected'.                   *)
Pid == 0..1
Flit == [vc : VC, pid : Pid, tail : BOOLEAN]
Credit == [vc : (SUBSET VC) \ {{}}]

ASSUME NoItemAssumption == NoItem \notin Flit /\ NoItem \notin Credit

Flits == INSTANCE Channel WITH Item <- Flit, Delay <- FlitDelay,
                               input <- fIn, wait <- fWait, output <- fOut
Credits == INSTANCE Channel WITH Item <- Credit, Delay <- CreditDelay,
                                 input <- cIn, wait <- cWait, output <- cOut

flitVars == <<fIn, fWait, fOut>>
creditVars == <<cIn, cWait, cOut>>
bufferVars == <<buf, bufOcc, expected>>
vars == <<stateVars, pid, flitVars, creditVars, bufferVars, phase>>

Init == /\ StateInit(TestedPolicies)
        /\ pid = [v \in VC |-> 0]
        /\ Flits!Init /\ Credits!Init
        /\ buf = [v \in VC |-> <<>>]
        /\ bufOcc = 0
        /\ expected = [v \in VC |-> -1]
        /\ phase = "read"

-----------------------------------------------------------------------------
(* Buffer::AddFlit and VC::AddFlit. *)
AddFlitExpectingNext(f) ==  \* mutant: a tail makes the VC expect the next packet's id
  /\ buf' = [buf EXCEPT ![f.vc] = Append(@, f)]
  /\ bufOcc' = bufOcc + 1
  /\ expected' = [expected EXCEPT ![f.vc] = IF f.tail THEN f.pid + 1 ELSE f.pid]

AddFlit(f) ==
  /\ buf' = [buf EXCEPT ![f.vc] = Append(@, f)]
  /\ bufOcc' = bufOcc + 1
  /\ expected' = [expected EXCEPT ![f.vc] = IF f.tail THEN -1 ELSE f.pid]

ReadInputs ==
  /\ phase = "read" /\ phase' = "evaluate"
  /\ IF Flits!Receive = NoItem THEN UNCHANGED bufferVars ELSE AddFlit(Flits!Receive)
  /\ IF Credits!Receive = NoItem THEN UNCHANGED stateVars
                                 ELSE ProcessCredit(Credits!Receive.vc)
  /\ Flits!ReadInputs /\ Credits!ReadInputs
  /\ UNCHANGED <<pid, fOut, cOut>>

(* The sender gives VC v to its next packet (VC allocation). *)
AllocateVC(v) ==
  /\ phase = "evaluate" /\ IsAvailableFor(v)
  /\ TakeBuffer(v)
  /\ pid' = [pid EXCEPT ![v] = 1 - @]
  /\ UNCHANGED <<flitVars, creditVars, bufferVars, phase>>

(* The sender sends the next flit of the packet that holds VC v; one flit  *)
(* crosses the switch to an output per cycle.                              *)
SendFlit(v, tail) ==
  /\ phase = "evaluate" /\ inUse[v] /\ ~tailSent[v] /\ fIn = NoItem
  /\ ~IsFullFor(v)
  /\ LET f == [vc |-> v, pid |-> pid[v], tail |-> tail]
     IN  SendingFlit(f) /\ Flits!Send(f)
  /\ UNCHANGED <<pid, fWait, fOut, creditVars, bufferVars, phase>>

RemoveFlitNewCredit(v) ==  \* mutant: a fresh credit for every flit forwarded
  /\ phase = "evaluate" /\ buf[v] # <<>>
  /\ cIn # NoItem => v \notin cIn.vc
  /\ buf' = [buf EXCEPT ![v] = Tail(@)]
  /\ bufOcc' = bufOcc - 1
  /\ Credits!Send([vc |-> {v}])
  /\ UNCHANGED <<stateVars, pid, flitVars, cWait, cOut, expected, phase>>

(* The receiver forwards the front flit of VC v and adds v to the credit   *)
(* of this cycle, which is one per input and holds each VC once.           *)
RemoveFlit(v) ==
  /\ phase = "evaluate" /\ buf[v] # <<>>
  /\ cIn # NoItem => v \notin cIn.vc
  /\ buf' = [buf EXCEPT ![v] = Tail(@)]
  /\ bufOcc' = bufOcc - 1
  /\ Credits!Send([vc |-> IF cIn = NoItem THEN {v} ELSE cIn.vc \cup {v}])
  /\ UNCHANGED <<stateVars, pid, flitVars, cWait, cOut, expected, phase>>

WriteOutputs ==
  /\ phase = "evaluate" /\ phase' = "read"
  /\ Flits!WriteOutputs /\ Credits!WriteOutputs
  /\ p' = Older(p)
  /\ UNCHANGED <<config, occupancy, vcOcc, inUse, tailSent, lastPid, pid, fIn, cIn, bufferVars>>

Next == \/ ReadInputs
        \/ \E v \in VC : AllocateVC(v)
        \/ \E v \in VC, tail \in BOOLEAN : SendFlit(v, tail)
        \/ \E v \in VC : RemoveFlit(v)
        \/ WriteOutputs

(* The simulation loop runs the phases of every cycle, and a receiver that *)
(* is offered a flit again and again forwards it at last.  Nothing makes a *)
(* sender send.                                                            *)
Fairness == /\ WF_vars(ReadInputs) /\ WF_vars(WriteOutputs)
            /\ \A v \in VC : SF_vars(RemoveFlit(v))

Spec == Init /\ [][Next]_vars
FairSpec == Spec /\ Fairness
-----------------------------------------------------------------------------
(* What is under way on the two channels.  In the evaluate phase a channel *)
(* still shows the item that its reader has already taken.                 *)
FlitsFor(v)   == {f \in Flit : f.vc = v}
CreditsFor(v) == {c \in Credit : v \in c.vc}

CountOne(x, S) == IF x \in S THEN 1 ELSE 0
CountItems(q, S) == Cardinality({i \in DOMAIN q : q[i].item \in S})
CountChannel(in, wait, out, S) ==
  CountOne(in, S) + CountItems(wait, S) + IF phase = "read" THEN CountOne(out, S) ELSE 0

(* The flits under way, the oldest first, and those of one VC among them. *)
InFlight == (IF phase = "evaluate" \/ fOut = NoItem THEN <<>> ELSE <<fOut>>) \o Flits!Pending

OnVC(q, v) ==
  LET kept[i \in 0 .. Len(q)] ==
        IF i = 0 THEN <<>> ELSE kept[i - 1] \o (IF q[i].vc = v THEN <<q[i]>> ELSE <<>>)
  IN  kept[Len(q)]

FlitsOf(v) == OnVC(InFlight, v)

TypeOK ==
  /\ config \in [policy : TestedPolicies, waitTail : BOOLEAN]
  /\ occupancy \in Int /\ vcOcc \in [VC -> Int]
  /\ inUse \in [VC -> BOOLEAN] /\ tailSent \in [VC -> BOOLEAN]
  /\ lastPid \in [VC -> Pid \cup {-1}]
  /\ pid \in [VC -> Pid]
  /\ Flits!TypeOK /\ Credits!TypeOK
  /\ buf \in [VC -> Seq(Flit)] /\ bufOcc \in Int
  /\ expected \in [VC -> Pid \cup {-1}]
  /\ phase \in {"read", "evaluate"}

(***************************************************************************)
(* Every slot the sender believes taken is accounted for: by a flit under  *)
(* way, a flit in the buffer, or a credit on its way back.  A credit lost, *)
(* merged or returned twice breaks it for good (BufferState::SendingFlit,  *)
(* ProcessCredit, Channel::Send, the credit assembled in the router).      *)
(***************************************************************************)
CreditConservation ==
  \A v \in VC : vcOcc[v] = CountChannel(fIn, fWait, fOut, FlitsFor(v)) + Len(buf[v])
                           + CountChannel(cIn, cWait, cOut, CreditsFor(v))

(* A queue that WriteOutputs can empty without meeting an item after its   *)
(* time (its assertion GetSimTime() == time): one item for each due time.  *)
OnTime(wait, delay) ==
  /\ \A i \in DOMAIN wait :
       wait[i].due \in 0 .. (IF phase = "read" THEN delay - 2 ELSE delay - 1)
  /\ \A i, j \in DOMAIN wait : i < j => wait[i].due < wait[j].due

(***************************************************************************)
(* No error is ever reported for a virtual channel: its occupancy stays    *)
(* above zero and, when its slots are private, within them at both ends    *)
(* ("Buffer overflow for VC", "Buffer occupancy fell below zero for VC");  *)
(* under wait_for_tail_credit no credit comes back for an idle VC; and no  *)
(* item of a channel is found after its time (Channel::WriteOutputs).      *)
(***************************************************************************)
NoVCError ==
  /\ \A v \in VC :
       /\ vcOcc[v] >= 0
       /\ config.policy = "private" => vcOcc[v] <= VcBufSize /\ Len(buf[v]) <= VcBufSize
       /\ config.waitTail /\ vcOcc[v] > 0 => inUse[v]
  /\ OnTime(fWait, FlitDelay) /\ OnTime(cWait, CreditDelay)

(***************************************************************************)
(* Nor for the buffer as a whole, under any policy ("Flit buffer           *)
(* overflow.", "Buffer overflow.", "Shared buffer overflow.", the counts   *)
(* that fall below zero, "Number of active VCs is too large.").            *)
(***************************************************************************)
NoBufferError ==
  /\ bufOcc = SumFunctionOnSet([v \in VC |-> Len(buf[v])], VC) /\ bufOcc <= BufSize
  /\ occupancy = SumFunctionOnSet(vcOcc, VC) /\ occupancy <= BufSize
  /\ p.shared \in 0..SharedSize
  /\ \A i \in Partition : p.private[i] >= 0
  /\ p.active \in 0..NumVCs /\ p.held > 0

(***************************************************************************)
(* The flits of a packet are not interleaved with another packet's on      *)
(* their VC, whether a VC is given up with the tail or with its credit:    *)
(* VC::AddFlit never meets an unexpected packet id.                        *)
(***************************************************************************)
PacketsContiguous ==
  \A v \in VC : FlitsOf(v) # <<>> /\ expected[v] # -1
                  => Head(FlitsOf(v)).pid = expected[v]

(***************************************************************************)
(* The counters of the shared policies are what the occupancies make them: *)
(* a partition holds the flits of its VCs and the slots reserved for them, *)
(* the shared space holds what exceeds the partitions, and a VC reserves   *)
(* at most one slot, only while its packet is unfinished and it holds no   *)
(* other (SharedBufferPolicy::SendingFlit, FreeSlotFor, ProcessFreeSlot).  *)
(***************************************************************************)
SharedAccounting ==
  LET held == [v \in VC |-> vcOcc[v] + p.reserved[v]]
      excess == [i \in Partition |-> Excess(p.private[i])]
  IN  config.policy # "private" =>
        /\ \A i \in Partition :
              p.private[i] = SumFunctionOnSet(held, {v \in VC : PrivateMap[v] = i})
        /\ p.shared = SumFunctionOnSet(excess, Partition)
        /\ \A v \in VC : p.reserved[v] > 0 =>
              p.reserved[v] = 1 /\ vcOcc[v] = 0 /\ inUse[v] /\ ~tailSent[v]
        /\ config.policy \in Limited =>
              p.active = Cardinality({v \in VC : inUse[v] /\ ~tailSent[v]})

(***************************************************************************)
(* A packet that has started can always go on: once its VC has got back    *)
(* every slot it used, the policy does not call the VC full, whatever the  *)
(* other VCs hold.  Without the reserved slot (or with a limit of zero     *)
(* slots per VC) packets that hold VCs could shut each other out.          *)
(***************************************************************************)
StartedPacketNeverShutOut ==
  \A v \in VC : inUse[v] /\ ~tailSent[v] /\ lastPid[v] = pid[v] /\ vcOcc[v] = 0
                => ~IsFullFor(v)

(***************************************************************************)
(* The feedback policies never time a credit that is not a probe's: with   *)
(* "feedback" every outstanding flit of a VC is timed; "simplefeedback"    *)
(* has at most one probe per VC out, behind the flits still to be skipped, *)
(* so that the assertions !_flit_sent_time[vc].empty() hold.               *)
(***************************************************************************)
ProbesOutstanding ==
  \A v \in VC :
    /\ config.policy = "feedback" => Len(p.sent[v]) = vcOcc[v]
    /\ config.policy = "simplefeedback" =>
         /\ Len(p.sent[v]) <= 1
         /\ p.sent[v] = <<>> => p.pending[v] = 0
         /\ p.sent[v] # <<>> => p.pending[v] < vcOcc[v]

(***************************************************************************)
(* One hop implements a bounded queue per VC: the flits buffered, then     *)
(* those on the channel, the oldest first.                                 *)
(***************************************************************************)
Fifo == INSTANCE VCFifo WITH
          capacity <- IF config.policy = "private" THEN VcBufSize ELSE BufSize,
          queue    <- [v \in VC |-> buf[v] \o FlitsOf(v)]
ImplementsVCFifo == Fifo!Spec

(***************************************************************************)
(* A sender that has run out of credits for a VC gets one back.            *)
(***************************************************************************)
CreditsReturn == \A v \in VC :
  vcOcc[v] > 0 /\ IsFullFor(v) ~> ~(vcOcc[v] > 0 /\ IsFullFor(v))

=============================================================================
