---------------------------- MODULE BufferPolicy ----------------------------
(***************************************************************************)
(* BufferState::BufferPolicy and its seven subclasses (buffer_state.cpp):  *)
(* how the slots of a downstream buffer are divided among its virtual      *)
(* channels.  The private data of the subclasses are the fields of one     *)
(* record p, of which a policy uses the part its class declares; the       *)
(* virtual calls are dispatched on the policy's configuration name.        *)
(***************************************************************************)
EXTENDS Integers, Sequences, FiniteSetsExt, Functions

CONSTANTS NumVCs,        \* num_vcs
          BufSize,       \* _buf_size, the slots of the whole buffer
          NumPrivate,    \* private_bufs: number of private partitions
          PrivateSize,   \* private_buf_size, one size for all partitions
          HeldSlots,     \* max_held_slots
          MinLatency,    \* SetMinLatency: the round trip of an idle link
          AgingScale,    \* feedback_aging_scale
          Offset,        \* feedback_offset
          MaxAge         \* bound: a probe's age stops growing here

ASSUME SizeAssumption ==
  /\ NumVCs \in Nat \ {0} /\ BufSize \in Nat \ {0}
  /\ NumPrivate \in 1..NumVCs /\ PrivateSize \in Nat
  /\ NumPrivate * PrivateSize <= BufSize   \* assert(_shared_buf_size >= 0)

ASSUME FeedbackAssumption ==
  /\ MinLatency \in Nat /\ Offset \in Int /\ MaxAge \in Nat
  /\ AgingScale \in Nat /\ 2 ^ AgingScale \in Nat \ {0}   \* 1 << _aging_scale

VC == 0 .. NumVCs - 1
Partition == 0 .. NumPrivate - 1
VcBufSize == BufSize \div NumVCs
SharedSize == BufSize - NumPrivate * PrivateSize

(* The partition of each VC: start_vc and end_vc at their defaults. *)
PrivateMap == [v \in VC |->
  CHOOSE i \in Partition : /\ (i * NumVCs) \div NumPrivate <= v
                           /\ v <= ((i + 1) * NumVCs) \div NumPrivate - 1]

Policies == {"private", "shared", "limited", "dynamic", "shifting",
             "feedback", "simplefeedback"}
Limited == {"limited", "dynamic", "shifting"}
Feedback == {"feedback", "simplefeedback"}

(* The constructors. *)
Empty(policy) ==
  [private  |-> [i \in Partition |-> 0],    \* _private_buf_occupancy
   shared   |-> 0,                          \* _shared_buf_occupancy
   reserved |-> [v \in VC |-> 0],           \* _reserved_slots
   active   |-> 0,                          \* _active_vcs
   held     |-> IF policy = "limited" THEN HeldSlots ELSE BufSize,
   sent     |-> [v \in VC |-> <<>>],        \* _flit_sent_time, as ages
   limit    |-> [v \in VC |-> BufSize],     \* _occupancy_limit
   rtt      |-> [v \in VC |-> -1],          \* _round_trip_time
   pending  |-> [v \in VC |-> 0]]           \* _pending_credits

Excess(n) == IF n > PrivateSize THEN n - PrivateSize ELSE 0

-----------------------------------------------------------------------------
(* shared *)

(* ProcessFreeSlot, n times over: n slots of VC v's partition are freed,   *)
(* those held in excess of the partition first.                            *)
ProcessFreeSlots(p, v, n) ==
  LET i == PrivateMap[v]
  IN  [p EXCEPT !.private[i] = @ - n,
                !.shared = @ - (Excess(p.private[i]) - Excess(p.private[i] - n))]

SharedSendingFlitKeepingSlot(p, v, tail) ==  \* mutant: the reserved slot is not used
  LET i == PrivateMap[v]
      taken == [p EXCEPT !.private[i] = @ + 1,
                         !.shared = IF p.private[i] + 1 > PrivateSize THEN @ + 1 ELSE @]
  IN  IF tail
      THEN [ProcessFreeSlots(taken, v, taken.reserved[v]) EXCEPT !.reserved[v] = 0]
      ELSE taken

SharedSendingFlit(p, v, tail) ==
  LET i == PrivateMap[v]
      taken == IF p.reserved[v] > 0
               THEN [p EXCEPT !.reserved[v] = @ - 1]
               ELSE [p EXCEPT !.private[i] = @ + 1,
                              !.shared = IF p.private[i] + 1 > PrivateSize
                                         THEN @ + 1 ELSE @]
  IN  IF tail
      THEN [ProcessFreeSlots(taken, v, taken.reserved[v]) EXCEPT !.reserved[v] = 0]
      ELSE taken

SharedFreeSlotForUnreserved(p, v, available, empty) ==  \* mutant: nothing is reserved
  ProcessFreeSlots(p, v, 1)

(* A packet in progress keeps the last slot it gives back. *)
SharedFreeSlotFor(p, v, available, empty) ==
  IF ~available /\ empty THEN [p EXCEPT !.reserved[v] = @ + 1]
                         ELSE ProcessFreeSlots(p, v, 1)

SharedIsFullForLate(p, v) ==  \* mutant: off by one
  /\ p.reserved[v] = 0
  /\ p.private[PrivateMap[v]] >= PrivateSize
  /\ p.shared > SharedSize

SharedIsFullFor(p, v) == /\ p.reserved[v] = 0
                         /\ p.private[PrivateMap[v]] >= PrivateSize
                         /\ p.shared >= SharedSize

-----------------------------------------------------------------------------
(* limited, dynamic and shifting: a cap on the slots one VC may hold       *)

(* The shifts the loop `while(i) { _max_held_slots >>= 1; i >>= 1; }' does. *)
Shifts[i \in Nat] == IF i = 0 THEN 0 ELSE 1 + Shifts[i \div 2]

SlotLimit(policy, p) ==
  CASE policy = "dynamic"  -> BufSize \div p.active
    [] policy = "shifting" -> BufSize \div (2 ^ Shifts[p.active - 1])
    [] OTHER               -> p.held

PolicyTakeBuffer(policy, p) ==
  LET counted == [p EXCEPT !.active = @ + 1]
  IN  IF policy \in Limited
      THEN [counted EXCEPT !.held = SlotLimit(policy, counted)]
      ELSE p

LimitedSendingFlit(policy, p, v, tail) ==
  LET sent == SharedSendingFlit(p, v, tail)
      done == [sent EXCEPT !.active = @ - 1]
  IN  IF ~tail THEN sent
      ELSE IF done.active = 0 THEN done
      ELSE [done EXCEPT !.held = SlotLimit(policy, done)]

LimitedIsFullFor(p, v, held) == SharedIsFullFor(p, v) \/ held >= p.held

-----------------------------------------------------------------------------
(* feedback and simplefeedback: the cap follows the measured round trip    *)

AtLeast(a, b) == IF a > b THEN a ELSE b
AtMost(a, b)  == IF a < b THEN a ELSE b

ComputeRTT(p, v, last) ==
  IF p.rtt[v] < 0 THEN last
  ELSE (p.rtt[v] * 2 ^ AgingScale + last - p.rtt[v]) \div 2 ^ AgingScale

ComputeLimit(rtt) == AtLeast(2 * MinLatency - rtt + Offset, 1)

ComputeMaxSlots(p, v) ==
  IF p.sent[v] = <<>> THEN p.limit[v]
  ELSE AtMost(p.limit[v], ComputeLimit(ComputeRTT(p, v, Head(p.sent[v]))))

FeedbackSendingFlit(p, v, tail) ==
  [SharedSendingFlit(p, v, tail) EXCEPT !.sent[v] = Append(@, 0)]

FeedbackFreeSlotFor(p, v, available, empty) ==
  LET rtt == ComputeRTT(p, v, Head(p.sent[v]))
  IN  [SharedFreeSlotFor(p, v, available, empty) EXCEPT
         !.sent[v] = Tail(@), !.rtt[v] = rtt, !.limit[v] = ComputeLimit(rtt)]

ProbeSendingFlitLate(p, v, tail, held) ==  \* mutant: waits for its own credit too
  IF p.sent[v] = <<>>
  THEN [FeedbackSendingFlit(p, v, tail) EXCEPT !.pending[v] = held]
  ELSE SharedSendingFlit(p, v, tail)

(* simplefeedback times one flit per VC, the probe, and lets the credits   *)
(* of the `held' - 1 flits sent before it go by.                           *)
ProbeSendingFlit(p, v, tail, held) ==
  IF p.sent[v] = <<>>
  THEN [FeedbackSendingFlit(p, v, tail) EXCEPT !.pending[v] = held - 1]
  ELSE SharedSendingFlit(p, v, tail)

ProbeFreeSlotFor(p, v, available, empty) ==
  IF p.sent[v] # <<>> /\ p.pending[v] = 0
  THEN FeedbackFreeSlotFor(p, v, available, empty)
  ELSE [SharedFreeSlotFor(p, v, available, empty) EXCEPT
          !.pending[v] = IF @ > 0 THEN @ - 1 ELSE @]

-----------------------------------------------------------------------------
(* The virtual calls.  held is the occupancy of VC v (OccupancyFor).       *)

PolicySendingFlit(policy, p, v, tail, held) ==
  CASE policy = "private"        -> p
    [] policy = "shared"         -> SharedSendingFlit(p, v, tail)
    [] policy \in Limited        -> LimitedSendingFlit(policy, p, v, tail)
    [] policy = "feedback"       -> FeedbackSendingFlit(p, v, tail)
    [] policy = "simplefeedback" -> ProbeSendingFlit(p, v, tail, held)

PolicyFreeSlotFor(policy, p, v, available, empty) ==
  CASE policy = "private"              -> p
    [] policy \in Limited \cup {"shared"} -> SharedFreeSlotFor(p, v, available, empty)
    [] policy = "feedback"             -> FeedbackFreeSlotFor(p, v, available, empty)
    [] policy = "simplefeedback"       -> ProbeFreeSlotFor(p, v, available, empty)

PolicyIsFullForLate(policy, p, v, held) ==  \* mutant: off by one in the private policy
  CASE policy = "private"    -> held > VcBufSize
    [] policy = "shared"     -> SharedIsFullFor(p, v)
    [] policy \in Limited    -> LimitedIsFullFor(p, v, held)
    [] policy \in Feedback   -> SharedIsFullFor(p, v) \/ held >= ComputeMaxSlots(p, v)

PolicyIsFullFor(policy, p, v, held) ==
  CASE policy = "private"    -> held >= VcBufSize
    [] policy = "shared"     -> SharedIsFullFor(p, v)
    [] policy \in Limited    -> LimitedIsFullFor(p, v, held)
    [] policy \in Feedback   -> SharedIsFullFor(p, v) \/ held >= ComputeMaxSlots(p, v)

(* GetSimTime() moves on: every probe is one cycle older, up to MaxAge. *)
Older(p) == [p EXCEPT !.sent = [v \in VC |->
               [i \in DOMAIN @[v] |-> AtMost(@[v][i] + 1, MaxAge)]]]
=============================================================================
