------------------------------ MODULE Channel ------------------------------
(***************************************************************************)
(* Channel<T> (channel.hpp): a link that carries at most one item per      *)
(* cycle and delivers it Delay cycles later.  FlitChannel and              *)
(* CreditChannel are both this class.                                      *)
(*                                                                         *)
(* The code stamps each queued item with an absolute GetSimTime() and only *)
(* ever compares the stamp with the present.  `due' is that stamp minus    *)
(* the present: it is what the code subtracts, so no time is kept.  The    *)
(* traffic manager increments the time right after the WriteOutputs phase, *)
(* hence every stamp comes one cycle nearer there.                         *)
(***************************************************************************)
EXTENDS Integers, Sequences

CONSTANTS Item,    \* what the channel carries: flits, or credits
          NoItem,  \* the null pointer
          Delay    \* _delay, set by SetLatency: at least 1

VARIABLES input,   \* _input: what was sent since the last ReadInputs
          wait,    \* _wait_queue
          output   \* _output: what Receive() returns during this cycle

Init == /\ input = NoItem
        /\ wait = <<>>
        /\ output = NoItem

(* Send: a single slot.  A second call before ReadInputs replaces the first *)
Send(item) == input' = item

(* Receive() returns the item or a null pointer, and leaves it in place. *)
Receive == output

(* ReadInputs: what was sent joins the queue. *)
ReadInputs == /\ wait' = IF input = NoItem
                         THEN wait
                         ELSE Append(wait, [due |-> Delay - 1, item |-> input])
              /\ input' = NoItem

Arrived == wait # <<>> /\ Head(wait).due <= 0

(* One cycle passes for the items that stay. *)
Age(q) == [i \in DOMAIN q |-> [q[i] EXCEPT !.due = @ - 1]]

WriteOutputsKeeping ==  \* mutant: the delivered item stays in the queue
  /\ output' = IF Arrived THEN Head(wait).item ELSE NoItem
  /\ wait' = Age(wait)

(* WriteOutputs: the front item is delivered if its time has come. *)
WriteOutputs == /\ output' = IF Arrived THEN Head(wait).item ELSE NoItem
                /\ wait' = Age(IF Arrived THEN Tail(wait) ELSE wait)

(* The items sent and not yet delivered, the oldest first. *)
Pending == [i \in DOMAIN wait |-> wait[i].item]
           \o (IF input = NoItem THEN <<>> ELSE <<input>>)

Entry == [due : Int, item : Item]

TypeOK == /\ input \in Item \cup {NoItem}
          /\ wait \in Seq(Entry)
          /\ output \in Item \cup {NoItem}
=============================================================================
