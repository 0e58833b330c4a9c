----------------------------- MODULE Allocator -----------------------------
(***************************************************************************)
(* The allocators of src/booksim/allocators: each cycle the router clears  *)
(* its allocator, adds a request for every input that wants an output,     *)
(* with an input-side and an output-side priority, and has the allocator   *)
(* match inputs to outputs (IQRouter::_VCAllocEvaluate,                    *)
(* _SWAllocEvaluate).  What stays from one cycle to the next is what makes *)
(* the allocator fair: pointers, a diagonal, the states of arbiters.       *)
(* config is fixed at start-up: which allocator, and its size.             *)
(***************************************************************************)
EXTENDS Arbiter, FiniteSets

CONSTANTS Patient,  \* whether a request not granted is made again until it is
          Configs
  \* a set of [kind, inputs, outputs, iters, arb, pris, load]: alloc_iters,
  \* arb_type, the priorities <<in_pri, out_pri>> in use, and
  \* a bound: requests in one cycle

VARIABLES config,
          waiting,             \* requests not granted by a patient router
          request,             \* the requests of the last cycle and their priorities
          inmatch, outmatch,   \* _inmatch, _outmatch
          gptrs, aptrs,        \* _gptrs, _aptrs (iSLIP, select); _gptr, _rptr (LOA)
          turn,                \* _pri (wavefront), _prio (max_size)
          inArb, outArb,       \* _input_arb, _output_arb (separable)
          phase                \* "request", or "granted" from Allocate to Clear

vars == <<phase, config, waiting, request, inmatch, outmatch, gptrs, aptrs, turn, inArb, outArb>>

Input == 0 .. config.inputs - 1
Output == 0 .. config.outputs - 1

Kinds == {"islip", "pim", "select", "loa", "wavefront", "rr_wavefront", "max_size",
          "separable_input_first", "separable_output_first"}

ASSUME ConfigAssumption ==
  \A c \in Configs : /\ c.kind \in Kinds /\ c.inputs \in Nat \ {0} /\ c.outputs \in Nat \ {0}
                     /\ c.iters \in Nat \ {0} /\ c.load \in Nat /\ c.pris \subseteq Int \X Int
                     /\ CanBuild(c.arb, c.inputs) /\ CanBuild(c.arb, c.outputs)

Unmatched == -1
EmptyMatch == [in |-> [i \in Input |-> Unmatched], out |-> [o \in Output |-> Unmatched]]

Init == /\ config \in Configs
        /\ phase = "request" /\ waiting = {} /\ request = <<>>
        /\ inmatch = EmptyMatch.in /\ outmatch = EmptyMatch.out
        /\ gptrs = [o \in Output |-> 0] /\ aptrs = [i \in Input |-> 0]
        /\ turn = 0
        /\ inArb = [i \in Input |-> NewArbiter(config.arb, config.outputs)]
        /\ outArb = [o \in Output |-> NewArbiter(config.arb, config.inputs)]

(* AddRequest, once for every pair of the domain; ReadRequest. *)
Requests == UNION {[S -> config.pris] : S \in {T \in SUBSET (Input \X Output) :
                     waiting \subseteq T /\ Cardinality(T) <= config.load}}
Requesting(r, o) == {i \in Input : <<i, o>> \in DOMAIN r}
Requested(r, i) == {o \in Output : <<i, o>> \in DOMAIN r}
InPri(r, i) == [o \in Requested(r, i) |-> r[<<i, o>>][1]]
OutPri(r, o) == [i \in Requesting(r, o) |-> r[<<i, o>>][2]]

Matched(r, m) == /\ phase = "request" /\ phase' = "granted"
                 /\ request' = r
                 /\ inmatch' = m.in /\ outmatch' = m.out
                 /\ waiting' = IF Patient THEN {c \in DOMAIN r : m.in[c[1]] # c[2]} ELSE {}
                 /\ UNCHANGED config

-----------------------------------------------------------------------------
(* Iterative matching: every free output grants one of its requests, and   *)
(* every input accepts one of the grants it gets.                          *)
FreeAll(r, m, o) == Requesting(r, o)  \* mutant: matched inputs are granted again
FreeBehind(r, m, o) ==  \* mutant: the scan does not wrap around
  {i \in Requesting(r, o) : m.in[i] = Unmatched /\ i >= gptrs[o]}
Free(r, m, o) == {i \in Requesting(r, o) : m.in[i] = Unmatched}

Grants(r, m, offset) ==
  [o \in Output |-> IF m.out[o] # Unmatched \/ Free(r, m, o) = {} THEN NoGrant
                    ELSE FirstFrom(Free(r, m, o), offset[o], config.inputs)]

Accepts(grants, offset) ==
  [i \in Input |-> LET offers == {o \in Output : grants[o] = i}
                   IN  IF offers = {} THEN NoGrant
                       ELSE FirstFrom(offers, offset[i], config.outputs)]

AcceptAll(m, accepted) ==
  [in  |-> [i \in Input |-> IF accepted[i] # NoGrant THEN accepted[i] ELSE m.in[i]],
   out |-> [o \in Output |-> IF \E i \in Input : accepted[i] = o
                             THEN CHOOSE i \in Input : accepted[i] = o ELSE m.out[o]]]

Winner(accepted, o) == CHOOSE i \in Input : accepted[i] = o

AdvanceGrant(accepted, ptrs) ==
  [o \in Output |-> IF \E i \in Input : accepted[i] = o
                    THEN Following(Winner(accepted, o), config.inputs) ELSE ptrs[o]]
AdvanceAccept(accepted, ptrs) ==
  [i \in Input |-> IF accepted[i] # NoGrant
                   THEN Following(accepted[i], config.outputs) ELSE ptrs[i]]

(* s is the state after some iterations: the match, the pointers, and for  *)
(* select the grants, which one iteration leaves to the next.  Pointers    *)
(* move in the first iteration only.                                       *)
Accepted(s, k, m, accepted, grants) ==
  [match  |-> AcceptAll(m, accepted), grants |-> grants,
   gptrs  |-> IF k = 1 THEN AdvanceGrant(accepted, s.gptrs) ELSE s.gptrs,
   aptrs  |-> IF k = 1 THEN AdvanceAccept(accepted, s.aptrs) ELSE s.aptrs]

Start == [match |-> EmptyMatch, grants |-> [o \in Output |-> NoGrant],
          gptrs |-> gptrs, aptrs |-> aptrs]

(* iSLIP_Sparse::Allocate *)
AllocateISLIP(r) ==
  LET after[k \in 0 .. config.iters] ==
        IF k = 0 THEN Start
        ELSE LET s == after[k - 1]
                 grants == Grants(r, s.match, s.gptrs)
             IN  Accepted(s, k, s.match, Accepts(grants, s.aptrs), grants)
      s == after[config.iters]
  IN  /\ config.kind = "islip"
      /\ Matched(r, s.match) /\ gptrs' = s.gptrs /\ aptrs' = s.aptrs
      /\ UNCHANGED <<turn, inArb, outArb>>

(* PIM::Allocate: every search starts at a random port. *)
AllocatePIM(r) ==
  /\ config.kind = "pim"
  /\ \E grantAt \in [1 .. config.iters -> [Output -> Input]],
        acceptAt \in [1 .. config.iters -> [Input -> Output]] :
       LET after[k \in 0 .. config.iters] ==
             IF k = 0 THEN EmptyMatch
             ELSE AcceptAll(after[k - 1],
                            Accepts(Grants(r, after[k - 1], grantAt[k]), acceptAt[k]))
       IN  Matched(r, after[config.iters])
  /\ UNCHANGED <<gptrs, aptrs, turn, inArb, outArb>>

(* SelAlloc::Allocate: as iSLIP, but the priorities come first, and the    *)
(* grants of an iteration are still there in the next.  No output is ever  *)
(* masked (MaskOutput has no caller).                                      *)
SelectGrants(r, s) ==
  [o \in Output |->
     IF s.match.out[o] # Unmatched \/ Free(r, s.match, o) = {} THEN s.grants[o]
     ELSE FirstFrom(Foremost(Free(r, s.match, o), OutPri(r, o)), s.gptrs[o], config.inputs)]

SelectAccepts(r, s, grants) ==
  [i \in Input |->
     LET offers == {o \in Requested(r, i) : grants[o] = i}
     IN  IF offers = {} THEN NoGrant
         ELSE FirstFrom(Foremost(offers, InPri(r, i)), s.aptrs[i], config.outputs)]

AllocateSelect(r) ==
  LET after[k \in 0 .. config.iters] ==
        IF k = 0 THEN Start
        ELSE LET s == after[k - 1]
                 grants == SelectGrants(r, s)
             IN  Accepted(s, k, s.match, SelectAccepts(r, s, grants), grants)
      s == after[config.iters]
  IN  /\ config.kind = "select"
      /\ Matched(r, s.match) /\ gptrs' = s.gptrs /\ aptrs' = s.aptrs
      /\ UNCHANGED <<turn, inArb, outArb>>

-----------------------------------------------------------------------------
(* LOA::Allocate: every input requests its least requested output; an      *)
(* output grants from its pointer on, and the pointers count the grants.   *)
AllocateLOA(r) ==
  LET count(o) == Cardinality(Requesting(r, o))
      lonely(i) == LET least == {o \in Requested(r, i) :
                                   \A other \in Requested(r, i) : count(o) <= count(other)}
                   IN  IF least = {} THEN NoGrant ELSE FirstFrom(least, aptrs[i], config.outputs)
      granted == [o \in Output |->
                    LET S == {i \in Input : lonely(i) = o}
                    IN  IF S = {} THEN NoGrant ELSE FirstFrom(S, gptrs[o], config.inputs)]
      won == {i \in Input : \E o \in Output : granted[o] = i}
  IN  /\ config.kind = "loa"
      /\ Matched(r, [in  |-> [i \in Input |-> IF i \in won THEN lonely(i) ELSE Unmatched],
                     out |-> granted])
      /\ aptrs' = [i \in Input |-> IF i \in won THEN Following(aptrs[i], config.outputs) ELSE aptrs[i]]
      /\ gptrs' = [o \in Output |-> IF granted[o] # NoGrant THEN Following(gptrs[o], config.inputs)
                                                           ELSE gptrs[o]]
      /\ UNCHANGED <<turn, inArb, outArb>>

(* Wavefront::Allocate: the classes of priority from the highest down, in  *)
(* each the diagonals from _pri on; a request on the way is granted if its *)
(* input and its output are free.  rr_wavefront goes on from the diagonal  *)
(* of the first grant, wavefront from the next one in turn.                *)
Square == IF config.inputs > config.outputs THEN config.inputs ELSE config.outputs

Diagonal(c) == (c[1] + c[2] - turn + Square) % Square

Above(r, c, d) == \/ r[c][2] > r[d][2]
                  \/ r[c][2] = r[d][2] /\ r[c][1] > r[d][1]
Before(r, c, d) == \/ Above(r, c, d)
                   \/ r[c] = r[d] /\ \/ Diagonal(c) < Diagonal(d)
                                     \/ Diagonal(c) = Diagonal(d) /\ c[2] < d[2]

GrantIfFree(m, c) ==
  IF m.in[c[1]] = Unmatched /\ m.out[c[2]] = Unmatched
  THEN [in |-> [m.in EXCEPT ![c[1]] = c[2]], out |-> [m.out EXCEPT ![c[2]] = c[1]]]
  ELSE m

Ordered(r) == [k \in 1 .. Cardinality(DOMAIN r) |->
                 CHOOSE c \in DOMAIN r : Cardinality({d \in DOMAIN r : Before(r, d, c)}) = k - 1]

AllocateWavefront(r) ==
  LET order == Ordered(r)
      after[k \in 0 .. Len(order)] ==
        IF k = 0 THEN EmptyMatch ELSE GrantIfFree(after[k - 1], order[k])
  IN  /\ config.kind \in {"wavefront", "rr_wavefront"}
      /\ Matched(r, after[Len(order)])
      /\ turn' = IF DOMAIN r = {} THEN turn
                 ELSE IF config.kind = "rr_wavefront" THEN Following(order[1][1] + order[1][2], Square)
                 ELSE Following(turn, Square)
      /\ UNCHANGED <<gptrs, aptrs, inArb, outArb>>

-----------------------------------------------------------------------------
(* MaxSizeMatch::Allocate: augmenting paths as long as there is one.       *)

(* One edge of the breadth-first search: s.found is the free output that   *)
(* ends a path, s.from the input from which each output was reached.       *)
Visit(r, m, s, edge) ==
  LET i == edge[1]
      j == edge[2]
  IN  IF s.found # NoGrant \/ edge \notin DOMAIN r \/ m.in[i] = j \/ s.from[j] # -1 THEN s
      ELSE IF m.out[j] = Unmatched THEN [s EXCEPT !.from[j] = i, !.found = j]
      ELSE [s EXCEPT !.from[j] = i, !.reached = Append(@, m.out[j])]

(* The edges from the inputs of the stack, in the order of the loops. *)
Edge(s, k) == <<s.reached[(k \div config.outputs) + 1], k % config.outputs>>

(* One level of the search: the inputs it reaches are the next stack. *)
Level(r, m, s) ==
  LET n == Len(s.reached) * config.outputs
      visited[k \in 0 .. n] == IF k = 0 THEN [s EXCEPT !.reached = <<>>]
                               ELSE Visit(r, m, visited[k - 1], Edge(s, k - 1))
  IN  visited[n]

(* All unassigned inputs, from _prio on. *)
Unassigned(m) ==
  LET pushed[k \in 0 .. config.inputs] ==
        IF k = 0 THEN <<>>
        ELSE LET i == (k - 1 + turn) % config.inputs
             IN  IF m.in[i] = Unmatched THEN Append(pushed[k - 1], i) ELSE pushed[k - 1]
  IN  pushed[config.inputs]

DirectSearch(r, m) ==  \* mutant: only paths of one edge are found
  LET c == {d \in DOMAIN r : m.in[d[1]] = Unmatched /\ m.out[d[2]] = Unmatched}
      d == CHOOSE d \in c : TRUE
  IN  IF c = {} THEN [found |-> NoGrant] ELSE [found |-> d[2], from |-> [j \in Output |-> d[1]]]

(* _ShortestAugmenting, the search.  _from is given _inputs elements where *)
(* outputs index it: those beyond keep the 0 the constructor left there,   *)
(* and count as reached.                                                   *)
Search(r, m) ==
  LET after[k \in 0 .. config.inputs] ==
        IF k = 0 THEN [from    |-> [j \in Output |-> IF j < config.inputs THEN -1 ELSE 0],
                       found   |-> NoGrant,
                       reached |-> Unassigned(m)]
        ELSE Level(r, m, after[k - 1])
  IN  after[config.inputs]

(* The path is followed back from output j; each input on it takes the     *)
(* output it led to and gives up the one it had.                           *)
StepBack(s, t) ==
  LET i == s.from[t.j]
  IN  [match |-> [in  |-> [t.match.in EXCEPT ![i] = t.j],
                  out |-> [t.match.out EXCEPT ![t.j] = i]],
       j |-> t.match.in[i]]

Augment(m, s) ==
  LET after[k \in 0 .. config.inputs] ==
        IF k = 0 THEN [match |-> m, j |-> s.found]
        ELSE IF after[k - 1].j = Unmatched THEN after[k - 1] ELSE StepBack(s, after[k - 1])
  IN  after[config.inputs].match

AllocateMaxSize(r) ==
  LET after[k \in 0 .. config.inputs] ==
        IF k = 0 THEN EmptyMatch
        ELSE LET s == Search(r, after[k - 1])
             IN  IF s.found = NoGrant THEN after[k - 1] ELSE Augment(after[k - 1], s)
  IN  /\ config.kind = "max_size"
      /\ Matched(r, after[config.inputs])
      /\ turn' = Following(turn, config.inputs)
      /\ UNCHANGED <<gptrs, aptrs, inArb, outArb>>

-----------------------------------------------------------------------------
(* Separable allocators: a first row of arbiters picks one request of each *)
(* port of one side, a second row one of those for each port of the other. *)
(* Only the arbiters of a granted pair are updated.                        *)
UpdateGranted(m) ==
  /\ inArb' = [i \in Input |-> IF m.in[i] = Unmatched THEN inArb[i]
                                                      ELSE UpdateState(inArb[i], m.in[i])]
  /\ outArb' = [o \in Output |-> IF m.out[o] = Unmatched THEN outArb[o]
                                                         ELSE UpdateState(outArb[o], m.out[o])]

(* SeparableInputFirstAllocator::Allocate *)
AllocateInputFirst(r) ==
  LET offer == [i \in Input |-> Arbitrate(inArb[i], InPri(r, i))]
      offered(o) == [i \in {j \in Requesting(r, o) : offer[j] = o} |-> r[<<i, o>>][2]]
      grant == [o \in Output |-> Arbitrate(outArb[o], offered(o))]
      m == [in |-> [i \in Input |-> IF \E o \in Output : grant[o] = i THEN offer[i] ELSE Unmatched],
            out |-> grant]
  IN  /\ config.kind = "separable_input_first"
      /\ Matched(r, m) /\ UpdateGranted(m)
      /\ UNCHANGED <<gptrs, aptrs, turn>>

(* SeparableOutputFirstAllocator::Allocate *)
AllocateOutputFirst(r) ==
  LET offer == [o \in Output |-> Arbitrate(outArb[o], OutPri(r, o))]
      offered(i) == [o \in {p \in Requested(r, i) : offer[p] = i} |-> r[<<i, o>>][1]]
      grant == [i \in Input |-> Arbitrate(inArb[i], offered(i))]
      m == [in |-> grant,
            out |-> [o \in Output |-> IF \E i \in Input : grant[i] = o THEN offer[o] ELSE Unmatched]]
  IN  /\ config.kind = "separable_output_first"
      /\ Matched(r, m) /\ UpdateGranted(m)
      /\ UNCHANGED <<gptrs, aptrs, turn>>

(* Clear, of the allocator and of the arbiters it has used. *)
Clear ==
  /\ phase = "granted" /\ phase' = "request"
  /\ request' = <<>>
  /\ inmatch' = EmptyMatch.in /\ outmatch' = EmptyMatch.out
  /\ UNCHANGED <<config, waiting, gptrs, aptrs, turn, inArb, outArb>>

Allocate(r) ==
  \/ AllocateISLIP(r)
  \/ AllocatePIM(r)
  \/ AllocateSelect(r)
  \/ AllocateLOA(r)
  \/ AllocateWavefront(r)
  \/ AllocateMaxSize(r)
  \/ AllocateInputFirst(r)
  \/ AllocateOutputFirst(r)

Next == Clear \/ (phase = "request" /\ \E r \in Requests : Allocate(r))

Spec == Init /\ [][Next]_vars

(* The router clears and runs its allocators in every cycle. *)
FairSpec == Spec /\ WF_phase(phase' \in {"request", "granted"} \ {phase})
-----------------------------------------------------------------------------
Separable == {"separable_input_first", "separable_output_first"}
RoundRobin == {"islip", "select"}

TypeOK ==
  /\ config \in Configs /\ waiting \subseteq Input \X Output
  /\ DOMAIN request \subseteq Input \X Output
  /\ inmatch \in [Input -> Output \cup {Unmatched}]
  /\ outmatch \in [Output -> Input \cup {Unmatched}]
  /\ gptrs \in [Output -> Input] /\ aptrs \in [Input -> Output]
  /\ turn \in 0 .. Square - 1 /\ phase \in {"request", "granted"}
  /\ DOMAIN inArb = Input /\ DOMAIN outArb = Output

(***************************************************************************)
(* Both sides of a grant agree: OutputAssigned and InputAssigned tell of   *)
(* the same matching, and only requests are granted.  The router takes     *)
(* grants from the input side and asks the output side whether an output   *)
(* is taken (IQRouter::_SWAllocEvaluate); the separable allocators assert  *)
(* that neither side has been matched before.                              *)
(***************************************************************************)
Matching ==
  /\ \A i \in Input, o \in Output : inmatch[i] = o <=> outmatch[o] = i
  /\ \A i \in Input : inmatch[i] # Unmatched => <<i, inmatch[i]>> \in DOMAIN request

(***************************************************************************)
(* No cycle is wasted: where there are requests, one of them is granted;   *)
(* and the allocators that know priorities grant one of the highest, if    *)
(* each request has the same priority on both sides, as in the switch      *)
(* allocation (IQRouter::_SWAllocAddReq).                                  *)
(***************************************************************************)
Granted == {c \in Input \X Output : inmatch[c[1]] = c[2]}
Highest == {c \in DOMAIN request : \A d \in DOMAIN request : request[d][1] <= request[c][1]}
Productive ==
  DOMAIN request # {} =>
    /\ Granted # {}
    /\ config.kind \in Separable \cup {"select", "wavefront", "rr_wavefront"}
         /\ (\A c \in DOMAIN request : request[c][1] = request[c][2])
       => Granted \cap Highest # {}

(***************************************************************************)
(* Nothing that could be added is left out: in one pass of a wavefront, or *)
(* after as many iterations as there are ports on the smaller side, every  *)
(* request has its input or its output matched.                            *)
(***************************************************************************)
Maximal ==
  \/ config.kind \in {"wavefront", "rr_wavefront", "max_size"}
  \/ config.kind \in {"islip", "pim"} /\ (config.iters >= config.inputs \/ config.iters >= config.outputs)
  => \A c \in DOMAIN request : inmatch[c[1]] # Unmatched \/ outmatch[c[2]] # Unmatched

(* No cycle is wasted: neither by granting nothing, nor by granting less   *)
(* than could be where the allocator promises a maximal matching.          *)
WastesNothing == Productive /\ Maximal

(***************************************************************************)
(* max_size is "an O(N^3) maximum-size matching algorithm"                 *)
(* (MaxSizeMatch::Allocate): no set of requests that share no port is      *)
(* larger than what it grants.                                             *)
(***************************************************************************)
Disjoint(S) == \A c, d \in S : c # d => c[1] # d[1] /\ c[2] # d[2]
MaximumSize == config.kind = "max_size" =>
  \A S \in SUBSET DOMAIN request : Disjoint(S) => Cardinality(S) <= Cardinality(Granted)

(***************************************************************************)
(* Whatever has been granted before and whichever ports request, every     *)
(* arbiter picks one of them: the priorities of a matrix arbiter never     *)
(* form a cycle (assert(_selected >= 0), Arbiter::Arbitrate).              *)
(***************************************************************************)
Decides(a) == \A S \in SUBSET (0 .. a.size - 1) :
                S # {} => Arbitrate(a, [i \in S |-> 0]) \in S
ArbitersDecide == /\ \A i \in Input : Decides(inArb[i])
                  /\ \A o \in Output : Decides(outArb[o])

(***************************************************************************)
(* No starvation: a request that is there in every cycle is granted again  *)
(* and again, whatever the others do.  max_size promises this to inputs    *)
(* only ("next time, start at next input to ensure fairness"); LOA and PIM *)
(* do not promise it.                                                      *)
(***************************************************************************)
Fair == RoundRobin \cup Separable \cup {"wavefront", "rr_wavefront"}
AnyInput == UNION {0 .. c.inputs - 1 : c \in Configs}
AnyOutput == UNION {0 .. c.outputs - 1 : c \in Configs}
NoStarvation ==
  /\ \A i \in AnyInput, o \in AnyOutput :
       <>[](config.kind \in Fair /\ (phase = "granted" => <<i, o>> \in DOMAIN request)) => []<>(<<i, o>> \in Granted)
  /\ \A i \in AnyInput :
       <>[](config.kind = "max_size" /\ (phase = "granted" => \E c \in DOMAIN request : c[1] = i))
         => []<>(\E c \in Granted : c[1] = i)
=============================================================================
