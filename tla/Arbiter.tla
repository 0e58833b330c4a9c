------------------------------ MODULE Arbiter ------------------------------
(***************************************************************************)
(* The arbiters of src/booksim/arbiters: of the ports that request, pick   *)
(* one; after a grant has been used, UpdateState makes its port yield to   *)
(* the others.  An arbiter is a record; requests are a function from the   *)
(* requesting ports to their priorities.  Between two arbitrations Clear   *)
(* forgets the requests and _selected, so no other state remains.          *)
(*   <<"round_robin">>, <<"matrix">>, <<"tree", groups, type>>             *)
(***************************************************************************)
EXTENDS Integers, Sequences

NoGrant == -1

(* The member of S met first when the ports 0..n-1 are visited in circular *)
(* order from offset.                                                      *)
FirstFrom(S, offset, n) ==
  CHOOSE x \in S : \A y \in S : (x - offset + n) % n <= (y - offset + n) % n

(* Among the ports of S, those of the highest priority. *)
Foremost(S, pri) == {x \in S : \A y \in S : pri[y] <= pri[x]}

FollowingUnwrapped(port, n) == port + 1  \* mutant: no modulo
FollowingSame(port, n) == port           \* mutant: the winner keeps its place
Following(port, n) == (port + 1) % n

Plain(type, n) ==
  IF type = "round_robin"
  THEN [type |-> type, size |-> n, pointer |-> 0]
  ELSE [type |-> type, size |-> n,
        above |-> [i \in 0..n-1 |-> [j \in 0..n-1 |-> j < i]]]   \* _matrix

(* The types NewArbiter knows; a tree has groups of equal size.            *)
CanBuild(type, n) ==
  \/ type \in {<<"round_robin">>, <<"matrix">>}
  \/ \E g \in 1 .. n, t \in {"round_robin", "matrix"} : type = <<"tree", g, t>> /\ n % g = 0

NewArbiter(type, n) ==
  IF Head(type) # "tree" THEN Plain(Head(type), n)
  ELSE [type   |-> "tree", size |-> n,
        groups |-> [g \in 0..type[2]-1 |-> Plain(type[3], n \div type[2])],
        global |-> Plain(type[3], type[2])]

-----------------------------------------------------------------------------
(* Arbitrate.  The matrix arbiter grants the first port that no other port *)
(* of its priority is above, and fails its assertion if there is none.     *)
PlainArbitrate(a, reqs) ==
  LET top == Foremost(DOMAIN reqs, reqs)
      winners == {i \in top : \A j \in top : ~a.above[j][i]}
  IN  IF top = {} THEN NoGrant
      ELSE IF a.type = "round_robin" THEN FirstFrom(top, a.pointer, a.size)
      ELSE IF winners = {} THEN NoGrant
      ELSE CHOOSE i \in winners : \A j \in winners : i <= j

GroupSize(a) == a.groups[0].size

GroupRequests(a, reqs, g) ==
  [i \in {j \in 0..GroupSize(a)-1 : g * GroupSize(a) + j \in DOMAIN reqs} |->
     reqs[g * GroupSize(a) + i]]

(* A tree arbitrates in each group that has requests, and then among the   *)
(* winners with their own priorities.                                      *)
TreeArbitrate(a, reqs) ==
  LET winner == [g \in DOMAIN a.groups |-> PlainArbitrate(a.groups[g], GroupRequests(a, reqs, g))]
      port(g) == g * GroupSize(a) + winner[g]
      group == PlainArbitrate(a.global, [g \in {h \in DOMAIN a.groups : winner[h] # NoGrant} |->
                                           reqs[port(g)]])
  IN  IF group = NoGrant THEN NoGrant ELSE port(group)

Arbitrate(a, reqs) == IF a.type = "tree" THEN TreeArbitrate(a, reqs) ELSE PlainArbitrate(a, reqs)

-----------------------------------------------------------------------------
(* UpdateState, after port won: it comes last from now on. *)
YieldKeepingRank(above, port) ==  \* mutant: the winner stays above the others too
  [i \in DOMAIN above |-> [j \in DOMAIN above |->
     IF j = port /\ i # port THEN TRUE ELSE above[i][j]]]

Yield(above, port) ==
  [i \in DOMAIN above |-> [j \in DOMAIN above |->
     IF i = j THEN above[i][j] ELSE IF i = port THEN FALSE ELSE IF j = port THEN TRUE ELSE above[i][j]]]

PlainUpdate(a, port) ==
  IF a.type = "round_robin" THEN [a EXCEPT !.pointer = Following(port, a.size)]
                            ELSE [a EXCEPT !.above = Yield(@, port)]

UpdateState(a, port) ==
  IF a.type # "tree" THEN PlainUpdate(a, port)
  ELSE LET g == port \div GroupSize(a)
       IN  [a EXCEPT !.groups[g] = PlainUpdate(@, port % GroupSize(a)),
                     !.global = PlainUpdate(@, g)]
=============================================================================
