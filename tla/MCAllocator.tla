---------------------------- MODULE MCAllocator ----------------------------
EXTENDS Allocator

MCOne == {<<0, 0>>}
MCTwo == {<<0, 0>>, <<0, 1>>, <<1, 1>>}

MCConfig(kind, inputs, outputs, iters, arb, pris, load) ==
  [kind |-> kind, inputs |-> inputs, outputs |-> outputs, iters |-> iters,
   arb |-> arb, pris |-> pris, load |-> load]
MCSimple(kind, inputs, outputs, iters) ==
  MCConfig(kind, inputs, outputs, iters, <<"round_robin">>, MCOne, inputs * outputs)
MCPriority(kind, arb) == MCConfig(kind, 3, 2, 1, arb, MCTwo, 3)

MCSafe ==
  {MCSimple("islip", 3, 2, 1), MCSimple("islip", 3, 2, 2), MCSimple("pim", 2, 2, 2), MCSimple("pim", 3, 2, 1),
   MCSimple("loa", 3, 2, 1), MCSimple("wavefront", 3, 2, 1), MCSimple("rr_wavefront", 3, 2, 1),
   MCSimple("max_size", 3, 2, 1), MCSimple("max_size", 3, 3, 1)}
  \cup {MCPriority(k, <<"round_robin">>) : k \in {"select", "wavefront", "rr_wavefront"}}
  \cup {MCPriority(k, a) : k \in Separable, a \in {<<"round_robin">>, <<"matrix">>}}
  \cup {MCConfig(k, 4, 2, 1, <<"tree", 2, "round_robin">>, MCOne, 2) : k \in Separable}

MCFair ==
  {MCSimple("islip", 3, 2, 1), MCSimple("islip", 2, 2, 2), MCSimple("select", 3, 2, 1),
   MCSimple("wavefront", 3, 2, 1), MCSimple("rr_wavefront", 3, 2, 1), MCSimple("max_size", 3, 2, 1)}
  \cup {MCConfig(k, 3, 2, 1, <<"round_robin">>, MCOne, 6) : k \in Separable}
  \cup {MCConfig(k, 2, 2, 1, <<"matrix">>, MCOne, 4) : k \in Separable}
  \cup {MCConfig(k, 2, 2, 1, <<"tree", 2, "round_robin">>, MCOne, 4) : k \in Separable}

MCSelectTwice == {MCSimple("select", 2, 2, 2)}
MCMoreOutputs == {MCSimple("max_size", 2, 3, 1)}
=============================================================================
