------------------------------ MODULE MCBridge ------------------------------
EXTENDS Bridge

(* Two ports that send to one. *)
MCConverging == {<<0, 1>>, <<1, 1>>}

(* One port that sends to the last. *)
MCToLast == {<<0, NumNodes - 1>>}
=============================================================================
