---------------------------- MODULE MCLspBackend ----------------------------
(* LspBackend of router a on a ring a - b - d - c - a with e behind d, where *)
(* routers of the ring may miss a neighbour.  A path around the ring is      *)
(* longer than a packet travels, and so is one to e.                         *)
EXTENDS LspBackend

MCLists ==
    [r \in Routers |->
        CASE r = "a" -> {<<"b", "c">>, <<NoAddress, "c">>}
          [] r = "b" -> {<<"a", "d">>, <<"a">>}
          [] r = "c" -> {<<"a", "d">>, <<"a">>}
          [] r = "d" -> {<<"b", "c", "e">>, <<NoAddress, "c">>}
          [] r = "e" -> {<<"d">>}]
=============================================================================
