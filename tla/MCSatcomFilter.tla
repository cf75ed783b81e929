---------------------------- MODULE MCSatcomFilter ----------------------------
(* TLC instance of SatcomFilter: whole frames, several in a datagram, frames *)
(* cut in two, and bytes that begin no frame.                                *)
EXTENDS SatcomFilter

MCSize == [f \in Frames |-> 2]

MCWholeDatagrams ==
  {Cut(f) : f \in Frames} \cup {Cut(f) \o Cut(g) : f, g \in Frames}

MCDatagrams ==
  MCWholeDatagrams
    \cup {<<<<f, 1>>>> : f \in Frames}
    \cup {<<<<f, 2>>>> : f \in Frames}
==============================================================================
