--------------------------- MODULE MCNegotiation ---------------------------
(* Instances of Negotiation for TLC: a format with and one without alpha,   *)
(* and constraints that differ in size, in modifiers, or have no dmabuf.    *)
EXTENDS Negotiation, TLC

CONSTANTS a, x, m1, m2

MCFourccs == {a, x}
MCModifiers == {m1, m2}
MCOpaque == (a :> x) @@ (x :> None)

MCAnnounced ==
  {[size |-> 1, dmabuf |-> {<<a, m1>>, <<a, m2>>}, shm |-> {a}],
   [size |-> 2, dmabuf |-> {<<a, m1>>, <<a, m2>>}, shm |-> {a}],
   [size |-> 1, dmabuf |-> {<<a, m2>>, <<x, m1>>}, shm |-> {x}],
   [size |-> 1, dmabuf |-> {}, shm |-> {a, x}]}
=============================================================================
