---------------------------- MODULE MCPacketServer ----------------------------
EXTENDS PacketServer

CONSTANTS na, nb,            \* nodes
          px, py,           \* outsiders
          w1, w2            \* workers

Hello(from, to, cert) ==
  [hello |-> TRUE, cert |-> cert, sender |-> from,
   receiver |-> to, dest |-> to]

Own(from, to) == [Hello(from, to, TRUE) EXCEPT !.receiver = Nobody]

Data(from, to) == [Hello(from, to, FALSE) EXCEPT !.hello = FALSE]

NoCandidates == [n \in Node |-> {}]
OneWay == [n \in Node |-> IF n = na THEN {nb} ELSE {}]
EachOther == [n \in Node |-> Node \ {n}]

\* One node: a certified peer greets twice, another once without a valid
\* certificate, and there are packets for the node and for px.
HandlerBody ==
  [h1 |-> Hello(px, na, TRUE), h2 |-> Hello(px, na, TRUE), h3 |-> Hello(py, na, FALSE),
   r1 |-> Own(na, px), r2 |-> Own(na, py), d1 |-> Data(px, na), d2 |-> Data(py, px)]

\* Two nodes that greet each other, and an outsider that greets both, one of
\* them also without a valid certificate, and sends it a packet of its own that
\* carries no signature.
FloodBody ==
  ("" :> Data(px, na)) @@
  [ab |-> Own(na, nb), ba |-> Own(nb, na), ax |-> Own(na, px), bx |-> Own(nb, px),
   xa |-> Hello(px, na, TRUE), xb |-> Hello(px, nb, TRUE),
   un |-> Hello(px, na, FALSE)]

FloodKey == DOMAIN FloodBody
HandlerKey == DOMAIN HandlerBody

WorkerSymmetry == Permutations(Worker)
=============================================================================
