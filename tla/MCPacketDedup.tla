---------------------------- MODULE MCPacketDedup ----------------------------
EXTENDS PacketDedup, FiniteSets

CONSTANTS p1, p2, p3, p4, p5

\* The signatures of five packets, and the empty signature.
MCKey == {p1, p2, p3, p4, p5, Blank}
=============================================================================
