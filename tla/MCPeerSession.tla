--------------------------- MODULE MCPeerSession ---------------------------
(* Two threads and two peers, whose certificates may be for either key. *)
EXTENDS PeerSession, TLC

CONSTANTS m1, m2

\* Packets signed by either peer, signed over one payload after another, with
\* the signature of another payload, the way send_pkg signs, with no signature,
\* and by an unknown algorithm.
MCPacket ==
  LET packet(m, sig, algorithm) ==
        {[sender |-> o, msg |-> m, sig |-> sig, algorithm |-> algorithm] : o \in Peer}
      sign(k, over) == [key |-> k, over |-> over]
  IN  UNION {packet(m1, sign(k, <<Payload(m1)>>), "SHA_256") : k \in Key}
      \cup packet(m2, sign(Self, <<Payload(m1)>>), "SHA_256")
      \cup packet(m2, sign(Self, <<Payload(m1), Payload(m2)>>), "SHA_256")
      \cup packet(m1, sign(Self, <<Whole(m1)>>), "SHA_256")
      \cup packet(m1, Malformed, "SHA_256")
      \cup packet(m1, sign(Self, <<Payload(m1)>>), "unknown")

\* Signing and verifying share no state but the threads: either is explored
\* without the other.
OneSide ==
  \/ sent = None /\ md = << >> /\ \A t \in Thread : pc[t] \notin Signing
  \/ \A s \in Session : sessions[s] = NoSession

Symmetry == Permutations(Thread) \cup Permutations(Session) \cup Permutations(Ctx)
=============================================================================
