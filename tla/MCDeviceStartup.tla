--------------------------- MODULE MCDeviceStartup ---------------------------
(* The instances of DeviceStartup that TLC checks: their constants are model *)
(* values, and no symmetry is declared because StartSettles is a liveness    *)
(* property.                                                                 *)
EXTENDS DeviceStartup

\* A document whose last group is filled up; its bytes set every bit.
TwoGroups == {<<48, 130, 255, 0, 97>>}

\* Its text without the last character: decode ignores the rest of a group.
CutShort == {Front(Encoded(d)) : d \in TwoGroups}
==============================================================================
