----------------------------- MODULE DedupWindow -----------------------------
(****************************************************************************)
(* What read_callback needs of the packet cache, with no list and no set:   *)
(* a key that was let through stays suppressed until exactly Window other   *)
(* keys have been let through, and is let through again after that.  Fragile*)
(* keys have only the upper half of the promise: they may be forgotten at   *)
(* any pass.                                                                *)
(****************************************************************************)
EXTENDS Naturals

CONSTANTS Key, Window, NoKey, Fragile

VARIABLES credit,   \* credit[k]: the passes during which k stays suppressed
          answer    \* the last question and its answer

vars == <<credit, answer>>

Init == /\ credit = [k \in Key |-> 0]
        /\ answer = [key |-> NoKey, cached |-> FALSE]

Pass(k) ==
  /\ credit[k] = 0
  /\ \E forgotten \in SUBSET (Key \cap Fragile) :
       credit' = [j \in Key |-> IF j = k THEN Window
                                ELSE IF credit[j] > 0 /\ j \notin forgotten
                                  THEN credit[j] - 1 ELSE 0]
  /\ answer' = [key |-> k, cached |-> FALSE]

Suppress(k) ==
  /\ credit[k] > 0
  /\ answer' = [key |-> k, cached |-> TRUE]
  /\ UNCHANGED credit

Next == \E k \in Key : Pass(k) \/ Suppress(k)

Spec == Init /\ [][Next]_vars
=============================================================================
