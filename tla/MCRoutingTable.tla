--------------------------- MODULE MCRoutingTable ---------------------------
(****************************************************************************)
(* Two workers whose hellos are all from one peer, so that every call meets *)
(* every other at the same entry.  No symmetry is declared, because         *)
(* CallsReturn is a liveness property.                                      *)
(****************************************************************************)
EXTENDS RoutingTable
=============================================================================
