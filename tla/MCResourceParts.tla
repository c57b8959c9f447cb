-------------------------- MODULE MCResourceParts --------------------------
(* Two names of the registrar's map share a chain, and a chain is empty.    *)
EXTENDS ResourceParts, TLC

CONSTANTS k1, k2, k3

MCHash == k1 :> 0 @@ k2 :> 0 @@ k3 :> 2
=============================================================================
