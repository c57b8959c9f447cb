--------------------------- MODULE ObjectService ---------------------------
(***************************************************************************)
(* What the servers promise their clients: kernel objects belong to one    *)
(* client at a time, and one object, the registrar's endpoint, may become  *)
(* known to everybody, once.  A call is a single step here; module Rpc     *)
(* shows that the messages between client, sandbox and root server amount  *)
(* to it.                                                                  *)
(***************************************************************************)
CONSTANTS Clients, Objects, Nobody

VARIABLES owner,      \* the client an object belongs to, or Nobody
          registrar   \* the object registered, or Nobody

vars == <<owner, registrar>>

Init == /\ owner = [o \in Objects |-> Nobody]
        /\ registrar = Nobody

Allocate(c, o) == /\ owner[o] = Nobody
                  /\ owner' = [owner EXCEPT ![o] = c]
                  /\ UNCHANGED registrar

Release(c, o) == /\ owner[o] = c
                 /\ owner' = [owner EXCEPT ![o] = Nobody]
                 /\ UNCHANGED registrar

Register(c, o) == /\ owner[o] = c
                  /\ registrar = Nobody
                  /\ registrar' = o
                  /\ UNCHANGED owner

Next == \E c \in Clients, o \in Objects :
            Allocate(c, o) \/ Release(c, o) \/ Register(c, o)

Spec == Init /\ [][Next]_vars
=============================================================================
