------------------------------- MODULE SlotPool -------------------------------
(***************************************************************************)
(* What libresource's cslot allocator promises to the rest of a process:   *)
(* a pool of capability slots out of which contiguous runs are granted and *)
(* to which single slots are given back.  Nothing is said of bitmaps,      *)
(* ranges or hints; module CSlot is the allocator that implements this.    *)
(***************************************************************************)
EXTENDS Integers

CONSTANTS LowSlot,          \* first slot given to cslot_setup
          HighSlot          \* the slot after the last one

VARIABLES phase,            \* "setup" | "ready" | "halted" (assert or fail)
          held,             \* slots granted and not given back
          ret,              \* slots the last call returned
          asked             \* size of the last request if it was refused, else 0

poolVars == <<phase, held, ret, asked>>

Slots == LowSlot .. HighSlot - 1

Init == phase = "setup" /\ held = {} /\ ret = {} /\ asked = 0

Setup ==
  /\ phase = "setup"
  /\ phase' \in {"ready", "halted"}
  /\ UNCHANGED <<held, ret, asked>>

(* A granted run is contiguous and nobody holds any slot of it. *)
Grant ==
  /\ phase = "ready"
  /\ \E first \in Slots, last \in Slots :
        /\ first <= last
        /\ (first .. last) \cap held = {}
        /\ ret' = first .. last
        /\ held' = held \cup ret'
  /\ asked' = 0
  /\ UNCHANGED phase

(* A single slot is refused only when every slot is held; a longer run may *)
(* also be refused because the free slots are too scattered.               *)
Refuse ==
  /\ phase = "ready"
  /\ ret' = {}
  /\ asked' \in Nat \ {0}
  /\ asked' = 1 => held = Slots
  /\ UNCHANGED <<phase, held>>

Release ==
  /\ phase = "ready"
  /\ \E ptr \in held : held' = held \ {ptr}
  /\ ret' = {}
  /\ asked' = 0
  /\ UNCHANGED phase

(* Giving back a slot nobody holds stops the process and changes nothing. *)
Halt ==
  /\ phase = "ready"
  /\ phase' = "halted"
  /\ UNCHANGED <<held, ret, asked>>

(* Calls that leave the pool alone clear the last refusal. *)
Other ==
  /\ phase = "ready"
  /\ ret' = {}
  /\ asked' = 0
  /\ UNCHANGED <<phase, held>>

Next == Setup \/ Grant \/ Refuse \/ Release \/ Halt \/ Other

Spec == Init /\ [][Next]_poolVars
===============================================================================
