------------------------------- MODULE KeyLock -------------------------------
(***************************************************************************)
(* What the lock of the data sheet cache promises to its users, without    *)
(* saying how: a context of a key is entered only while nobody else is in  *)
(* one, except in the aftermath of a wipe.  A wipe of the cache while a    *)
(* worker is in a context breaks that key; the key is whole again once the *)
(* last worker has left.                                                   *)
(***************************************************************************)
CONSTANTS
  Procs,    (* web worker processes *)
  Keys      (* lock keys *)

VARIABLES
  holders,  (* for each key, the workers that are in a context of it *)
  broken    (* the keys in the aftermath of a wipe *)

vars == <<holders, broken>>

Init ==
  /\ holders = [k \in Keys |-> {}]
  /\ broken = {}

Enter(p, k) ==
  /\ holders[k] = {} \/ k \in broken
  /\ holders' = [holders EXCEPT ![k] = @ \cup {p}]
  /\ UNCHANGED broken

(* Regularly, by an exception, or because the worker died. *)
Exit(p, k) ==
  /\ p \in holders[k]
  /\ holders' = [holders EXCEPT ![k] = @ \ {p}]
  /\ broken' = IF holders[k] = {p} THEN broken \ {k} ELSE broken

Wipe ==
  /\ broken' = broken \cup {k \in Keys : holders[k] # {}}
  /\ UNCHANGED holders

Next ==
  \/ \E p \in Procs, k \in Keys : Enter(p, k) \/ Exit(p, k)
  \/ Wipe

Spec == Init /\ [][Next]_vars
=============================================================================
