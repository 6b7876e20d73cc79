------------------------------ MODULE CacheLock ------------------------------
(***************************************************************************)
(* The cooperative lock that guards the key lists of the data sheet cache: *)
(* the context manager cache_key_locked in jb_common/utils/base.py.        *)
(*                                                                         *)
(* A request takes the lock by creating a cache item with cache.add, which *)
(* fails if the item exists.  It polls Cycles times, sleeping in between;  *)
(* after that it wipes the WHOLE cache and tries once more.  Leaving the   *)
(* context deletes the item, whoever created it.                           *)
(*                                                                         *)
(* A worker process may die inside the context (Crash); its lock stays.    *)
(* Time is abstract: a sleep of 0.3 s is one polling step, and nothing     *)
(* bounds how long a holder stays in its context.                          *)
(***************************************************************************)
EXTENDS Integers, FiniteSets

CONSTANTS
  Procs,    (* web worker processes *)
  Keys,     (* lock keys, such as "sample-lock:7" and "process-lock:3" *)
  Cycles    (* polling cycles before the cache is cleared; 20 in the code *)

ASSUME CyclesAssumption == Cycles \in Nat \ {0}

VARIABLES
  present,  (* the lock keys that exist in the cache *)
  pc,       (* where each worker is *)
  want,     (* the key of the context a worker waits for or is in *)
  cycles,   (* polling cycles a waiting worker has left *)
  broken    (* history: keys whose lock was wiped while a worker held it, *)
            (* until the last worker has left its context                 *)

vars == <<present, pc, want, cycles, broken>>

States == {"idle", "polling", "adding", "context", "failed"}

TypeOK ==
  /\ present \in SUBSET Keys
  /\ pc \in [Procs -> States]
  /\ want \in [Procs -> Keys]
  /\ cycles \in [Procs -> 0 .. Cycles]
  /\ broken \in SUBSET Keys

Init ==
  /\ present = {}
  /\ pc = [p \in Procs |-> "idle"]
  /\ want \in [Procs -> Keys]
  /\ cycles = [p \in Procs |-> 0]
  /\ broken = {}

Move(p, to) == pc' = [pc EXCEPT ![p] = to]

InContext(p, k) == pc[p] = "context" /\ want[p] = k

Held(k) == \E p \in Procs : InContext(p, k)

(* The history variable: a key stays broken while somebody is in a context *)
(* of it.                                                                  *)
StillBroken(keys) ==
  {k \in keys : \E p \in Procs : pc'[p] = "context" /\ want[p] = k}

(* The loop condition "while cycles". *)
MorePolls(p) == cycles[p] > 0

(* cache.add creates the key if it does not exist. *)
FreeAlways(p) == TRUE
Free(p) == want[p] \notin present

(* A request reaches "with cache_key_locked(k)". *)
Start(p, k) ==
  /\ pc[p] \in {"idle", "failed"}
  /\ Move(p, "polling")
  /\ want' = [want EXCEPT ![p] = k]
  /\ cycles' = [cycles EXCEPT ![p] = Cycles]
  /\ UNCHANGED <<present, broken>>

(* cache.add(key, 1) succeeds and the context is entered. *)
AddSucceeds(p) ==
  /\ pc[p] = "polling"
  /\ MorePolls(p)
  /\ Free(p)
  /\ present' = present \cup {want[p]}
  /\ Move(p, "context")
  /\ UNCHANGED <<want, cycles, broken>>

(* cache.add(key, 1) fails and one cycle is used up. *)
AddFailsUncounted(p) ==
  /\ pc[p] = "polling" /\ MorePolls(p) /\ ~Free(p)
  /\ UNCHANGED vars

AddFails(p) ==
  /\ pc[p] = "polling"
  /\ MorePolls(p)
  /\ ~Free(p)
  /\ cycles' = [cycles EXCEPT ![p] = @ - 1]
  /\ UNCHANGED <<present, pc, want, broken>>

(* All cycles are used up: cache.clear().  The locks of all other requests *)
(* vanish, too.                                                            *)
Clear(p) ==
  /\ pc[p] = "polling"
  /\ ~MorePolls(p)
  /\ present' = {}
  /\ broken' = broken \cup {k \in Keys : Held(k)}
  /\ Move(p, "adding")
  /\ UNCHANGED <<want, cycles>>

(* The single cache.add after the clear. *)
AddAfterClear(p) ==
  /\ pc[p] = "adding"
  /\ Free(p)
  /\ present' = present \cup {want[p]}
  /\ Move(p, "context")
  /\ UNCHANGED <<want, cycles, broken>>

(* "assert successful" fails: another request was faster after the clear. *)
AssertionFailsInTry(p) ==
  /\ pc[p] = "adding" /\ ~Free(p)
  /\ present' = present \ {want[p]}
  /\ Move(p, "failed")
  /\ UNCHANGED <<want, cycles, broken>>

AssertionFails(p) ==
  /\ pc[p] = "adding"
  /\ ~Free(p)
  /\ Move(p, "failed")
  /\ UNCHANGED <<present, want, cycles, broken>>

(* The finally clause: the key is deleted without asking whose it is. *)
Leave(p) ==
  /\ pc[p] = "context"
  /\ present' = present \ {want[p]}
  /\ Move(p, "idle")
  /\ broken' = StillBroken(broken)
  /\ UNCHANGED <<want, cycles>>

(* The worker dies in the context; a new worker takes its place.  The lock *)
(* key stays in the cache.                                                 *)
Crash(p) ==
  /\ pc[p] = "context"
  /\ Move(p, "idle")
  /\ broken' = StillBroken(broken)
  /\ UNCHANGED <<present, want, cycles>>

Acquire(p) ==
  \/ AddSucceeds(p)
  \/ AddFails(p)
  \/ Clear(p)
  \/ AddAfterClear(p)
  \/ AssertionFails(p)

Next ==
  \E p \in Procs :
    \/ \E k \in Keys : Start(p, k)
    \/ Acquire(p)
    \/ Leave(p)
    \/ Crash(p)

Spec == Init /\ [][Next]_vars

(* A sleeping poll loop always goes on: time.sleep returns and the loop    *)
(* has no blocking call.  Nothing is assumed about Leave: a holder may     *)
(* stay in its context for ever.                                           *)
Fairness == \A p \in Procs : WF_vars(Acquire(p))

FairSpec == Spec /\ Fairness

-----------------------------------------------------------------------------
(* Two workers are in contexts of the same key only as an aftermath of a   *)
(* cache.clear() that hit a held lock; the aftermath ends as soon as       *)
(* nobody is in a context of that key.  A crash never breaks exclusion.    *)
ExclusiveUnlessWiped ==
  \A k \in Keys \ broken : \A p, q \in Procs :
    InContext(p, k) /\ InContext(q, k) => p = q

(* In a context whose key is not in such an aftermath, the key really is   *)
(* in the cache, so that a second request cannot enter.                    *)
HeldUnlessWiped ==
  \A p \in Procs : pc[p] = "context" /\ want[p] \notin broken => want[p] \in present

(* The lock keeps the promise of KeyLock: polling, sleeping and the orphans *)
(* of crashed workers are invisible to the code in the contexts.            *)
Lock == INSTANCE KeyLock WITH
  holders <- [k \in Keys |-> {p \in Procs : InContext(p, k)}]

ImplementsKeyLock == Lock!Spec

(* No request waits for ever, not even for the lock of a dead worker.      *)
NoEndlessWait ==
  \A p \in Procs : pc[p] = "polling" ~> pc[p] \in {"context", "failed"}
=============================================================================
