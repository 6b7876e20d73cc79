-------------------------- MODULE CacheLock_proofs --------------------------
(***************************************************************************)
(* CacheLock for any number of workers, lock keys and polling cycles: its  *)
(* type invariant, the exclusion it provides, and that it implements       *)
(* KeyLock.                                                                *)
(***************************************************************************)
EXTENDS CacheLock, TLAPS

(* Every variable keeps its range, the countdown of a waiter included: it  *)
(* never falls below zero.                                                 *)
THEOREM TypeCorrect == Spec => []TypeOK
<1>1. Init => TypeOK
  BY CyclesAssumption DEF Init, TypeOK, States
<1>2. TypeOK /\ [Next]_vars => TypeOK'
  <2> SUFFICES ASSUME TypeOK, [Next]_vars
               PROVE  TypeOK'
    OBVIOUS
  <2> USE CyclesAssumption DEF TypeOK, States, Move
  <2>1. ASSUME NEW p \in Procs, NEW k \in Keys, Start(p, k)
        PROVE  TypeOK'
    BY <2>1 DEF Start
  <2>2. ASSUME NEW p \in Procs, AddSucceeds(p)
        PROVE  TypeOK'
    BY <2>2 DEF AddSucceeds
  <2>3. ASSUME NEW p \in Procs, AddFails(p)
        PROVE  TypeOK'
    BY <2>3 DEF AddFails, MorePolls
  <2>4. ASSUME NEW p \in Procs, Clear(p)
        PROVE  TypeOK'
    BY <2>4 DEF Clear
  <2>5. ASSUME NEW p \in Procs, AddAfterClear(p)
        PROVE  TypeOK'
    BY <2>5 DEF AddAfterClear
  <2>6. ASSUME NEW p \in Procs, AssertionFails(p)
        PROVE  TypeOK'
    BY <2>6 DEF AssertionFails
  <2>7. ASSUME NEW p \in Procs, Leave(p)
        PROVE  TypeOK'
    BY <2>7 DEF Leave, StillBroken
  <2>8. ASSUME NEW p \in Procs, Crash(p)
        PROVE  TypeOK'
    BY <2>8 DEF Crash, StillBroken
  <2>9. CASE UNCHANGED vars
    BY <2>9 DEF vars
  <2> QED
    BY <2>1, <2>2, <2>3, <2>4, <2>5, <2>6, <2>7, <2>8, <2>9 DEF Next, Acquire
<1> QED
  BY <1>1, <1>2, PTL DEF Spec

(* The facts are inductive together: a worker gets in only if the key is   *)
(* absent, the key of every unbroken context is present, and a broken key  *)
(* has a worker in a context of it.                                        *)
BrokenIsHeld == \A k \in broken : Held(k)

Exclusion == ExclusiveUnlessWiped /\ HeldUnlessWiped /\ BrokenIsHeld

(* The step from a state that satisfies Exclusion to its successor. *)
LEMMA ExclusionStep ==
  TypeOK /\ Exclusion /\ [Next]_vars => Exclusion'
<1> SUFFICES ASSUME TypeOK, Exclusion, [Next]_vars
             PROVE  Exclusion'
  OBVIOUS
<1> USE DEF TypeOK, States, Move, Exclusion, ExclusiveUnlessWiped, HeldUnlessWiped, BrokenIsHeld, Held, InContext
<1>1. ASSUME NEW p \in Procs, NEW k \in Keys, Start(p, k)
      PROVE  Exclusion'
  BY <1>1 DEF Start
<1>2. ASSUME NEW p \in Procs, AddSucceeds(p)
      PROVE  Exclusion'
  BY <1>2 DEF AddSucceeds, Free
<1>3. ASSUME NEW p \in Procs, AddFails(p)
      PROVE  Exclusion'
  BY <1>3 DEF AddFails
<1>4. ASSUME NEW p \in Procs, Clear(p)
      PROVE  Exclusion'
  BY <1>4 DEF Clear
<1>5. ASSUME NEW p \in Procs, AddAfterClear(p)
      PROVE  Exclusion'
  BY <1>5 DEF AddAfterClear, Free
<1>6. ASSUME NEW p \in Procs, AssertionFails(p)
      PROVE  Exclusion'
  BY <1>6 DEF AssertionFails
<1>7. ASSUME NEW p \in Procs, Leave(p)
      PROVE  Exclusion'
  BY <1>7 DEF Leave, StillBroken
<1>8. ASSUME NEW p \in Procs, Crash(p)
      PROVE  Exclusion'
  BY <1>8 DEF Crash, StillBroken
<1>9. CASE UNCHANGED vars
  BY <1>9 DEF vars
<1> QED
  BY <1>1, <1>2, <1>3, <1>4, <1>5, <1>6, <1>7, <1>8, <1>9 DEF Next, Acquire

LEMMA ExclusionInvariant == Spec => []Exclusion
<1>1. Init => Exclusion
  BY DEF Init, Exclusion, ExclusiveUnlessWiped, HeldUnlessWiped, BrokenIsHeld, InContext
<1>2. TypeOK /\ Exclusion /\ [Next]_vars => Exclusion'
  BY ExclusionStep
<1> QED
  BY <1>1, <1>2, TypeCorrect, PTL DEF Spec

(* The lock excludes a second worker except in the aftermath of a wipe     *)
(* that hit a held lock, and the aftermath ends with the last context.     *)
THEOREM Safety == Spec => []ExclusiveUnlessWiped
<1>1. Exclusion => ExclusiveUnlessWiped
  BY DEF Exclusion
<1> QED
  BY <1>1, ExclusionInvariant, PTL

(* Whoever is in a context holds the lock key in the cache, except in that *)
(* aftermath, so that the next "add" fails.                                *)
THEOREM LockIsHeld == Spec => []HeldUnlessWiped
<1>1. Exclusion => HeldUnlessWiped
  BY DEF Exclusion
<1> QED
  BY <1>1, ExclusionInvariant, PTL

(* A step of the polling lock is a step of the abstract lock or invisible: *)
(* only entering, leaving, dying and wiping are seen.                      *)
LEMMA StepRefines ==
  TypeOK /\ Exclusion /\ [Next]_vars => [Lock!Next]_(Lock!vars)
<1> SUFFICES ASSUME TypeOK, Exclusion, [Next]_vars
             PROVE  [Lock!Next]_(Lock!vars)
  OBVIOUS
<1> DEFINE holders == [k \in Keys |-> {p \in Procs : InContext(p, k)}]
<1> USE DEF TypeOK, States, Move, InContext
<1>1. ASSUME NEW p \in Procs, NEW k \in Keys, Start(p, k)
      PROVE  UNCHANGED <<holders, broken>>
  BY <1>1 DEF Start
<1>2. ASSUME NEW p \in Procs, NEW k \in Keys, want[p] = k, pc[p] \in {"polling", "adding"},
             Free(p), Move(p, "context"), UNCHANGED <<want, broken>>
      PROVE  Lock!Enter(p, k)
  <2>1. holders[k] = {} \/ k \in broken
    BY <1>2 DEF Exclusion, HeldUnlessWiped, Free
  <2>2. holders' = [holders EXCEPT ![k] = @ \cup {p}]
    BY <1>2, ZenonT(30)
  <2> QED
    BY <1>2, <2>1, <2>2 DEF Lock!Enter
<1>3. ASSUME NEW p \in Procs, AddFails(p)
      PROVE  UNCHANGED <<holders, broken>>
  BY <1>3 DEF AddFails
<1>4. ASSUME NEW p \in Procs, Clear(p)
      PROVE  Lock!Wipe
  BY <1>4 DEF Clear, Held, Lock!Wipe
<1>5. ASSUME NEW p \in Procs, AssertionFails(p)
      PROVE  UNCHANGED <<holders, broken>>
  BY <1>5 DEF AssertionFails
<1>6. ASSUME NEW p \in Procs, NEW k \in Keys, want[p] = k, pc[p] = "context", Move(p, "idle"),
             UNCHANGED want, broken' = StillBroken(broken)
      PROVE  Lock!Exit(p, k)
  <2>1. p \in holders[k]
    BY <1>6
  <2>2. holders' = [holders EXCEPT ![k] = @ \ {p}]
    BY <1>6
  <2>3. broken' = IF holders[k] = {p} THEN broken \ {k} ELSE broken
    <3>1. \A j \in broken \ {k} : \E q \in Procs : pc'[q] = "context" /\ want[q] = j
      BY <1>6 DEF Exclusion, BrokenIsHeld, Held
    <3>2. CASE holders[k] = {p}
      <4>1. ~ \E q \in Procs : pc'[q] = "context" /\ want[q] = k
        BY <1>6, <3>2
      <4> QED
        BY <1>6, <3>1, <3>2, <4>1 DEF StillBroken
    <3>3. CASE holders[k] # {p}
      <4>1. PICK q \in holders[k] : q # p
        BY <2>1, <3>3
      <4> QED
        BY <1>6, <3>1, <3>3, <4>1 DEF StillBroken
    <3> QED
      BY <3>2, <3>3
  <2> QED
    BY <2>1, <2>2, <2>3 DEF Lock!Exit
<1>7. CASE UNCHANGED vars
  BY <1>7 DEF vars, Lock!vars
<1>8. ASSUME NEW p \in Procs, AddSucceeds(p) \/ AddAfterClear(p)
      PROVE  Lock!Next
  <2>1. PICK k \in Keys : want[p] = k
    OBVIOUS
  <2>2. Lock!Enter(p, k)
    BY <1>2, <1>8, <2>1 DEF AddSucceeds, AddAfterClear
  <2> QED
    BY <2>2 DEF Lock!Next
<1>9. ASSUME NEW p \in Procs, Leave(p) \/ Crash(p)
      PROVE  Lock!Next
  <2>1. PICK k \in Keys : want[p] = k
    OBVIOUS
  <2>2. Lock!Exit(p, k)
    BY <1>6, <1>9, <2>1 DEF Leave, Crash
  <2> QED
    BY <2>2 DEF Lock!Next
<1>10. ASSUME UNCHANGED <<holders, broken>>
       PROVE  UNCHANGED Lock!vars
  BY <1>10 DEF Lock!vars
<1>11. CASE \E p \in Procs : Acquire(p)
  BY <1>3, <1>4, <1>5, <1>8, <1>10, <1>11 DEF Acquire, Lock!Next
<1>12. CASE \E p \in Procs : Leave(p) \/ Crash(p)
  BY <1>9, <1>12
<1>13. CASE \E p \in Procs, k \in Keys : Start(p, k)
  BY <1>1, <1>10, <1>13
<1> QED
  BY <1>7, <1>11, <1>12, <1>13 DEF Next

(* The context manager is a KeyLock, with any number of polling cycles. *)
THEOREM Refinement == Spec => ImplementsKeyLock
<1>1. Init => Lock!Init
  BY DEF Init, Lock!Init, InContext
<1>2. TypeOK /\ Exclusion /\ [Next]_vars => [Lock!Next]_(Lock!vars)
  BY StepRefines
<1> QED
  BY <1>1, <1>2, TypeCorrect, ExclusionInvariant, PTL DEF Spec, ImplementsKeyLock, Lock!Spec
=============================================================================
