-------------------------- MODULE SheetCache_proofs --------------------------
(***************************************************************************)
(* SheetCache for any number of requests, layout hashes, saves, wipes and  *)
(* dead workers: its type invariant, that every cached item is registered  *)
(* in the key list of its object, that cached items are current unless     *)
(* saves and views overlapped, and that the requests use the locks as      *)
(* KeyLock promises it.                                                    *)
(***************************************************************************)
EXTENDS SheetCache, TLAPS

(* The requests and the places they can be at. *)
LEMMA Kinds ==
  /\ \A r \in Readers : r \in Requests /\ r \notin Writers
  /\ \A w \in Writers : w \in Requests /\ w \notin Readers /\ w # NoOne
  /\ \A r \in Readers : HashOf[r] \in Hashes
BY SheetCacheAssumption DEF Requests

(* The end of a request: what it had at hand is gone. *)
LEMMA EndKeepsTypes ==
  ASSUME TypeOK, NEW r \in Requests, End(r)
  PROVE  /\ row' \in [Objs -> Writers \cup {NoOne}]
         /\ pc' \in [Requests -> ReaderStates \cup WriterStates \cup LockStates]
         /\ \A q \in Readers : pc'[q] \in ReaderStates \cup LockStates
         /\ \A w \in Writers : pc'[w] \in WriterStates \cup LockStates
         /\ at' \in [Requests -> Objs]
         /\ hand' \in [Readers -> Content]
         /\ keys' \in [Requests -> SUBSET Hashes]
         /\ saved' \in [Writers -> Objs]
         /\ start' \in [Readers -> Versions]
<1> USE Kinds DEF TypeOK, End, Move
<1>1. Nothing \in Content /\ Nothing.ver \in Versions
  BY SheetCacheAssumption DEF Nothing, Content, Versions
<1>2. "idle" \in ReaderStates /\ "idle" \in WriterStates /\ "sample" \in Objs
  BY DEF ReaderStates, WriterStates, Objs
<1>3. row' \in [Objs -> Writers \cup {NoOne}]
  OBVIOUS
<1>4. pc' \in [Requests -> ReaderStates \cup WriterStates \cup LockStates]
  BY <1>2
<1>5. (\A q \in Readers : pc'[q] \in ReaderStates \cup LockStates)
      /\ \A w \in Writers : pc'[w] \in WriterStates \cup LockStates
  BY <1>2
<1>6. at' \in [Requests -> Objs] /\ keys' \in [Requests -> SUBSET Hashes]
  BY <1>2
<1>7. hand' \in [Readers -> Content] /\ start' \in [Readers -> Versions]
  BY <1>1
<1>8. saved' \in [Writers -> Objs]
  BY <1>2
<1> QED
  BY <1>3, <1>4, <1>5, <1>6, <1>7, <1>8

(* A request moves to another place: only the range of that is to be shown.*)
LEMMA MoveKeepsTypes ==
  ASSUME TypeOK, NEW r \in Requests, NEW to, Move(r, to),
         r \in Readers => to \in ReaderStates \cup LockStates,
         r \in Writers => to \in WriterStates \cup LockStates
  PROVE  /\ pc' \in [Requests -> ReaderStates \cup WriterStates \cup LockStates]
         /\ \A q \in Readers : pc'[q] \in ReaderStates \cup LockStates
         /\ \A w \in Writers : pc'[w] \in WriterStates \cup LockStates
BY Kinds DEF TypeOK, Move, Requests

(* Every variable keeps its range: versions do not exceed the bound, and   *)
(* what is cached or at hand is made of versions that there have been.     *)
LEMMA TypeStep ==
  TypeOK /\ [Next]_vars => TypeOK'
<1> SUFFICES ASSUME TypeOK, [Next]_vars
             PROVE  TypeOK'
  OBVIOUS
<1> USE Kinds DEF TypeOK, Objs, database, content, request, accidents
<1>1. ASSUME NEW r \in Requests, Acquire(r) \/ AddAfterClear(r)
      PROVE  TypeOK'
  <2>1. Move(r, "locked")
    BY <1>1 DEF Acquire, AddAfterClear
  <2> QED
    BY <1>1, <2>1, MoveKeepsTypes DEF Acquire, AddAfterClear, LockStates, InContextStates
<1>2. ASSUME NEW r \in Requests, LosePatience(r)
      PROVE  TypeOK'
  <2>1. Move(r, "adding")
    BY <1>2 DEF LosePatience
  <2>2. /\ item' \in [Objs -> [Hashes -> Content \cup {Missing}]]
        /\ list' \in [Objs -> SUBSET Hashes]
    BY <1>2 DEF LosePatience
  <2>3. locks' \in SUBSET Objs /\ broken' \in SUBSET Objs /\ tainted' \in SUBSET Objs
    BY <1>2 DEF LosePatience
  <2>4. mishaps' \in 0 .. MaxMishaps
    BY <1>2, SheetCacheAssumption DEF LosePatience
  <2>5. UNCHANGED <<db, row, at, hand, keys, saved, start>>
    BY <1>2 DEF LosePatience
  <2>6. "adding" \in LockStates
    BY DEF LockStates
  <2> QED
    BY <2>1, <2>2, <2>3, <2>4, <2>5, <2>6, MoveKeepsTypes
<1>3. ASSUME NEW r \in Requests, AssertionFails(r)
      PROVE  TypeOK'
  BY <1>3, EndKeepsTypes DEF AssertionFails
<1>4. ASSUME NEW r \in Requests, Die(r)
      PROVE  TypeOK'
  BY <1>4, EndKeepsTypes, SheetCacheAssumption DEF Die, StillBroken
<1>5. ASSUME NEW r \in Readers, Begin(r)
      PROVE  TypeOK'
  <2>1. Move(r, "looking")
    BY <1>5 DEF Begin
  <2>2. [ver |-> db, risky |-> Saving] \in Content
    BY DEF Content, Saving
  <2> QED
    BY <1>5, <2>1, <2>2, MoveKeepsTypes DEF Begin, ReaderStates
<1>6. ASSUME NEW r \in Readers, Cached(r) # Missing
      PROVE  Taken(r) \in Content
  <2>1. Cached(r) \in Content
    BY <1>6 DEF Cached
  <2> QED
    BY <2>1 DEF Taken, Content
<1>7. ASSUME NEW r \in Readers, SheetHit(r)
      PROVE  TypeOK'
  <2>1. Move(r, "serving") /\ Taken(r) \in Content
    BY <1>6, <1>7 DEF SheetHit
  <2> QED
    BY <1>7, <2>1, MoveKeepsTypes DEF SheetHit, ReaderStates
<1>8. ASSUME NEW r \in Readers, SheetMiss(r)
      PROVE  TypeOK'
  <2>1. Move(r, "digesting")
    BY <1>8 DEF SheetMiss
  <2> QED
    BY <1>8, <2>1, MoveKeepsTypes DEF SheetMiss, ReaderStates
<1>9. ASSUME NEW r \in Readers, FetchProcess(r)
      PROVE  TypeOK'
  <2>1. Move(r, "fetched")
    BY <1>9 DEF FetchProcess
  <2>2. [hand[r] EXCEPT !.ver["process"] = db["process"]] \in Content
    BY SMTT(30) DEF Content, Versions
  <2> QED
    BY <1>9, <2>1, <2>2, MoveKeepsTypes DEF FetchProcess, ReaderStates
<1>10. ASSUME NEW r \in Readers, ProcessHit(r)
       PROVE  TypeOK'
  <2>1. Move(r, "waiting") /\ Taken(r) \in Content
    BY <1>6, <1>10 DEF ProcessHit
  <2>2. [Taken(r) EXCEPT !.ver["sample"] = hand[r].ver["sample"]] \in Content
    BY <2>1, SMTT(30) DEF Content, Versions
  <2> QED
    BY <1>10, <2>1, <2>2, MoveKeepsTypes DEF ProcessHit, LockStates
<1>11. ASSUME NEW r \in Readers, ProcessMiss(r)
       PROVE  TypeOK'
  <2>1. Move(r, "waiting")
    BY <1>11 DEF ProcessMiss
  <2> QED
    BY <1>11, <2>1, MoveKeepsTypes DEF ProcessMiss, LockStates
<1>12. ASSUME NEW r \in Requests, ReadList(r)
       PROVE  TypeOK'
  <2>1. Move(r, "listed")
    BY <1>12 DEF ReadList
  <2> QED
    BY <1>12, <2>1, MoveKeepsTypes DEF ReadList, LockStates, InContextStates
<1>13. ASSUME NEW r \in Readers, Register(r)
       PROVE  TypeOK'
  <2>1. Move(r, "registered")
    BY <1>13 DEF Register
  <2> QED
    BY <1>13, <2>1, MoveKeepsTypes DEF Register, LockStates, InContextStates
<1>14. ASSUME NEW r \in Readers, Store(r)
       PROVE  TypeOK'
  <2>1. Move(r, "done")
    BY <1>14 DEF Store
  <2> QED
    BY <1>14, <2>1, MoveKeepsTypes DEF Store, LockStates, InContextStates
<1>15. ASSUME NEW r \in Readers, LeaveAsReader(r)
       PROVE  TypeOK'
  <2>1. Move(r, IF at[r] = "process" THEN "waiting" ELSE "serving")
    BY <1>15 DEF LeaveAsReader
  <2> QED
    BY <1>15, <2>1, MoveKeepsTypes DEF LeaveAsReader, Unlock, StillBroken, LockStates, ReaderStates
<1>16. ASSUME NEW r \in Readers, Respond(r)
       PROVE  TypeOK'
  BY <1>16, EndKeepsTypes DEF Respond
<1>17. ASSUME NEW w \in Writers, NEW o \in Objs, BeginSave(w, o)
       PROVE  TypeOK'
  <2>1. Move(w, "waiting")
    BY <1>17 DEF BeginSave
  <2>2. ASSUME NEW c \in Content, NEW b \in BOOLEAN
        PROVE  [c EXCEPT !.risky = @ \/ b] \in Content
    BY DEF Content
  <2>3. hand' \in [Readers -> Content]
    BY <1>17, <2>2 DEF BeginSave
  <2> QED
    BY <1>17, <2>1, <2>3, MoveKeepsTypes DEF BeginSave, LockStates
<1>18. ASSUME NEW w \in Writers, Purge(w)
       PROVE  TypeOK'
  <2>1. Move(w, "purged")
    BY <1>18 DEF Purge
  <2> QED
    BY <1>18, <2>1, MoveKeepsTypes DEF Purge, LockStates, InContextStates
<1>19. ASSUME NEW w \in Writers, DropList(w)
       PROVE  TypeOK'
  <2>1. Move(w, "done")
    BY <1>19 DEF DropList
  <2> QED
    BY <1>19, <2>1, MoveKeepsTypes DEF DropList, LockStates, InContextStates
<1>20. ASSUME NEW w \in Writers, LeaveAsWriter(w)
       PROVE  TypeOK'
  <2>1. Move(w, "updating")
    BY <1>20 DEF LeaveAsWriter
  <2> QED
    BY <1>20, <2>1, MoveKeepsTypes DEF LeaveAsWriter, Unlock, StillBroken, WriterStates
<1>21. ASSUME NEW w \in Writers, UpdateRow(w)
       PROVE  TypeOK'
  <2>1. Move(w, IF at[w] = "process" THEN "waiting" ELSE "committing")
    BY <1>21 DEF UpdateRow
  <2> QED
    BY <1>21, <2>1, MoveKeepsTypes DEF UpdateRow, LockStates, WriterStates
<1>22. ASSUME NEW w \in Writers, Commit(w)
       PROVE  TypeOK'
  <2>1. db' \in Versions
    BY <1>22, SheetCacheAssumption DEF Commit, Versions
  <2> QED
    BY <1>22, <2>1, EndKeepsTypes DEF Commit
<1>23. ASSUME NEW w \in Writers, Rollback(w)
       PROVE  TypeOK'
  BY <1>23, EndKeepsTypes DEF Rollback
<1>24. CASE UNCHANGED vars
  BY <1>24 DEF vars
<1> QED
  BY <1>1, <1>2, <1>3, <1>4, <1>5, <1>7, <1>8, <1>9, <1>10, <1>11, <1>12, <1>13, <1>14, <1>15, <1>16,
     <1>17, <1>18, <1>19, <1>20, <1>21, <1>22, <1>23, <1>24 DEF Next, ViewStep, SaveStep

(* Requests only ever get to places of their kind, and what is cached or   *)
(* at hand is made of versions that have been committed.                   *)
THEOREM TypeCorrect == Spec => []TypeOK
<1>1. Init => TypeOK
  BY Kinds, SheetCacheAssumption DEF Init, TypeOK, Versions, Content, Nothing, Objs, ReaderStates, WriterStates, Requests
<1> QED
  BY <1>1, TypeStep, PTL DEF Spec

-----------------------------------------------------------------------------
(* How a step changes who is in the contexts, and with it the locks, the   *)
(* broken objects and the tainted objects.                                 *)

Stays ==
  /\ \A q \in Requests, o \in Objs : InContext(q, o)' <=> InContext(q, o)
  /\ UNCHANGED <<locks, broken, tainted>>

Enters(r) ==
  /\ at[r] \notin locks
  /\ \A q \in Requests, o \in Objs : InContext(q, o)' <=> InContext(q, o) \/ (q = r /\ o = at[r])
  /\ locks' = locks \cup {at[r]}
  /\ UNCHANGED <<broken, tainted>>

Leaves(r) ==
  /\ InContext(r, at[r])
  /\ \A q \in Requests, o \in Objs : InContext(q, o)' <=> InContext(q, o) /\ q # r
  /\ locks \ {at[r]} \subseteq locks'
  /\ broken' = {o \in broken : \E q \in Requests : InContext(q, o)'}
  /\ UNCHANGED tainted

Occupied == {o \in Objs : \E q \in Requests : InContext(q, o)}

Wipes ==
  /\ \A q \in Requests, o \in Objs : InContext(q, o)' <=> InContext(q, o)
  /\ broken' = broken \cup Occupied
  /\ tainted' = Occupied

(* Every step is of one of these kinds.                                    *)
LEMMA StepKinds ==
  ASSUME TypeOK, [Next]_vars
  PROVE  Stays \/ Wipes \/ \E r \in Requests : Enters(r) \/ Leaves(r)
<1> USE Kinds DEF TypeOK, InContext, InContextStates, Move, database, content, request, accidents
<1>1. ASSUME NEW r \in Requests, Acquire(r) \/ AddAfterClear(r)
      PROVE  Enters(r)
  BY <1>1 DEF Acquire, AddAfterClear, Enters
<1>2. ASSUME NEW r \in Requests, LosePatience(r)
      PROVE  Wipes
  BY <1>2 DEF LosePatience, Wipes, Occupied
<1>3. ASSUME NEW r \in Requests, Die(r)
      PROVE  Leaves(r)
  BY <1>3 DEF Die, End, StillBroken, Leaves
<1>4. ASSUME NEW r \in Requests, AssertionFails(r)
      PROVE  Stays
  BY <1>4 DEF AssertionFails, End, Stays
<1>5. ASSUME NEW r \in Requests, ReadList(r)
      PROVE  Stays
  BY <1>5 DEF ReadList, Stays
<1>6. ASSUME NEW r \in Readers, LeaveAsReader(r)
      PROVE  Leaves(r)
  BY <1>6 DEF LeaveAsReader, Unlock, StillBroken, Leaves
<1>7. ASSUME NEW w \in Writers, LeaveAsWriter(w)
      PROVE  Leaves(w)
  BY <1>7 DEF LeaveAsWriter, Unlock, StillBroken, Leaves
<1>8. ASSUME NEW r \in Readers, Begin(r) \/ SheetHit(r) \/ SheetMiss(r) \/ FetchProcess(r)
                                \/ ProcessHit(r) \/ ProcessMiss(r)
      PROVE  Stays
  BY <1>8 DEF Begin, SheetHit, SheetMiss, FetchProcess, ProcessHit, ProcessMiss, Stays
<1>9. ASSUME NEW r \in Readers, Register(r) \/ Store(r)
      PROVE  Stays
  BY <1>9 DEF Register, Store, Stays
<1>10. ASSUME NEW r \in Readers, Respond(r)
       PROVE  Stays
  BY <1>10 DEF Respond, End, Stays
<1>11. ASSUME NEW w \in Writers, Purge(w) \/ DropList(w)
       PROVE  Stays
  BY <1>11 DEF Purge, DropList, Stays
<1>12. ASSUME NEW w \in Writers, NEW o \in Objs, BeginSave(w, o)
       PROVE  Stays
  BY <1>12 DEF BeginSave, Stays
<1>13. ASSUME NEW w \in Writers, UpdateRow(w)
       PROVE  Stays
  BY <1>13 DEF UpdateRow, Stays
<1>14. ASSUME NEW w \in Writers, Commit(w) \/ Rollback(w)
       PROVE  Stays
  BY <1>14 DEF Commit, Rollback, End, Stays
<1>15. CASE UNCHANGED vars
  BY <1>15 DEF vars, Stays
<1> QED
  BY <1>1, <1>2, <1>3, <1>4, <1>5, <1>6, <1>7, <1>8, <1>9, <1>10, <1>11, <1>12, <1>13, <1>14, <1>15
  DEF Next, ViewStep, SaveStep

(* Two requests are in the contexts of an object only in the aftermath of  *)
(* a wipe, which lasts as long as somebody is in one of them; and what is  *)
(* in this state is tainted, too.                                          *)
Exclusion ==
  /\ \A q, r \in Requests, o \in Objs :
       InContext(q, o) /\ InContext(r, o) /\ q # r => o \in broken
  /\ \A r \in Requests, o \in Objs : InContext(r, o) /\ o \notin broken => o \in locks
  /\ \A o \in broken : \E r \in Requests : InContext(r, o)
  /\ broken \subseteq tainted

LEMMA ExclusionStep ==
  ASSUME TypeOK, Exclusion, [Next]_vars
  PROVE  Exclusion'
<1> USE DEF TypeOK, Exclusion
<1>1. CASE Stays
  BY <1>1 DEF Stays
<1>2. CASE Wipes
  BY <1>2 DEF Wipes, Occupied
<1>3. ASSUME NEW r \in Requests, Enters(r)
      PROVE  Exclusion'
  BY <1>3 DEF Enters
<1>4. ASSUME NEW r \in Requests, Leaves(r)
      PROVE  Exclusion'
  <2>1. \A q \in Requests, o \in Objs :
          InContext(q, o)' => InContext(q, o) /\ q # r
    BY <1>4 DEF Leaves
  <2>2. \A p, q \in Requests, o \in Objs :
          InContext(p, o)' /\ InContext(q, o)' /\ p # q => o \in broken'
    BY <1>4, <2>1 DEF Leaves
  <2>3. \A q \in Requests, o \in Objs : InContext(q, o)' /\ o \notin broken' => o \in locks'
    <3>1. SUFFICES ASSUME NEW q \in Requests, NEW o \in Objs, InContext(q, o)', o \notin broken'
                   PROVE  o \in locks'
      OBVIOUS
    <3>2. o \notin broken
      BY <1>4, <3>1 DEF Leaves
    <3>3. o # at[r]
      BY <1>4, <2>1, <3>1, <3>2 DEF Leaves
    <3> QED
      BY <1>4, <2>1, <3>1, <3>2, <3>3 DEF Leaves
  <2> QED
    BY <1>4, <2>2, <2>3 DEF Leaves
<1> QED
  BY <1>1, <1>2, <1>3, <1>4, StepKinds

(* The contexts are those of KeyLock: what enters, leaves and wipes here   *)
(* does so there, and any other step stutters.                             *)
Occupants == [o \in Objs |-> {r \in Requests : InContext(r, o)}]

LEMMA LockStep ==
  ASSUME TypeOK, Exclusion, [Next]_vars
  PROVE  [Lock!Next]_(Lock!vars)
<1> USE DEF TypeOK, Exclusion, Lock!vars, Lock!Next
<1>1. CASE Stays
  <2>1. Occupants' = Occupants /\ broken' = broken
    BY <1>1 DEF Stays, Occupants
  <2> QED
    BY <2>1 DEF Occupants
<1>2. CASE Wipes
  <2>1. Occupants' = Occupants
    BY <1>2 DEF Wipes, Occupants
  <2>2. broken' = broken \cup {o \in Objs : Occupants[o] # {}}
    BY <1>2 DEF Wipes, Occupied, Occupants
  <2>3. Lock!Wipe
    BY <2>1, <2>2 DEF Lock!Wipe, Occupants
  <2> QED
    BY <2>3
<1>3. ASSUME NEW r \in Requests, Enters(r)
      PROVE  \E o \in Objs : Lock!Enter(r, o)
  <2>1. at[r] \in Objs
    OBVIOUS
  <2>2. Occupants[at[r]] = {} \/ at[r] \in broken
    BY <1>3, <2>1 DEF Enters, Occupants
  <2>3. Occupants' = [Occupants EXCEPT ![at[r]] = @ \cup {r}]
    <3>1. \A o \in Objs : Occupants'[o] = IF o = at[r] THEN Occupants[o] \cup {r} ELSE Occupants[o]
      BY <1>3, <2>1 DEF Enters, Occupants
    <3> QED
      BY <2>1, <3>1 DEF Occupants
  <2>4. Lock!Enter(r, at[r])
    BY <1>3, <2>2, <2>3 DEF Lock!Enter, Enters, Occupants
  <2> QED
    BY <2>1, <2>4
<1>4. ASSUME NEW r \in Requests, Leaves(r)
      PROVE  \E o \in Objs : Lock!Exit(r, o)
  <2>1. at[r] \in Objs /\ r \in Occupants[at[r]]
    BY <1>4 DEF Leaves, Occupants
  <2>2. \A q \in Requests, o \in Objs : InContext(q, o)' <=> InContext(q, o) /\ q # r
    BY <1>4 DEF Leaves
  <2>3. \A o \in Objs : InContext(r, o) => o = at[r]
    BY DEF InContext
  <2>4. Occupants' = [Occupants EXCEPT ![at[r]] = @ \ {r}]
    BY <2>2, <2>3 DEF Occupants
  <2>5. broken' = IF Occupants[at[r]] = {r} THEN broken \ {at[r]} ELSE broken
    <3>1. \A o \in broken : o # at[r] => o \in broken'
      BY <1>4, <2>2, <2>3 DEF Leaves
    <3>2. broken' \subseteq broken
      BY <1>4 DEF Leaves
    <3>3. at[r] \in broken => (at[r] \in broken' <=> Occupants[at[r]] # {r})
      BY <1>4, <2>1, <2>2 DEF Leaves, Occupants
    <3>4. CASE Occupants[at[r]] = {r}
      <4>1. at[r] \notin broken'
        BY <3>2, <3>3, <3>4
      <4>2. broken' = broken \ {at[r]}
        BY <3>1, <3>2, <4>1
      <4> QED
        BY <3>4, <4>2
    <3>5. CASE Occupants[at[r]] # {r}
      <4>1. broken' = broken
        BY <3>1, <3>2, <3>3, <3>5
      <4> QED
        BY <3>5, <4>1
    <3> QED
      BY <3>4, <3>5
  <2>6. Lock!Exit(r, at[r])
    BY <2>1, <2>4, <2>5 DEF Lock!Exit, Occupants
  <2> QED
    BY <2>1, <2>6
<1> QED
  BY <1>1, <1>2, <1>3, <1>4, StepKinds

LEMMA Start ==
  Init => TypeOK /\ Exclusion /\ Lock!Init
<1>1. Init => TypeOK
  BY Kinds, SheetCacheAssumption DEF Init, TypeOK, Versions, Content, Nothing, Objs, ReaderStates, WriterStates, Requests
<1>2. Init => \A r \in Requests, o \in Objs : ~InContext(r, o)
  BY DEF Init, InContext, InContextStates
<1> QED
  BY <1>1, <1>2 DEF Init, Exclusion, Lock!Init

(* The requests use the locks of the key lists as KeyLock promises it:     *)
(* nobody enters the context of an object while another one is in it,      *)
(* except in the aftermath of a wipe.                                      *)
THEOREM Refinement == Spec => ImplementsKeyLock
<1>1. TypeOK /\ Exclusion /\ [Next]_vars => TypeOK' /\ Exclusion' /\ [Lock!Next]_(Lock!vars)
  BY TypeStep, ExclusionStep, LockStep
<1> QED
  BY <1>1, Start, PTL DEF Spec, ImplementsKeyLock, Lock!Spec

-----------------------------------------------------------------------------
(* What a request in the context of an untainted object relies on: the key *)
(* list it has read is still the key list, the item it is about to store   *)
(* is registered, and after a purge nothing is cached.                     *)
Relied(r) ==
  InContext(r, at[r]) /\ at[r] \notin tainted =>
    /\ pc[r] = "listed" => keys[r] = list[at[r]]
    /\ pc[r] = "registered" => HashOf[r] \in list[at[r]]
    /\ pc[r] = "purged" => \A h \in Hashes : item[at[r]][h] = Missing

CacheInv ==
  /\ TypeOK
  /\ Exclusion
  /\ Registered
  /\ \A r \in Requests : Relied(r)

(* A step of request r that leaves items and key lists alone.              *)
Quiet(r) ==
  /\ \A q \in Requests \ {r} : pc'[q] = pc[q] /\ at'[q] = at[q] /\ keys'[q] = keys[q]
  /\ pc'[r] \notin {"listed", "registered", "purged"}
  /\ UNCHANGED <<item, list, tainted>>

LEMMA QuietStep ==
  ASSUME CacheInv, TypeOK', NEW r \in Requests, Quiet(r)
  PROVE  Registered' /\ \A q \in Requests : Relied(q)'
<1>1. Registered'
  BY DEF CacheInv, Registered, Quiet
<1>2. ASSUME NEW q \in Requests
      PROVE  Relied(q)'
  BY <1>2 DEF CacheInv, Quiet, Relied, InContext
<1> QED
  BY <1>1, <1>2

(* Who else is in a context is in the one of another object, unless the    *)
(* object is tainted.                                                      *)
LEMMA Alone ==
  ASSUME CacheInv, NEW r \in Requests, InContext(r, at[r]), at[r] \notin tainted,
         NEW q \in Requests, q # r, InContext(q, at[q])
  PROVE  at[q] # at[r]
BY DEF CacheInv, TypeOK, Exclusion

LEMMA RegisteredStep ==
  ASSUME CacheInv, TypeOK', [Next]_vars
  PROVE  Registered' /\ \A q \in Requests : Relied(q)'
<1> USE Kinds DEF Move, InContext, InContextStates, database, content, request, accidents
<1> TypeOK /\ Registered /\ \A r \in Requests : Relied(r)
  BY DEF CacheInv
<1>1. ASSUME NEW r \in Requests, Quiet(r)
      PROVE  Registered' /\ \A q \in Requests : Relied(q)'
  BY <1>1, QuietStep
<1>2. ASSUME NEW r \in Requests, LosePatience(r)
      PROVE  Registered' /\ \A q \in Requests : Relied(q)'
  <2>1. Registered'
    BY <1>2 DEF LosePatience, Registered, TypeOK
  <2>2. \A q \in Requests : InContext(q, at[q])' => at'[q] \in tainted'
    BY <1>2 DEF LosePatience, TypeOK
  <2> QED
    BY <2>1, <2>2 DEF Relied
<1>3. ASSUME NEW r \in Requests, ReadList(r)
      PROVE  Registered' /\ \A q \in Requests : Relied(q)'
  BY <1>3 DEF ReadList, Registered, Relied, TypeOK
<1>4. ASSUME NEW r \in Readers, Register(r)
      PROVE  Registered' /\ \A q \in Requests : Relied(q)'
  <2>1. Relied(r)'
    BY <1>4 DEF Register, Relied, TypeOK
  <2>2. \A q \in Requests \ {r} : Relied(q)'
    BY <1>4, Alone DEF Register, Relied, TypeOK
  <2>3. Registered'
    BY <1>4 DEF Register, Registered, Relied, TypeOK
  <2> QED
    BY <2>1, <2>2, <2>3
<1>5. ASSUME NEW r \in Readers, Store(r)
      PROVE  Registered' /\ \A q \in Requests : Relied(q)'
  <2>1. Relied(r)'
    BY <1>5 DEF Store, Relied, TypeOK
  <2>2. \A q \in Requests \ {r} : Relied(q)'
    BY <1>5, Alone DEF Store, Relied, TypeOK
  <2>3. Registered'
    BY <1>5 DEF Store, Registered, Relied, TypeOK
  <2> QED
    BY <2>1, <2>2, <2>3
<1>6. ASSUME NEW w \in Writers, Purge(w)
      PROVE  Registered' /\ \A q \in Requests : Relied(q)'
  <2>1. Relied(w)'
    BY <1>6 DEF Purge, Registered, Relied, TypeOK
  <2>2. \A q \in Requests \ {w} : Relied(q)'
    BY <1>6, Alone DEF Purge, Relied, TypeOK
  <2>3. Registered'
    BY <1>6 DEF Purge, Registered, TypeOK
  <2> QED
    BY <2>1, <2>2, <2>3
<1>7. ASSUME NEW w \in Writers, DropList(w)
      PROVE  Registered' /\ \A q \in Requests : Relied(q)'
  <2>1. Relied(w)'
    BY <1>7 DEF DropList, Relied, TypeOK
  <2>2. \A q \in Requests \ {w} : Relied(q)'
    BY <1>7, Alone DEF DropList, Relied, TypeOK
  <2>3. Registered'
    BY <1>7 DEF DropList, Registered, Relied, TypeOK
  <2> QED
    BY <2>1, <2>2, <2>3
<1>8. ASSUME NEW r \in Requests, Acquire(r) \/ AddAfterClear(r)
      PROVE  Quiet(r)
  BY <1>8 DEF Acquire, AddAfterClear, Quiet, TypeOK
<1>9. ASSUME NEW r \in Requests, AssertionFails(r) \/ Die(r)
      PROVE  Quiet(r)
  BY <1>9 DEF AssertionFails, Die, End, Quiet, TypeOK
<1>10. ASSUME NEW r \in Readers, Begin(r) \/ SheetHit(r) \/ SheetMiss(r) \/ FetchProcess(r)
                                 \/ ProcessHit(r) \/ ProcessMiss(r)
       PROVE  Quiet(r)
  BY <1>10 DEF Begin, SheetHit, SheetMiss, FetchProcess, ProcessHit, ProcessMiss, Quiet, TypeOK
<1>11. ASSUME NEW r \in Readers, LeaveAsReader(r)
       PROVE  Quiet(r)
  BY <1>11 DEF LeaveAsReader, Unlock, Quiet, TypeOK
<1>12. ASSUME NEW r \in Readers, Respond(r)
       PROVE  Quiet(r)
  BY <1>12 DEF Respond, End, Quiet, TypeOK
<1>13. ASSUME NEW w \in Writers, NEW o \in Objs, BeginSave(w, o)
       PROVE  Quiet(w)
  BY <1>13 DEF BeginSave, Quiet, TypeOK
<1>14. ASSUME NEW w \in Writers, LeaveAsWriter(w) \/ UpdateRow(w)
       PROVE  Quiet(w)
  BY <1>14 DEF LeaveAsWriter, Unlock, UpdateRow, Quiet, TypeOK
<1>15. ASSUME NEW w \in Writers, Commit(w) \/ Rollback(w)
       PROVE  Quiet(w)
  BY <1>15 DEF Commit, Rollback, End, Quiet, TypeOK
<1>16. CASE UNCHANGED vars
  BY <1>16 DEF vars, Registered, Relied
<1> QED
  BY <1>1, <1>2, <1>3, <1>4, <1>5, <1>6, <1>7, <1>8, <1>9, <1>10, <1>11, <1>12, <1>13, <1>14, <1>15, <1>16
  DEF Next, ViewStep, SaveStep

(* Every cached item is in the key list of its object, unless a wipe of    *)
(* the cache came during somebody's context, however many requests there   *)
(* are.                                                                    *)
THEOREM RegisteredAlways == Spec => []Registered
<1>1. Init => CacheInv
  BY Start DEF Init, CacheInv, Registered, Relied, InContext, InContextStates
<1>2. CacheInv /\ [Next]_vars => CacheInv'
  BY TypeStep, ExclusionStep, RegisteredStep DEF CacheInv
<1>3. CacheInv => Registered
  BY DEF CacheInv
<1> QED
  BY <1>1, <1>2, <1>3, PTL DEF Spec

-----------------------------------------------------------------------------
(* The objects of which a save has purged everything that had been cached  *)
(* before it began.                                                        *)
Purged(w) ==
  {o \in Objs :
     \/ pc[w] \in {"purged", "done", "updating", "committing"} /\ o = at[w]
     \/ pc[w] # "idle" /\ saved[w] = "process" /\ at[w] = "sample" /\ o = "process"}

PurgedIsRisky ==
  \A w \in Writers : \A o \in Purged(w) \ tainted : \A h \in Hashes : item[o][h] # Missing => item[o][h].risky

SavesInOrder ==
  \A w \in Writers : pc[w] # "idle" =>
    (at[w] = saved[w] \/ at[w] = "sample") /\ (pc[w] = "committing" => at[w] = "sample")

ViewsInOrder ==
  \A r \in Readers :
    /\ pc[r] \in {"idle", "looking"} => at[r] = "sample"
    /\ pc[r] \in {"digesting", "fetched"} => at[r] = "process"

(* Whoever shows a data sheet knows that a save is going on, and has read  *)
(* or taken from the cache what is committed if there was none.            *)
OverlapsAreRisky == \A w \in Writers, r \in Readers : pc[w] # "idle" /\ pc[r] # "idle" => hand[r].risky

HandsAreCurrent ==
  \A r \in Readers : pc[r] # "idle" /\ ~hand[r].risky => hand[r].ver = db /\ start[r] = db

Coherence ==
  /\ PurgedIsRisky
  /\ SavesInOrder
  /\ ViewsInOrder
  /\ OverlapsAreRisky
  /\ HandsAreCurrent
  /\ CoherentUnlessOverlapped

(* A step of a request that goes on with what it has.                      *)
GoesOn(r) ==
  /\ UNCHANGED <<db, item, hand, start, saved, tainted>>
  /\ \A q \in Requests \ {r} : pc'[q] = pc[q] /\ at'[q] = at[q]
  /\ pc[r] # "idle"
  /\ pc'[r] \notin {"idle", "looking", "fetched"}
  /\ pc'[r] = "digesting" => at'[r] = "process"
  /\ r \in Writers => /\ Purged(r)' \subseteq Purged(r)
                      /\ at'[r] = saved[r] \/ at'[r] = "sample"
                      /\ pc'[r] = "committing" => at'[r] = "sample"

LEMMA GoesOnStep ==
  ASSUME Coherence, NEW r \in Requests, GoesOn(r)
  PROVE  Coherence'
<1> USE Kinds DEF Coherence, GoesOn
<1>1. \A w \in Writers : Purged(w)' \subseteq Purged(w)
  BY DEF Purged
<1>2. PurgedIsRisky'
  BY <1>1 DEF PurgedIsRisky
<1>3. SavesInOrder' /\ ViewsInOrder'
  BY DEF SavesInOrder, ViewsInOrder
<1>4. OverlapsAreRisky' /\ HandsAreCurrent'
  BY DEF OverlapsAreRisky, HandsAreCurrent
<1>5. CoherentUnlessOverlapped'
  BY DEF CoherentUnlessOverlapped, Current
<1> QED
  BY <1>2, <1>3, <1>4, <1>5

(* The end of a request that has not committed anything.                   *)
LEMMA EndStep ==
  ASSUME TypeOK, Coherence, NEW r \in Requests, End(r), UNCHANGED <<db, item, tainted>>
  PROVE  Coherence'
<1> USE Kinds DEF Coherence, End, Move, TypeOK
<1>1. \A q \in Requests \ {r} : pc'[q] = pc[q] /\ at'[q] = at[q]
  OBVIOUS
<1>2. pc'[r] = "idle"
  OBVIOUS
<1>3. \A q \in Readers \ {r} : hand'[q] = hand[q] /\ start'[q] = start[q]
  OBVIOUS
<1>4. \A w \in Writers \ {r} : saved'[w] = saved[w]
  OBVIOUS
<1>12. at'[r] = "sample"
  OBVIOUS
<1> HIDE DEF End, TypeOK
<1>5. \A w \in Writers : Purged(w)' \subseteq Purged(w)
  BY <1>1, <1>2, <1>4 DEF Purged
<1>6. PurgedIsRisky'
  BY <1>5 DEF PurgedIsRisky
<1>7. SavesInOrder'
  BY <1>1, <1>2, <1>4 DEF SavesInOrder
<1>10. ViewsInOrder'
  BY <1>1, <1>2, <1>12 DEF ViewsInOrder
<1>8. OverlapsAreRisky' /\ HandsAreCurrent'
  BY <1>1, <1>2, <1>3 DEF OverlapsAreRisky, HandsAreCurrent
<1>9. CoherentUnlessOverlapped'
  BY DEF CoherentUnlessOverlapped, Current
<1> QED
  BY <1>6, <1>7, <1>8, <1>9, <1>10

(* A view request reads, or takes an item from the cache.                  *)
Looks(r) ==
  /\ UNCHANGED <<db, item, saved, tainted>>
  /\ \A q \in Requests \ {r} : pc'[q] = pc[q] /\ at'[q] = at[q]
  /\ \A q \in Readers \ {r} : hand'[q] = hand[q] /\ start'[q] = start[q]
  /\ pc'[r] \notin {"idle", "digesting"}
  /\ pc'[r] = "looking" => at'[r] = "sample"
  /\ pc'[r] = "fetched" => at'[r] = "process"
  /\ (\E w \in Writers : pc[w] # "idle") => hand'[r].risky
  /\ ~hand'[r].risky => hand'[r].ver = db /\ start'[r] = db

LEMMA LooksStep ==
  ASSUME Coherence, NEW r \in Readers, Looks(r)
  PROVE  Coherence'
<1> USE Kinds DEF Coherence, Looks
<1>1. \A w \in Writers : pc'[w] = pc[w] /\ at'[w] = at[w]
  OBVIOUS
<1>2. PurgedIsRisky' /\ SavesInOrder' /\ ViewsInOrder'
  BY <1>1 DEF PurgedIsRisky, SavesInOrder, ViewsInOrder, Purged
<1>3. OverlapsAreRisky' /\ HandsAreCurrent'
  BY <1>1 DEF OverlapsAreRisky, HandsAreCurrent
<1>4. CoherentUnlessOverlapped'
  BY DEF CoherentUnlessOverlapped, Current
<1> QED
  BY <1>2, <1>3, <1>4

(* What a request takes from the cache is current, unless it is risky.     *)
LEMMA TakenIsCurrent ==
  ASSUME TypeOK, Coherence, NEW r \in Readers, Cached(r) # Missing, pc[r] # "idle"
  PROVE  /\ Taken(r) \in Content
         /\ hand[r].risky => Taken(r).risky
         /\ ~Taken(r).risky => /\ hand[r].ver = db /\ start[r] = db
                               /\ \A x \in IF at[r] = "sample" THEN Objs ELSE {at[r]} : Taken(r).ver[x] = db[x]
<1>1. Cached(r) \in Content /\ Cached(r) = item[at[r]][HashOf[r]] /\ HashOf[r] \in Hashes /\ at[r] \in Objs
  BY Kinds DEF TypeOK, Cached
<1>2. hand[r].risky \in BOOLEAN
  BY DEF TypeOK, Content
<1>3. ASSUME NEW b \in BOOLEAN
      PROVE  /\ [Cached(r) EXCEPT !.risky = @ \/ b] \in Content
             /\ [Cached(r) EXCEPT !.risky = @ \/ b].ver = Cached(r).ver
             /\ [Cached(r) EXCEPT !.risky = @ \/ b].risky <=> Cached(r).risky \/ b
  BY <1>1 DEF Content
<1>4. Taken(r) = [Cached(r) EXCEPT !.risky = @ \/ (hand[r].risky \/ at[r] \in tainted)]
  BY <1>1, <1>2 DEF Taken, Content
<1>5. (hand[r].risky \/ at[r] \in tainted) \in BOOLEAN
  BY <1>2
<1>6. /\ Taken(r) \in Content /\ Taken(r).ver = Cached(r).ver
      /\ Taken(r).risky <=> Cached(r).risky \/ hand[r].risky \/ at[r] \in tainted
  BY <1>3, <1>4, <1>5
<1>7. ASSUME ~Taken(r).risky
      PROVE  /\ hand[r].ver = db /\ start[r] = db
             /\ \A x \in IF at[r] = "sample" THEN Objs ELSE {at[r]} : Taken(r).ver[x] = db[x]
  BY <1>1, <1>6, <1>7 DEF Coherence, HandsAreCurrent, CoherentUnlessOverlapped, Current
<1> QED
  BY <1>6, <1>7

LEMMA CoherenceStep ==
  ASSUME CacheInv, TypeOK', Coherence, [Next]_vars
  PROVE  Coherence'
<1> USE Kinds DEF Move, database, content, request, accidents
<1> TypeOK
  BY DEF CacheInv
<1>1. ASSUME NEW r \in Requests, Acquire(r) \/ AddAfterClear(r) \/ ReadList(r)
      PROVE  GoesOn(r)
  BY <1>1 DEF Acquire, AddAfterClear, ReadList, GoesOn, Purged, TypeOK, Coherence, SavesInOrder
<1>2. ASSUME NEW r \in Readers, SheetMiss(r) \/ ProcessMiss(r) \/ Register(r) \/ LeaveAsReader(r)
      PROVE  GoesOn(r)
  BY <1>2 DEF SheetMiss, ProcessMiss, Register, LeaveAsReader, Unlock, GoesOn, TypeOK
<1>3. ASSUME NEW w \in Writers, DropList(w) \/ LeaveAsWriter(w)
      PROVE  GoesOn(w)
  BY <1>3 DEF DropList, LeaveAsWriter, Unlock, GoesOn, Purged, TypeOK, Coherence, SavesInOrder
<1>4. ASSUME NEW w \in Writers, UpdateRow(w)
      PROVE  GoesOn(w)
  <2>1. /\ pc[w] = "updating"
        /\ \A q \in Requests \ {w} : pc'[q] = pc[q] /\ at'[q] = at[q]
        /\ at'[w] = "sample" /\ pc'[w] = (IF at[w] = "process" THEN "waiting" ELSE "committing")
        /\ UNCHANGED <<db, item, hand, start, saved, tainted>>
    BY <1>4 DEF UpdateRow, TypeOK
  <2>2. at[w] \in Objs /\ (at[w] = saved[w] \/ at[w] = "sample")
    BY <2>1 DEF TypeOK, Coherence, SavesInOrder
  <2>3. Purged(w)' \subseteq Purged(w)
    BY <2>1, <2>2 DEF Purged, Objs
  <2> QED
    BY <2>1, <2>3 DEF GoesOn
<1>5. ASSUME NEW r \in Requests, AssertionFails(r) \/ Die(r)
      PROVE  Coherence'
  BY <1>5, EndStep DEF AssertionFails, Die
<1>6. ASSUME NEW r \in Requests, Respond(r) \/ Rollback(r)
      PROVE  Coherence'
  BY <1>6, EndStep DEF Respond, Rollback
<1>7. ASSUME NEW r \in Readers, Begin(r)
      PROVE  Looks(r)
  <2>1. /\ pc[r] = "idle" /\ pc' = [pc EXCEPT ![r] = "looking"]
        /\ hand' = [hand EXCEPT ![r] = [ver |-> db, risky |-> Saving]] /\ start' = [start EXCEPT ![r] = db]
        /\ UNCHANGED <<db, item, at, saved, tainted>>
    BY <1>7 DEF Begin
  <2>2. hand'[r].ver = db /\ (hand'[r].risky <=> Saving) /\ start'[r] = db
    BY <2>1 DEF TypeOK
  <2>3. at[r] = "sample"
    BY <2>1 DEF Coherence, ViewsInOrder
  <2> QED
    BY <2>1, <2>2, <2>3 DEF Looks, Saving, TypeOK
<1>8. ASSUME NEW r \in Readers, SheetHit(r)
      PROVE  Looks(r)
  <2>1. /\ hand' = [hand EXCEPT ![r] = Taken(r)] /\ pc' = [pc EXCEPT ![r] = "serving"]
        /\ Cached(r) # Missing /\ pc[r] = "looking"
        /\ UNCHANGED <<db, item, at, saved, start, tainted>>
    BY <1>8 DEF SheetHit
  <2>2. at[r] = "sample"
    BY <2>1 DEF Coherence, ViewsInOrder
  <2>3. /\ Taken(r) \in Content /\ (hand[r].risky => Taken(r).risky)
        /\ ~Taken(r).risky => start[r] = db /\ \A x \in Objs : Taken(r).ver[x] = db[x]
    BY <2>1, <2>2, TakenIsCurrent
  <2>4. ~Taken(r).risky => Taken(r).ver = db
    BY <2>3 DEF TypeOK, Content, Versions
  <2>5. (\E w \in Writers : pc[w] # "idle") => hand[r].risky
    BY <2>1 DEF Coherence, OverlapsAreRisky
  <2>6. hand'[r] = Taken(r)
    BY <2>1 DEF TypeOK
  <2> QED
    BY <2>1, <2>3, <2>4, <2>5, <2>6 DEF Looks, TypeOK
<1>9. ASSUME NEW r \in Readers, FetchProcess(r)
      PROVE  Looks(r)
  <2>1. /\ hand' = [hand EXCEPT ![r].ver["process"] = db["process"]] /\ pc' = [pc EXCEPT ![r] = "fetched"]
        /\ pc[r] = "digesting"
        /\ UNCHANGED <<db, item, at, saved, start, tainted>>
    BY <1>9 DEF FetchProcess
  <2>2. at[r] = "process" /\ ((\E w \in Writers : pc[w] # "idle") => hand[r].risky)
    BY <2>1 DEF Coherence, ViewsInOrder, OverlapsAreRisky
  <2>3. ~hand[r].risky => hand[r].ver = db /\ start[r] = db
    BY <2>1 DEF Coherence, HandsAreCurrent
  <2>4. hand'[r].risky = hand[r].risky /\ (hand[r].ver = db => hand'[r].ver = db)
    BY <2>1 DEF TypeOK, Content, Versions
  <2> QED
    BY <2>1, <2>2, <2>3, <2>4 DEF Looks, TypeOK
<1>10. ASSUME NEW r \in Readers, ProcessHit(r)
       PROVE  Looks(r)
  <2>1. /\ hand' = [hand EXCEPT ![r] = [Taken(r) EXCEPT !.ver["sample"] = hand[r].ver["sample"]]]
        /\ pc' = [pc EXCEPT ![r] = "waiting"] /\ at' = [at EXCEPT ![r] = "sample"]
        /\ Cached(r) # Missing /\ pc[r] = "fetched"
        /\ UNCHANGED <<db, item, saved, start, tainted>>
    BY <1>10 DEF ProcessHit
  <2>2. at[r] = "process"
    BY <2>1 DEF Coherence, ViewsInOrder
  <2>3. /\ Taken(r) \in Content /\ (hand[r].risky => Taken(r).risky)
        /\ ~Taken(r).risky => hand[r].ver = db /\ start[r] = db /\ Taken(r).ver["process"] = db["process"]
    BY <2>1, <2>2, TakenIsCurrent
  <2>4. /\ hand'[r].risky = Taken(r).risky
        /\ hand'[r].ver = [Taken(r).ver EXCEPT !["sample"] = hand[r].ver["sample"]]
    BY <2>1, <2>3 DEF TypeOK, Content
  <2>5. ~Taken(r).risky => hand'[r].ver = db
    BY <2>3, <2>4 DEF TypeOK, Content, Versions, Objs
  <2>6. (\E w \in Writers : pc[w] # "idle") => hand[r].risky
    BY <2>1 DEF Coherence, OverlapsAreRisky
  <2> QED
    BY <2>1, <2>3, <2>4, <2>5, <2>6 DEF Looks, TypeOK
<1>11. ASSUME NEW r \in Readers, Store(r)
       PROVE  Coherence'
  <2>1. /\ pc[r] = "registered" /\ item' = [item EXCEPT ![at[r]][HashOf[r]] = hand[r]]
        /\ pc' = [pc EXCEPT ![r] = "done"]
        /\ UNCHANGED <<db, at, hand, saved, start, tainted>>
    BY <1>11 DEF Store
  <2>2. \A o \in Objs, h \in Hashes : item'[o][h] = item[o][h] \/ item'[o][h] = hand[r]
    BY <2>1 DEF TypeOK
  <2>3. ~hand[r].risky => hand[r].ver = db
    BY <2>1 DEF Coherence, HandsAreCurrent
  <2>4. \A w \in Writers : pc'[w] = pc[w] /\ (pc[w] # "idle" => hand[r].risky)
    BY <2>1 DEF TypeOK, Coherence, OverlapsAreRisky
  <2>5. \A q \in Readers : pc'[q] \in {"idle", "looking", "digesting", "fetched"} => pc'[q] = pc[q]
    BY <2>1 DEF TypeOK
  <2>6. \A q \in Readers : pc'[q] # "idle" => pc[q] # "idle"
    BY <2>1 DEF TypeOK
  <2>7. \A w \in Writers : Purged(w)' = Purged(w) /\ (Purged(w) # {} => pc[w] # "idle")
    BY <2>1, <2>4 DEF Purged
  <2>8. PurgedIsRisky'
    BY <2>1, <2>2, <2>4, <2>7 DEF PurgedIsRisky, Coherence, Purged
  <2>9. SavesInOrder' /\ ViewsInOrder'
    BY <2>1, <2>4, <2>5 DEF SavesInOrder, ViewsInOrder, Coherence
  <2>10. OverlapsAreRisky' /\ HandsAreCurrent'
    BY <2>1, <2>4, <2>6 DEF OverlapsAreRisky, HandsAreCurrent, Coherence
  <2>11. CoherentUnlessOverlapped'
    BY <2>1, <2>2, <2>3 DEF CoherentUnlessOverlapped, Current, Coherence
  <2> QED
    BY <2>8, <2>9, <2>10, <2>11 DEF Coherence
<1>12. ASSUME NEW r \in Requests, LosePatience(r)
       PROVE  Coherence'
  <2>1. /\ pc[r] = "waiting" /\ pc' = [pc EXCEPT ![r] = "adding"]
        /\ \A o \in Objs, h \in Hashes : item'[o][h] = Missing
        /\ UNCHANGED <<db, at, hand, saved, start>>
    BY <1>12 DEF LosePatience
  <2>2. \A q \in Requests : pc'[q] = pc[q] \/ (pc[q] = "waiting" /\ pc'[q] = "adding")
    BY <2>1 DEF TypeOK
  <2>3. PurgedIsRisky' /\ CoherentUnlessOverlapped'
    BY <2>1 DEF PurgedIsRisky, CoherentUnlessOverlapped, Purged
  <2>4. SavesInOrder' /\ ViewsInOrder'
    BY <2>1, <2>2 DEF SavesInOrder, ViewsInOrder, Coherence
  <2>5. OverlapsAreRisky' /\ HandsAreCurrent'
    BY <2>1, <2>2 DEF OverlapsAreRisky, HandsAreCurrent, Coherence
  <2> QED
    BY <2>3, <2>4, <2>5 DEF Coherence
<1>13. ASSUME NEW w \in Writers, Purge(w)
       PROVE  Coherence'
  <2>1. /\ pc[w] = "listed" /\ pc' = [pc EXCEPT ![w] = "purged"]
        /\ UNCHANGED <<db, at, hand, saved, start, tainted>>
        /\ item' = [item EXCEPT ![at[w]] = [h \in Hashes |-> IF h \in keys[w] THEN Missing ELSE item[at[w]][h]]]
    BY <1>13 DEF Purge
  <2>2. \A o \in Objs, h \in Hashes : item'[o][h] = item[o][h] \/ item'[o][h] = Missing
    BY <2>1 DEF TypeOK
  <2>3. at[w] \notin tainted => \A h \in Hashes : item'[at[w]][h] = Missing
    BY <2>1 DEF TypeOK, CacheInv, Relied, InContext, InContextStates, Registered
  <2>4. \A q \in Requests : pc'[q] = pc[q] \/ (pc[q] = "listed" /\ pc'[q] = "purged")
    BY <2>1 DEF TypeOK
  <2>5. \A v \in Writers : Purged(v)' \subseteq Purged(v) \cup {at[w]}
    BY <2>1, <2>4 DEF Purged, TypeOK
  <2>6. PurgedIsRisky'
    BY <2>1, <2>2, <2>3, <2>5 DEF PurgedIsRisky, Coherence, Purged
  <2>7. SavesInOrder' /\ ViewsInOrder'
    BY <2>1, <2>4 DEF SavesInOrder, ViewsInOrder, Coherence
  <2>8. OverlapsAreRisky' /\ HandsAreCurrent'
    BY <2>1, <2>4 DEF OverlapsAreRisky, HandsAreCurrent, Coherence
  <2>9. CoherentUnlessOverlapped'
    BY <2>1, <2>2 DEF CoherentUnlessOverlapped, Current, Coherence
  <2> QED
    BY <2>6, <2>7, <2>8, <2>9 DEF Coherence
<1>14. ASSUME NEW w \in Writers, NEW o \in Objs, BeginSave(w, o)
       PROVE  Coherence'
  <2>1. /\ pc[w] = "idle" /\ pc' = [pc EXCEPT ![w] = "waiting"]
        /\ at' = [at EXCEPT ![w] = o] /\ saved' = [saved EXCEPT ![w] = o]
        /\ hand' = [r \in Readers |-> [hand[r] EXCEPT !.risky = @ \/ pc[r] # "idle"]]
        /\ UNCHANGED <<db, item, start, tainted>>
    BY <1>14 DEF BeginSave
  <2>2. \A v \in Writers \ {w} : pc'[v] = pc[v] /\ at'[v] = at[v] /\ saved'[v] = saved[v]
    BY <2>1 DEF TypeOK
  <2>3. pc'[w] = "waiting" /\ at'[w] = o /\ saved'[w] = o
    BY <2>1 DEF TypeOK
  <2>4. \A r \in Readers : pc'[r] = pc[r] /\ at'[r] = at[r]
    BY <2>1 DEF TypeOK
  <2>5. ASSUME NEW c \in Content, NEW b \in BOOLEAN
        PROVE  [c EXCEPT !.risky = @ \/ b].ver = c.ver /\ ([c EXCEPT !.risky = @ \/ b].risky <=> c.risky \/ b)
    BY DEF Content
  <2>6. \A r \in Readers : hand'[r].ver = hand[r].ver /\ (hand'[r].risky <=> hand[r].risky \/ pc[r] # "idle")
    <3>1. \A r \in Readers : hand[r] \in Content /\ hand'[r] = [hand[r] EXCEPT !.risky = @ \/ (pc[r] # "idle")]
      BY <2>1 DEF TypeOK
    <3>2. \A r \in Readers : (pc[r] # "idle") \in BOOLEAN
      OBVIOUS
    <3> SUFFICES ASSUME NEW r \in Readers
                 PROVE  hand'[r].ver = hand[r].ver /\ (hand'[r].risky <=> hand[r].risky \/ pc[r] # "idle")
      OBVIOUS
    <3> DEFINE b == pc[r] # "idle"
    <3>3. hand[r] \in Content /\ b \in BOOLEAN /\ hand'[r] = [hand[r] EXCEPT !.risky = @ \/ b]
      BY <3>1, <3>2
    <3> HIDE DEF b
    <3>4. hand'[r].ver = hand[r].ver /\ (hand'[r].risky <=> hand[r].risky \/ b)
      BY <2>5, <3>3
    <3> QED
      BY <3>4 DEF b
  <2>7. \A v \in Writers : Purged(v)' \subseteq Purged(v)
    BY <2>1, <2>2, <2>3 DEF Purged
  <2>8. PurgedIsRisky' /\ CoherentUnlessOverlapped'
    BY <2>1, <2>7 DEF PurgedIsRisky, CoherentUnlessOverlapped, Current, Coherence
  <2>9. SavesInOrder' /\ ViewsInOrder'
    BY <2>2, <2>3, <2>4 DEF SavesInOrder, ViewsInOrder, Coherence
  <2>10. OverlapsAreRisky' /\ HandsAreCurrent'
    BY <2>1, <2>4, <2>6 DEF OverlapsAreRisky, HandsAreCurrent, Coherence
  <2> QED
    BY <2>8, <2>9, <2>10 DEF Coherence
<1>15. ASSUME NEW w \in Writers, Commit(w)
       PROVE  Coherence'
  <2>1. /\ pc[w] = "committing" /\ db' = [db EXCEPT ![saved[w]] = @ + 1] /\ End(w)
        /\ UNCHANGED <<item, tainted>>
    BY <1>15 DEF Commit
  <2>2. /\ \A q \in Requests : pc'[q] = (IF q = w THEN "idle" ELSE pc[q])
        /\ \A q \in Requests \ {w} : at'[q] = at[q]
        /\ \A r \in Readers : hand'[r] = hand[r] /\ start'[r] = start[r]
        /\ \A v \in Writers \ {w} : saved'[v] = saved[v]
    BY <2>1 DEF End, TypeOK
  <2>3. at[w] = "sample" /\ (saved[w] = "process" \/ saved[w] = "sample")
    BY <2>1 DEF Coherence, SavesInOrder, TypeOK, Objs
  <2>4. \A v \in Writers : Purged(v)' \subseteq Purged(v)
    BY <2>2 DEF Purged
  <2>5. PurgedIsRisky'
    BY <2>1, <2>4 DEF PurgedIsRisky, Coherence
  <2>6. SavesInOrder' /\ ViewsInOrder'
    BY <2>2 DEF SavesInOrder, ViewsInOrder, Coherence
  <2>7. \A r \in Readers : pc[r] # "idle" => hand[r].risky
    BY <2>1 DEF Coherence, OverlapsAreRisky
  <2>8. OverlapsAreRisky' /\ HandsAreCurrent'
    BY <2>2, <2>7 DEF OverlapsAreRisky, HandsAreCurrent
  <2>9. CoherentUnlessOverlapped'
    <3>1. SUFFICES ASSUME NEW o \in Objs \ tainted, NEW h \in Hashes, item[o][h] # Missing, ~item[o][h].risky
                   PROVE  Current(item[o][h], o)'
      BY <2>1 DEF CoherentUnlessOverlapped
    <3>2. o \notin Purged(w)
      BY <3>1 DEF Coherence, PurgedIsRisky
    <3>3. o = "process" /\ saved[w] = "sample"
      BY <2>1, <2>3, <3>2 DEF Purged, Objs
    <3>4. item[o][h].ver["process"] = db["process"]
      BY <3>1, <3>3 DEF Coherence, CoherentUnlessOverlapped, Current
    <3> QED
      BY <2>1, <3>3, <3>4 DEF Current, TypeOK, Versions
  <2> QED
    BY <2>5, <2>6, <2>8, <2>9 DEF Coherence
<1>16. CASE UNCHANGED vars
  BY <1>16 DEF vars, Coherence, PurgedIsRisky, Purged, SavesInOrder, ViewsInOrder, OverlapsAreRisky, HandsAreCurrent,
               CoherentUnlessOverlapped, Current
<1> HIDE DEF Move, database, content, request, accidents
<1>17. ASSUME NEW r \in Requests, GoesOn(r)
       PROVE  Coherence'
  BY <1>17, GoesOnStep
<1>18. ASSUME NEW r \in Readers, Looks(r)
       PROVE  Coherence'
  BY <1>18, LooksStep
<1> QED
  BY <1>1, <1>2, <1>3, <1>4, <1>5, <1>6, <1>7, <1>8, <1>9, <1>10, <1>11, <1>12, <1>13, <1>14, <1>15, <1>16, <1>17,
     <1>18
  DEF Next, ViewStep, SaveStep

(* However many requests, layout settings, saves, wipes and dead workers   *)
(* there are: data sheets are up to date, in the cache and in responses,   *)
(* unless a save overlapped their making or the cache was wiped meanwhile. *)
THEOREM CurrentAlways == Spec => []CurrentUnlessOverlapped
<1>1. Init => CacheInv /\ Coherence
  <2>1. Init => CacheInv
    BY Start DEF Init, CacheInv, Registered, Relied, InContext, InContextStates
  <2>2. Init => Coherence
    BY Kinds DEF Init, Coherence, PurgedIsRisky, Purged, SavesInOrder, ViewsInOrder, OverlapsAreRisky, HandsAreCurrent,
                 CoherentUnlessOverlapped, Current
  <2> QED
    BY <2>1, <2>2
<1>2. CacheInv /\ Coherence /\ [Next]_vars => CacheInv' /\ Coherence'
  BY TypeStep, ExclusionStep, RegisteredStep, CoherenceStep DEF CacheInv
<1>3. Coherence => CurrentUnlessOverlapped
  BY DEF Coherence, HandsAreCurrent, CurrentUnlessOverlapped, ServesCurrentUnlessOverlapped
<1> QED
  BY <1>1, <1>2, <1>3, PTL DEF Spec
=============================================================================
