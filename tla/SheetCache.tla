----------------------------- MODULE SheetCache -----------------------------
(***************************************************************************)
(* The data sheet cache of JuliaBase under concurrent requests, at the     *)
(* granularity of its cache and database operations.                       *)
(*                                                                         *)
(* One sample with one process stands for the two cached levels.  A view   *)
(* request builds the data sheet of the sample out of the context of the   *)
(* process; both are cached once per hash of the layout settings of the    *)
(* user, and the hashes cached so far are kept in a key list per object.   *)
(* A save request (Process.save, Sample.save) purges everything its key    *)
(* lists name, then writes the rows; the whole request is one database     *)
(* transaction (ATOMIC_REQUESTS) under READ COMMITTED, so readers see the  *)
(* new rows only after the commit.  The key lists are guarded by           *)
(* cache_key_locked: its polling cycles are abstracted to "waits" and "has *)
(* lost patience" (CacheLock has the cycles).                              *)
(***************************************************************************)
EXTENDS Integers, FiniteSets

CONSTANTS
  Readers,   (* requests that show the data sheet *)
  Writers,   (* requests that save the sample or the process *)
  Hashes,    (* hashes of the layout settings that influence rendering *)
  HashOf,    (* the settings hash of the user who sends a view request *)
  MaxSaves,  (* bound on the number of committed saves *)
  MaxMishaps,(* bound on the number of wipes of the cache and of dead workers *)
  NoOne      (* no transaction holds the row *)

ASSUME SheetCacheAssumption ==
  /\ Readers \cap Writers = {}
  /\ NoOne \notin Writers
  /\ HashOf \in [Readers -> Hashes]
  /\ MaxSaves \in Nat
  /\ MaxMishaps \in Nat

Objs == {"process", "sample"}
Requests == Readers \cup Writers

VARIABLES
  db,      (* committed version of the data of each object *)
  row,     (* the transaction that has updated the row and not yet committed *)
  item,    (* the cached context or sheet, per object and settings hash *)
  list,    (* the key list: hashes under which an item is registered *)
  locks,   (* objects whose lock key exists in the cache *)
  pc,      (* where each request is *)
  at,      (* the object whose level the request works on *)
  hand,    (* what a view request has read or rendered so far *)
  keys,    (* the key list as read by a request in its context *)
  saved,   (* the object on which save() was called by the view code *)
  start,   (* history: committed versions when a view request began *)
  broken,  (* history: objects in the aftermath of a wipe, see CacheLock *)
  mishaps, (* the number of wipes and deaths so far *)
  tainted  (* history: objects whose key list may have lost a key by a wipe *)

vars == <<db, row, item, list, locks, pc, at, hand, keys, saved, start, broken, mishaps, tainted>>

Versions == [Objs -> 0 .. MaxSaves]

(* What is cached or in the hands of a request: the versions of the data   *)
(* it was made from, and (history) whether it was made by a request that   *)
(* overlapped a save, or taken from a tainted object.                      *)
Content == [ver : Versions, risky : BOOLEAN]
Missing == [missing |-> TRUE]
Nothing == [ver |-> [o \in Objs |-> 0], risky |-> FALSE]

InContextStates == {"locked", "listed", "registered", "purged", "done"}
ReaderStates == {"idle", "looking", "digesting", "fetched", "serving"}
WriterStates == {"idle", "updating", "committing"}
LockStates == {"waiting", "adding"} \cup InContextStates

TypeOK ==
  /\ db \in Versions
  /\ row \in [Objs -> Writers \cup {NoOne}]
  /\ item \in [Objs -> [Hashes -> Content \cup {Missing}]]
  /\ list \in [Objs -> SUBSET Hashes]
  /\ locks \in SUBSET Objs
  /\ pc \in [Requests -> ReaderStates \cup WriterStates \cup LockStates]
  /\ \A r \in Readers : pc[r] \in ReaderStates \cup LockStates
  /\ \A w \in Writers : pc[w] \in WriterStates \cup LockStates
  /\ at \in [Requests -> Objs]
  /\ hand \in [Readers -> Content]
  /\ keys \in [Requests -> SUBSET Hashes]
  /\ saved \in [Writers -> Objs]
  /\ start \in [Readers -> Versions]
  /\ broken \in SUBSET Objs
  /\ mishaps \in 0 .. MaxMishaps
  /\ tainted \in SUBSET Objs

Init ==
  /\ db = [o \in Objs |-> 0]
  /\ row = [o \in Objs |-> NoOne]
  /\ item = [o \in Objs |-> [h \in Hashes |-> Missing]]
  /\ list = [o \in Objs |-> {}]
  /\ locks = {}
  /\ pc = [r \in Requests |-> "idle"]
  /\ at = [r \in Requests |-> "sample"]
  /\ hand = [r \in Readers |-> Nothing]
  /\ keys = [r \in Requests |-> {}]
  /\ saved = [w \in Writers |-> "sample"]
  /\ start = [r \in Readers |-> db]
  /\ broken = {}
  /\ mishaps = 0
  /\ tainted = {}

Move(r, to) == pc' = [pc EXCEPT ![r] = to]

InContext(r, o) == pc[r] \in InContextStates /\ at[r] = o

(* The request ends, regularly or not: its locals are gone, and the rows it *)
(* has updated are free for other transactions.                             *)
End(r) ==
  /\ Move(r, "idle")
  /\ row' = [o \in Objs |-> IF row[o] = r THEN NoOne ELSE row[o]]
  /\ at' = [at EXCEPT ![r] = "sample"]
  /\ hand' = [q \in Readers |-> IF q = r THEN Nothing ELSE hand[q]]
  /\ keys' = [keys EXCEPT ![r] = {}]
  /\ saved' = [w \in Writers |-> IF w = r THEN "sample" ELSE saved[w]]
  /\ start' = [q \in Readers |-> IF q = r THEN Nothing.ver ELSE start[q]]

Saving == \E w \in Writers : pc[w] # "idle"

StillBroken(objs) ==
  {o \in objs : \E r \in Requests : pc'[r] \in InContextStates /\ at[r] = o}

-----------------------------------------------------------------------------
(* The lock of the key list, cache_key_locked.                             *)

database == <<db, row>>
content == <<item, list>>
accidents == <<mishaps, tainted>>
request == <<at, hand, keys, saved, start>>

(* cache.add creates the lock key. *)
AcquireBySet(r) ==
  /\ pc[r] = "waiting"
  /\ locks' = locks \cup {at[r]}
  /\ Move(r, "locked")
  /\ UNCHANGED <<database, content, request, broken, accidents>>

Acquire(r) ==
  /\ pc[r] = "waiting"
  /\ at[r] \notin locks
  /\ locks' = locks \cup {at[r]}
  /\ Move(r, "locked")
  /\ UNCHANGED <<database, content, request, broken, accidents>>

(* A waiting request has run out of cycles: cache.clear() removes items,   *)
(* key lists and locks of all objects.                                     *)
LosePatience(r) ==
  /\ pc[r] = "waiting"
  /\ at[r] \in locks
  /\ mishaps < MaxMishaps
  /\ mishaps' = mishaps + 1
  /\ item' = [o \in Objs |-> [h \in Hashes |-> Missing]]
  /\ list' = [o \in Objs |-> {}]
  /\ locks' = {}
  /\ broken' = broken \cup {o \in Objs : \E q \in Requests : InContext(q, o)}
  /\ tainted' = {o \in Objs : \E q \in Requests : InContext(q, o)}
  /\ Move(r, "adding")
  /\ UNCHANGED <<database, request>>

AddAfterClear(r) ==
  /\ pc[r] = "adding"
  /\ at[r] \notin locks
  /\ locks' = locks \cup {at[r]}
  /\ Move(r, "locked")
  /\ UNCHANGED <<database, content, request, broken, accidents>>

(* The AssertionError ends the request; its transaction is rolled back. *)
AssertionFails(r) ==
  /\ pc[r] = "adding"
  /\ at[r] \in locks
  /\ End(r)
  /\ UNCHANGED <<db, content, locks, broken, accidents>>

(* The with statement is left: to the next object if there is one. *)
Unlock(r) ==
  /\ locks' = locks \ {at[r]}
  /\ keys' = [keys EXCEPT ![r] = {}]
  /\ broken' = StillBroken(broken)

(* The worker dies in the context: its lock stays, its transaction is      *)
(* rolled back by the database.                                            *)
Die(r) ==
  /\ pc[r] \in InContextStates
  /\ mishaps < MaxMishaps
  /\ mishaps' = mishaps + 1
  /\ End(r)
  /\ broken' = StillBroken(broken)
  /\ UNCHANGED <<db, content, locks, tainted>>

-----------------------------------------------------------------------------
(* A view request: SamplesAndProcesses.samples_and_processes.              *)

(* lookup_sample reads the row of the sample. *)
Begin(r) ==
  /\ pc[r] = "idle"
  /\ Move(r, "looking")
  /\ hand' = [hand EXCEPT ![r] = [ver |-> db, risky |-> Saving]]
  /\ start' = [start EXCEPT ![r] = db]
  /\ UNCHANGED <<database, content, locks, at, keys, saved, broken, accidents>>

(* What the cache has for the request at its current level. *)
Cached(r) == item[at[r]][HashOf[r]]

(* The request takes over a cached item. *)
Taken(r) == [Cached(r) EXCEPT !.risky = @ \/ hand[r].risky \/ at[r] \in tainted]

(* get_from_cache finds the data sheet; it is personalized and served. *)
SheetHit(r) ==
  /\ pc[r] = "looking"
  /\ Cached(r) # Missing
  /\ hand' = [hand EXCEPT ![r] = Taken(r)]
  /\ Move(r, "serving")
  /\ UNCHANGED <<database, content, locks, at, keys, saved, start, broken, accidents>>

(* No data sheet: it must be collected from the processes. *)
SheetMiss(r) ==
  /\ pc[r] = "looking"
  /\ Cached(r) = Missing
  /\ at' = [at EXCEPT ![r] = "process"]
  /\ Move(r, "digesting")
  /\ UNCHANGED <<database, content, locks, hand, keys, saved, start, broken, accidents>>

(* digest_process: process.actual_instance reads the row of the process. *)
FetchProcess(r) ==
  /\ pc[r] = "digesting"
  /\ hand' = [hand EXCEPT ![r].ver["process"] = db["process"]]
  /\ Move(r, "fetched")
  /\ UNCHANGED <<database, content, locks, at, keys, saved, start, broken, accidents>>

(* digest_process finds the process context in the cache. *)
ProcessHit(r) ==
  /\ pc[r] = "fetched"
  /\ Cached(r) # Missing
  /\ hand' = [hand EXCEPT ![r] =
       [Taken(r) EXCEPT !.ver["sample"] = hand[r].ver["sample"]]]
  /\ at' = [at EXCEPT ![r] = "sample"]
  /\ Move(r, "waiting")
  /\ UNCHANGED <<database, content, locks, keys, saved, start, broken, accidents>>

(* digest_process renders the context from what it has read. *)
ProcessMiss(r) ==
  /\ pc[r] = "fetched"
  /\ Cached(r) = Missing
  /\ Move(r, "waiting")
  /\ UNCHANGED <<database, content, locks, request, broken, accidents>>

(* keys = cache.get(keys_list_key), by view and save requests alike. *)
ReadList(r) ==
  /\ pc[r] = "locked"
  /\ keys' = [keys EXCEPT ![r] = list[at[r]]]
  /\ Move(r, "listed")
  /\ UNCHANGED <<database, content, locks, at, hand, saved, start, broken, accidents>>

(* keys.append(cache_key); cache.set(keys_list_key, keys) *)
RegisterOnlyOwn(r) ==
  /\ r \in Readers /\ pc[r] = "listed"
  /\ list' = [list EXCEPT ![at[r]] = {HashOf[r]}]
  /\ Move(r, "registered")
  /\ UNCHANGED <<database, item, locks, request, broken, accidents>>

Register(r) ==
  /\ r \in Readers
  /\ pc[r] = "listed"
  /\ list' = [list EXCEPT ![at[r]] = keys[r] \cup {HashOf[r]}]
  /\ Move(r, "registered")
  /\ UNCHANGED <<database, item, locks, request, broken, accidents>>

(* cache.set(cache_key, ...) *)
Store(r) ==
  /\ pc[r] = "registered"
  /\ item' = [item EXCEPT ![at[r]][HashOf[r]] = hand[r]]
  /\ Move(r, "done")
  /\ UNCHANGED <<database, list, locks, request, broken, accidents>>

(* The context is stored and the lock released; after the process comes    *)
(* the data sheet, and after the data sheet the response.                  *)
LeaveAsReader(r) ==
  /\ r \in Readers
  /\ pc[r] = "done"
  /\ at' = [at EXCEPT ![r] = "sample"]
  /\ Move(r, IF at[r] = "process" THEN "waiting" ELSE "serving")
  /\ Unlock(r)
  /\ UNCHANGED <<database, content, hand, saved, start, accidents>>

Respond(r) ==
  /\ pc[r] = "serving"
  /\ End(r)
  /\ UNCHANGED <<db, content, locks, broken, accidents>>

-----------------------------------------------------------------------------
(* A save request: Process.save, which also saves the sample, or           *)
(* Sample.save alone.                                                      *)

(* save() is called on object o.  Every view request in progress overlaps. *)
BeginSave(w, o) ==
  /\ pc[w] = "idle"
  /\ db["sample"] + db["process"] < MaxSaves
  /\ Move(w, "waiting")
  /\ at' = [at EXCEPT ![w] = o]
  /\ saved' = [saved EXCEPT ![w] = o]
  /\ hand' = [r \in Readers |-> [hand[r] EXCEPT !.risky = @ \/ pc[r] # "idle"]]
  /\ UNCHANGED <<database, content, locks, keys, start, broken, accidents>>

(* if keys: cache.delete_many(keys) *)
PurgeNothing(w) ==
  /\ w \in Writers /\ pc[w] = "listed"
  /\ Move(w, "purged")
  /\ UNCHANGED <<database, content, locks, request, broken, accidents>>

Purge(w) ==
  /\ w \in Writers
  /\ pc[w] = "listed"
  /\ item' = [item EXCEPT ![at[w]] =
       [h \in Hashes |-> IF h \in keys[w] THEN Missing ELSE item[at[w]][h]]]
  /\ Move(w, "purged")
  /\ UNCHANGED <<database, list, locks, request, broken, accidents>>

(* cache.delete(keys_list_key) *)
DropList(w) ==
  /\ pc[w] = "purged"
  /\ list' = [list EXCEPT ![at[w]] = {}]
  /\ Move(w, "done")
  /\ UNCHANGED <<database, item, locks, request, broken, accidents>>

LeaveAsWriter(w) ==
  /\ w \in Writers
  /\ pc[w] = "done"
  /\ Move(w, "updating")
  /\ Unlock(w)
  /\ UNCHANGED <<database, content, at, hand, saved, start, accidents>>

(* super().save() updates the row and waits for another transaction that   *)
(* has done so; whether such waits end is the subject of Saves.  With the  *)
(* process, its samples are saved, too.                                    *)
UpdateRow(w) ==
  /\ pc[w] = "updating"
  /\ row[at[w]] \in {NoOne, w}
  /\ row' = [row EXCEPT ![at[w]] = w]
  /\ at' = [at EXCEPT ![w] = "sample"]
  /\ Move(w, IF at[w] = "process" THEN "waiting" ELSE "committing")
  /\ UNCHANGED <<db, content, locks, hand, keys, saved, start, broken, accidents>>

(* The end of the request commits its transaction. *)
Commit(w) ==
  /\ pc[w] = "committing"
  /\ db["sample"] + db["process"] < MaxSaves
  /\ db' = [db EXCEPT ![saved[w]] = @ + 1]
  /\ End(w)
  /\ UNCHANGED <<content, locks, broken, accidents>>

(* An exception after the purge: the transaction is rolled back. *)
Rollback(w) ==
  /\ pc[w] \in {"updating", "committing"}
  /\ End(w)
  /\ UNCHANGED <<db, content, locks, broken, accidents>>

-----------------------------------------------------------------------------
ViewStep(r) ==
  \/ SheetHit(r)
  \/ SheetMiss(r)
  \/ FetchProcess(r)
  \/ ProcessHit(r)
  \/ ProcessMiss(r)
  \/ Register(r)
  \/ Store(r)
  \/ LeaveAsReader(r)
  \/ Respond(r)

SaveStep(w) ==
  \/ Purge(w)
  \/ DropList(w)
  \/ LeaveAsWriter(w)
  \/ UpdateRow(w)
  \/ Commit(w)
  \/ Rollback(w)

Next ==
  \/ \E r \in Readers : Begin(r) \/ ViewStep(r)
  \/ \E w \in Writers : SaveStep(w) \/ \E o \in Objs : BeginSave(w, o)
  \/ \E r \in Requests :
       \/ Acquire(r)
       \/ LosePatience(r)
       \/ AddAfterClear(r)
       \/ AssertionFails(r)
       \/ ReadList(r)
       \/ Die(r)

Spec == Init /\ [][Next]_vars

-----------------------------------------------------------------------------
(* Every cached item is in the key list of its object, so that the next    *)
(* save finds it; only a wipe during somebody's context can lose a key.    *)
Registered ==
  /\ TypeOK
  /\ \A o \in Objs \ tainted : \A h \in Hashes : item[o][h] # Missing => h \in list[o]

(* The data of a cached item of object o is the committed data. *)
Current(c, o) == \A x \in IF o = "sample" THEN Objs ELSE {o} : c.ver[x] = db[x]

(* Whatever a request has cached that did not overlap a save is up to      *)
(* date, through any number of later saves and of view requests.           *)
CoherentUnlessOverlapped ==
  \A o \in Objs \ tainted : \A h \in Hashes :
    item[o][h] # Missing /\ ~item[o][h].risky => Current(item[o][h], o)

(* A response that was made without an overlapping save anywhere in its    *)
(* making shows the data committed when the request began.                 *)
ServesCurrentUnlessOverlapped ==
  \A r \in Readers : pc[r] = "serving" /\ ~hand[r].risky => hand[r].ver = start[r]

(* Data sheets are up to date, in the cache and in responses, unless a     *)
(* save overlapped their making.                                           *)
CurrentUnlessOverlapped == CoherentUnlessOverlapped /\ ServesCurrentUnlessOverlapped

(* "Of course, the server must never serve outdated data to the user":     *)
(* a response shows at least the data committed when the request began.    *)
NeverServesOutdated ==
  \A r \in Readers : pc[r] = "serving" =>
    \A o \in Objs : hand[r].ver[o] >= start[r][o]

(* The requests use the lock as KeyLock promises it. *)
Lock == INSTANCE KeyLock WITH
  Procs <- Requests,
  Keys <- Objs,
  holders <- [o \in Objs |-> {r \in Requests : InContext(r, o)}]

ImplementsKeyLock == Lock!Spec
=============================================================================
