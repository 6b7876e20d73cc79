------------------------------ MODULE PidLock ------------------------------
(***************************************************************************)
(* The lock that keeps two runs of the same crawler apart: PIDLock of the  *)
(* remote client.  It is a file with the number of the running process,    *)
(* which holds a flock on it and removes the file in the end.  A flock is  *)
(* on the inode that was opened, whatever the path refers to meanwhile.    *)
(***************************************************************************)
EXTENDS Integers, FiniteSets

CONSTANTS
  Runs,       (* the processes, each of which runs the crawler once *)
  None,       (* no file, nobody *)
  Invalid,    (* the content of a lock file that cannot be read *)
  MaxCrashes  (* bound on the number of processes that are killed *)

PidLockAssumption == None \notin Runs /\ Invalid \notin Runs \cup {None}

VARIABLES
  path,       (* the inode the path of the lock file refers to, or None *)
  content,    (* what each inode contains: a process, None or Invalid *)
  flock,      (* the process that holds the flock of an inode, or None *)
  opened,     (* the inode a process has opened, or None *)
  pc,         (* where the processes are *)
  raced       (* history: a file was created twice, or removed under one who waited *)

vars == <<path, content, flock, opened, pc, raced>>

Inodes == Runs      (* each process creates one at most *)

(* Processes that have ended or been killed have no entry in the table.    *)
ProcessExists(p) == pc[p] \notin {"ended", "killed"}

(* os.kill(pid, 0) tells whether a process exists.                         *)
AlreadyRunning(p) == p \in Runs /\ ProcessExists(p)

(* The content of an orphaned lock file is removed first.                  *)
Truncated(inode) == [content EXCEPT ![inode] = None]

Released(p) == [i \in Inodes |-> IF flock[i] = p THEN None ELSE flock[i]]

Goto(p, place) == pc' = [pc EXCEPT ![p] = place]
-----------------------------------------------------------------------------
(* open(..., "r+"), or open(..., "w") if there is no file.                 *)
Open(p) ==
  /\ pc[p] = "trying"
  /\ IF path = None THEN Goto(p, "create") /\ UNCHANGED opened
     ELSE opened' = [opened EXCEPT ![p] = path] /\ Goto(p, "opened")
  /\ UNCHANGED <<path, content, flock, raced>>

(* The other may have created the file in between: then it is truncated.   *)
Create(p) ==
  /\ pc[p] = "create"
  /\ LET inode == IF path = None THEN p ELSE path IN
       /\ path' = inode
       /\ content' = [content EXCEPT ![inode] = None]
       /\ opened' = [opened EXCEPT ![p] = inode]
  /\ Goto(p, "blocking")
  /\ raced' = (raced \/ path # None)
  /\ UNCHANGED flock

(* Mutant: who creates the file needs no lock. *)
NoFlock(p) ==
  /\ pc[p] = "blocking"
  /\ Goto(p, "acquired")
  /\ UNCHANGED <<path, content, flock, opened, raced>>

(* A flock that waits, in spite of the handler for BlockingIOError.        *)
FlockBlocking(p) ==
  /\ pc[p] = "blocking"
  /\ flock[opened[p]] = None
  /\ flock' = [flock EXCEPT ![opened[p]] = p]
  /\ Goto(p, "acquired")
  /\ UNCHANGED <<path, content, opened, raced>>

TryAgain(p) == opened' = [opened EXCEPT ![p] = None] /\ Goto(p, "waiting")

FlockNonblocking(p) ==
  /\ pc[p] = "opened"
  /\ IF flock[opened[p]] = None
     THEN /\ flock' = [flock EXCEPT ![opened[p]] = p]
          /\ raced' = (raced \/ \E q \in Runs : pc[q] = "blocking" /\ opened[q] = opened[p])
          /\ Goto(p, "locked")
          /\ UNCHANGED opened
     ELSE TryAgain(p) /\ UNCHANGED <<flock, raced>>
  /\ UNCHANGED <<path, content>>

(* A content that is invalid, or of a process that is gone, is ignored.    *)
Read(p) ==
  /\ pc[p] = "locked"
  /\ IF AlreadyRunning(content[opened[p]])
     THEN TryAgain(p) /\ flock' = Released(p)
          /\ UNCHANGED content
     ELSE /\ content' = Truncated(opened[p])
          /\ Goto(p, "acquired")
          /\ UNCHANGED <<flock, opened>>
  /\ UNCHANGED <<path, raced>>

(* What another wrote into the same file may be overwritten in part only.  *)
WritePid(p) ==
  /\ pc[p] = "acquired"
  /\ \E new \in IF content[opened[p]] \in Runs \ {p} THEN {p, Invalid} ELSE {p} :
       content' = [content EXCEPT ![opened[p]] = new]
  /\ Goto(p, "in")
  /\ UNCHANGED <<path, flock, opened, raced>>

(* Every 30 seconds, until the timeout.                                    *)
WakeUp(p) ==
  /\ pc[p] = "waiting"
  /\ \E place \in {"trying", "ended"} : Goto(p, place)
  /\ UNCHANGED <<path, content, flock, opened, raced>>

Unlock(p) ==
  /\ pc[p] = "in"
  /\ flock' = Released(p)
  /\ Goto(p, "leaving")
  /\ UNCHANGED <<path, content, opened, raced>>

(* The path is removed, to whichever inode it refers by now.  Without it,  *)
(* the process ends with an exception.                                     *)
Remove(p) ==
  /\ pc[p] = "leaving"
  /\ opened' = [opened EXCEPT ![p] = None]
  /\ path' = None
  /\ raced' = (raced \/ \E q \in Runs \ {p} : path # None /\ opened[q] = path)
  /\ Goto(p, "left")
  /\ UNCHANGED <<content, flock>>

End(p) ==
  /\ pc[p] = "left"
  /\ Goto(p, "ended")
  /\ UNCHANGED <<path, content, flock, opened, raced>>

(* The kernel closes all files of a process that dies.                     *)
Kill(p) ==
  /\ ProcessExists(p) /\ pc[p] # "trying"
  /\ Cardinality({q \in Runs : pc[q] = "killed"}) < MaxCrashes
  /\ flock' = Released(p)
  /\ opened' = [opened EXCEPT ![p] = None]
  /\ Goto(p, "killed")
  /\ UNCHANGED <<path, content, raced>>

Init ==
  /\ path = None
  /\ content = [i \in Inodes |-> None]
  /\ flock = [i \in Inodes |-> None]
  /\ opened = [p \in Runs |-> None]
  /\ pc = [p \in Runs |-> "trying"]
  /\ raced = FALSE

try_acquire_lock(p) ==
  Open(p) \/ Create(p) \/ FlockBlocking(p) \/ FlockNonblocking(p) \/ Read(p) \/ WritePid(p)

Next == \E p \in Runs : try_acquire_lock(p) \/ WakeUp(p) \/ Unlock(p) \/ Remove(p) \/ End(p) \/ Kill(p)

Spec == Init /\ [][Next]_vars
-----------------------------------------------------------------------------
(* Two runs of a crawler never overlap, even if runs are killed and leave  *)
(* their lock file behind; unless two have created the file at the same    *)
(* time, or a run had opened it already when its predecessor removed it:   *)
(* such a run may lock an inode nobody else will find.                     *)
OneRunUnlessRaced == ~raced => \A p \in Runs : pc[p] = "in" => \A q \in Runs \ {p} : pc[q] # "in"

(* The lock file of a run that goes on is found under its path and names   *)
(* this run, whatever killed runs have left in it: others can tell that it *)
(* is alive even if they get the flock.                                    *)
FileNamesTheRun ==
  ~raced => \A p \in Runs : pc[p] = "in" => path = opened[p] /\ content[path] = p

(* Runs are kept apart, and the file says which one is going on.           *)
LockKeepsApart == OneRunUnlessRaced /\ FileNamesTheRun
=============================================================================
