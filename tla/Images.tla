------------------------------- MODULE Images -------------------------------
(***************************************************************************)
(* The image of a result: a file in the blob storage (the backend          *)
(* Filesystem), whose type is a column of the result.  Saving a result     *)
(* locks its row until the end of the request, but the row was read long   *)
(* before; files have neither transactions nor locks.  Thumbnails are made *)
(* from the file and cached under its modification time.                   *)
(***************************************************************************)
EXTENDS Integers, FiniteSets

CONSTANTS
  Editors,   (* those who edit the result *)
  Viewers,   (* those who look at its thumbnail *)
  Types,     (* the types of images *)
  None,      (* no image, no file, nothing written or read *)
  MaxEdits,  (* bound on the number of edits *)
  MaxAborts  (* bound on the number of requests that die *)

ImagesAssumption ==
  /\ MaxEdits \in Nat
  /\ None \notin Types /\ None \notin 1 .. MaxEdits

VARIABLES
  row,      (* the committed type of the image, with the edit that wrote it *)
  file,     (* the file of each type: an inode or None *)
  data,     (* the content of each inode: by which edit each chunk was written *)
  mtime,    (* the modification time of each inode *)
  now,      (* the clock of the file system *)
  thumbs,   (* the cache: thumbnails by modification times *)
  desk,     (* the requests of the editors *)
  visit,    (* the requests of the viewers *)
  edits,    (* the number of edits so far *)
  aborts,   (* the number of dead requests so far *)
  spoiled   (* history: files were changed without their row, or a row by a stale one *)

rowvars == <<row, edits, aborts, spoiled>>
filevars == <<file, data, mtime, now>>
vars == <<rowvars, filevars, thumbs, desk, visit>>

Chunks == 1 .. 2
Inodes == 1 .. MaxEdits      (* each edit makes one at most *)
Nothing == [c \in Chunks |-> None]
Locked == \E e \in Editors : desk[e].at \notin {"away", "read"}
Away == [at |-> "away"]

-----------------------------------------------------------------------------
(* get_image_locations: each type has a file name of its own.              *)
image_file(type) == file[type]

TypeOfFile(old, new) == new

ToUnlink(old, new) == old # None /\ new # old

(* A request reads the result and checks the form.                         *)
Begin(e) ==
  /\ desk[e] = Away
  /\ edits < MaxEdits
  /\ edits' = edits + 1
  /\ \E new \in Types \cup {None} :
       desk' = [desk EXCEPT ![e] = [at |-> "read", number |-> edits', seen |-> row, new |-> new, inode |-> None]]
  /\ UNCHANGED <<row, aborts, spoiled, filevars, thumbs, visit>>

(* Mutant: the new type is stored with the first save, outside of the transaction. *)
SaveTypeAtOnce(e) ==
  /\ desk[e].at = "read"
  /\ ~Locked
  /\ row' = [type |-> desk[e].new, by |-> desk[e].number]
  /\ desk' = [desk EXCEPT ![e].at = IF desk[e].new = None THEN "commit" ELSE "unlink"]
  /\ UNCHANGED <<edits, aborts, spoiled, filevars, thumbs, visit>>

(* The row is saved for the first time, which locks it.  It still has the  *)
(* type that was read.                                                     *)
SaveRow(e) ==
  /\ desk[e].at = "read"
  /\ ~Locked
  /\ desk' = [desk EXCEPT ![e].at = IF desk[e].new = None THEN "commit" ELSE "unlink"]
  /\ UNCHANGED <<rowvars, filevars, thumbs, visit>>

(* Whoever stops after having touched files leaves them behind.            *)
Stop(e, touched) ==
  /\ desk' = [desk EXCEPT ![e] = Away]
  /\ spoiled' = (spoiled \/ touched)

Unlink(e) ==
  /\ desk[e].at = "unlink"
  /\ LET old == desk[e].seen.type IN
     \/ /\ ToUnlink(old, desk[e].new)
        /\ image_file(old) # None
        /\ file' = [file EXCEPT ![old] = None]
        /\ desk' = [desk EXCEPT ![e].at = "open"]
        /\ UNCHANGED spoiled
     \/ /\ ToUnlink(old, desk[e].new)
        /\ image_file(old) = None          (* FileNotFoundError *)
        /\ Stop(e, FALSE)
        /\ UNCHANGED file
     \/ /\ ~ToUnlink(old, desk[e].new)
        /\ desk' = [desk EXCEPT ![e].at = "open"]
        /\ UNCHANGED <<file, spoiled>>
  /\ UNCHANGED <<row, edits, aborts, data, mtime, now, thumbs, visit>>

(* Opening for writing truncates the file if there is one.                 *)
Open(e) ==
  /\ desk[e].at = "open"
  /\ LET name == TypeOfFile(desk[e].seen.type, desk[e].new)
         inode == IF image_file(name) = None THEN desk[e].number ELSE image_file(name) IN
     /\ file' = [file EXCEPT ![name] = inode]
     /\ data' = [data EXCEPT ![inode] = Nothing]
     /\ mtime' = [mtime EXCEPT ![inode] = now + 1]
     /\ now' = now + 1
     /\ desk' = [desk EXCEPT ![e].at = "write", ![e].inode = inode]
  /\ UNCHANGED <<rowvars, thumbs, visit>>

Write(e) ==
  /\ desk[e].at = "write"
  /\ LET inode == desk[e].inode
         c == IF data[inode][1] = desk[e].number THEN 2 ELSE 1 IN
     /\ data' = [data EXCEPT ![inode][c] = desk[e].number]
     /\ mtime' = [mtime EXCEPT ![inode] = now + 1]
     /\ now' = now + 1
     /\ desk' = [desk EXCEPT ![e].at = IF c = 2 THEN "commit" ELSE "write"]
  /\ UNCHANGED <<rowvars, file, thumbs, visit>>

(* Without a new image, the row gets the type back that was read.          *)
Commit(e) ==
  /\ desk[e].at = "commit"
  /\ row' = IF desk[e].new = None THEN [row EXCEPT !.type = desk[e].seen.type]
            ELSE [type |-> desk[e].new, by |-> desk[e].number]
  /\ Stop(e, row.by # desk[e].seen.by)
  /\ UNCHANGED <<edits, aborts, filevars, thumbs, visit>>

(* The worker dies, and the transaction with it.                           *)
Abort(e) ==
  /\ desk[e].at \in {"unlink", "open", "write", "commit"}
  /\ aborts < MaxAborts
  /\ aborts' = aborts + 1
  /\ Stop(e, desk[e].at \in {"open", "write"} \/ (desk[e].at = "commit" /\ desk[e].new # None))
  /\ UNCHANGED <<row, edits, filevars, thumbs, visit>>

-----------------------------------------------------------------------------
(* get_cached_bytes_stream: the modification time first, then the cache,   *)
(* then the generator, whose result is stored under that time.             *)
show_thumbnail(v) ==
  /\ visit[v] = Away
  /\ row.type # None /\ image_file(row.type) # None
  /\ LET inode == image_file(row.type) IN
       /\ mtime[inode] \notin DOMAIN thumbs
       /\ visit' = [visit EXCEPT ![v] = [at |-> "generate", type |-> row.type, inode |-> None,
                                         key |-> mtime[inode], seen |-> Nothing, chunk |-> 1]]
  /\ UNCHANGED <<rowvars, filevars, thumbs, desk>>

(* The generator gets a hard link to the file, which it will read; it does *)
(* without, if there is no file any more.                                  *)
export(v) ==
  /\ visit[v].at = "generate"
  /\ LET inode == image_file(visit[v].type) IN
     visit' = [visit EXCEPT ![v] = IF inode = None THEN Away ELSE [@ EXCEPT !.at = "convert", !.inode = inode]]
  /\ UNCHANGED <<rowvars, filevars, thumbs, desk>>

convert(v) ==
  /\ visit[v].at = "convert"
  /\ LET c == visit[v].chunk IN
     visit' = [visit EXCEPT ![v] = [@ EXCEPT !.seen[c] = data[visit[v].inode][c], !.chunk = c + 1,
                                             !.at = IF c = 2 THEN "store" ELSE "convert"]]
  /\ UNCHANGED <<rowvars, filevars, thumbs, desk>>

Key(v) == visit[v].key

(* ImageMagick may refuse what is incomplete.                              *)
StoreThumbnail(v) ==
  /\ visit[v].at = "store"
  /\ visit' = [visit EXCEPT ![v] = Away]
  /\ \/ thumbs' = [t \in DOMAIN thumbs \cup {Key(v)} |-> IF t = Key(v) THEN visit[v].seen ELSE thumbs[t]]
     \/ (\E c \in Chunks : visit[v].seen[c] = None) /\ UNCHANGED thumbs
  /\ UNCHANGED <<rowvars, filevars, desk>>

Init ==
  /\ row = [type |-> None, by |-> 0]
  /\ file = [t \in Types |-> None]
  /\ data = [i \in Inodes |-> Nothing]
  /\ mtime = [i \in Inodes |-> 0]
  /\ now = 0
  /\ thumbs = [t \in {} |-> Nothing]
  /\ desk = [e \in Editors |-> Away]
  /\ visit = [v \in Viewers |-> Away]
  /\ edits = 0
  /\ aborts = 0
  /\ spoiled = FALSE

Edit(e) == Begin(e) \/ SaveRow(e) \/ Unlink(e) \/ Open(e) \/ Write(e) \/ Commit(e) \/ Abort(e)
View(v) == show_thumbnail(v) \/ export(v) \/ convert(v) \/ StoreThumbnail(v)

Next == (\E e \in Editors : Edit(e)) \/ (\E v \in Viewers : View(v))

Spec == Init /\ [][Next]_vars
-----------------------------------------------------------------------------
(* What is cached under the present modification time of a file shows that *)
(* very file, however viewing and uploading overlap, and whoever dies.     *)
ThumbnailFits ==
  \A t \in Types : LET inode == image_file(t) IN
    inode # None /\ mtime[inode] \in DOMAIN thumbs => thumbs[mtime[inode]] = data[inode]

(* While nobody saves, the file that the row promises is there, as a whole,*)
(* from the edit that promised it.  Requests that died after touching files*)
(* and rows written over newer ones are the exceptions.                    *)
ImageIsThere ==
  ~spoiled /\ ~Locked /\ row.type # None =>
    image_file(row.type) # None /\ data[image_file(row.type)] = [c \in Chunks |-> row.by]

(* And nothing else has been left in the directory of the result.          *)
NoOldImages == ~spoiled /\ ~Locked => {t \in Types : file[t] # None} \subseteq {row.type}

(* Row, image and thumbnail of a result fit to each other through          *)
(* overlapping requests and crashes.                                       *)
ImagesFit == ThumbnailFits /\ ImageIsThere /\ NoOldImages
=============================================================================
