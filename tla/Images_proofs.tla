--------------------------- MODULE Images_proofs ----------------------------
(***************************************************************************)
(* The images of results fit to their rows, and the thumbnails to the      *)
(* images, for any number of users who edit a result or look at it, of     *)
(* types, edits and requests that die.                                     *)
(***************************************************************************)
EXTENDS Parts, Integers, TLAPS
-----------------------------------------------------------------------------
Chunks == 1 .. 2
Inodes == 1 .. MaxEdits
Contents == [Chunks -> Inodes \cup {None}]
Rows == [type : Types \cup {None}, by : 0 .. MaxEdits]

(* Requests that have begun, and those that hold the lock of the row.      *)
Jobs == [at : {"read", "unlink", "open", "write", "commit"}, number : Inodes, seen : Rows,
         new : Types \cup {None}, inode : Inodes \cup {None}]
Visits == [at : {"generate", "convert", "store"}, type : Types, inode : Inodes \cup {None},
           key : Nat, seen : Contents, chunk : 1 .. 3]

Active(e) == desk[e] # Uploaded!Away
Holds(e) == desk[e].at \in {"unlink", "open", "write", "commit"}
Linked == {t \in Types : file[t] # None}

ImageTypes ==
  /\ row \in Rows
  /\ file \in [Types -> Inodes \cup {None}]
  /\ data \in [Inodes -> Contents]
  /\ mtime \in [Inodes -> Nat]
  /\ now \in Nat
  /\ thumbs \in [DOMAIN thumbs -> Contents]
  /\ desk \in [Editors -> {Uploaded!Away} \cup Jobs]
  /\ visit \in [Viewers -> {Uploaded!Away} \cup Visits]
  /\ edits \in 0 .. MaxEdits
  /\ spoiled \in BOOLEAN

(* Edits have numbers of their own, which also are the inodes they may     *)
(* make.  What is linked is the file of one type, and was made by an edit  *)
(* that has come as far as that.                                           *)
EditOrder ==
  /\ row.by <= edits
  /\ \A e \in Editors : Active(e) =>
       /\ desk[e].number <= edits /\ desk[e].seen.by <= edits
       /\ row.by # desk[e].number
       /\ \A d \in Editors : Active(d) => desk[d].seen.by # desk[e].number /\ (desk[d].number = desk[e].number => d = e)
       /\ desk[e].at \in {"read", "unlink", "open"} => \A t \in Types : file[t] # desk[e].number
  /\ \A t \in Linked : file[t] <= edits
  /\ \A t, u \in Linked : file[t] = file[u] => t = u
  /\ \A d, e \in Editors : Holds(d) /\ Holds(e) => d = e

(* Times are taken once, and those of files have been taken.               *)
ClockRuns ==
  /\ \A i \in Inodes : mtime[i] <= now
  /\ \A i, j \in Inodes : mtime[i] = mtime[j] /\ mtime[i] # 0 => i = j
  /\ \A t \in Linked : mtime[file[t]] # 0
  /\ \A k \in DOMAIN thumbs : k \in Nat /\ k <= now
  /\ \A v \in Viewers : visit[v].at # "away" => visit[v].key <= now

(* Who writes has opened the file of the new type, and has written its     *)
(* chunks one after the other.                                             *)
Opened(e) == desk[e].at = "write" \/ (desk[e].at = "commit" /\ desk[e].new # None)

WritesOwn(e) ==
  /\ desk[e].at \in {"unlink", "open", "write"} => desk[e].new # None
  /\ Opened(e) => file[desk[e].new] = desk[e].inode /\ desk[e].inode # None
  /\ desk[e].at = "write" => /\ data[desk[e].inode][1] \in {None, desk[e].number}
                             /\ data[desk[e].inode][2] = None
  /\ desk[e].at = "commit" /\ desk[e].new # None =>
       data[desk[e].inode] = [c \in Chunks |-> desk[e].number]

WritesFile == \A e \in Editors : WritesOwn(e)

(* A thumbnail, cached or being made, shows the file with its time, as far *)
(* as there still is one.                                                  *)
VisitFits(v) ==
  \A t \in Linked : mtime[file[t]] = visit[v].key =>
    /\ visit[v].at = "generate" => t = visit[v].type
    /\ visit[v].at \in {"convert", "store"} =>
         /\ file[t] = visit[v].inode
         /\ \A c \in Chunks : c < visit[v].chunk => visit[v].seen[c] = data[file[t]][c]

Visited ==
  /\ Uploaded!ThumbnailFits
  /\ \A v \in Viewers : visit[v].at # "away" =>
       /\ VisitFits(v)
       /\ visit[v].at = "generate" => visit[v].chunk = 1
       /\ visit[v].at = "convert" => visit[v].chunk \in {1, 2} /\ visit[v].inode # None
       /\ visit[v].at = "store" => visit[v].chunk = 3

(* The row and the only file are about the same edit.                      *)
RowFits ==
  /\ row.type # None => file[row.type] # None /\ data[file[row.type]] = [c \in Chunks |-> row.by]
  /\ Linked \subseteq {row.type}

Current(e) == desk[e].seen.by = row.by

JobFits(e) ==
  /\ Active(e) /\ Current(e) => desk[e].seen.type = row.type
  /\ desk[e].at = "unlink" \/ (desk[e].at = "commit" /\ desk[e].new = None) => RowFits
  /\ (desk[e].at = "open" \/ Opened(e)) /\ Current(e) => Linked \subseteq {desk[e].new}

Fitting == (~Uploaded!Locked => RowFits) /\ \A e \in Editors : JobFits(e)

ImageInv == ImageTypes /\ EditOrder /\ ClockRuns /\ WritesFile /\ Visited /\ (~spoiled => Fitting)

LEMMA JobsAreNotAway ==
  ASSUME ImageTypes, NEW e \in Editors
  PROVE  /\ desk[e].at = "away" <=> ~Active(e)
         /\ Active(e) => desk[e] \in Jobs
BY DEF ImageTypes, Jobs, Active, Uploaded!Away

LEMMA VisitsAreNotAway ==
  ASSUME ImageTypes, NEW v \in Viewers, visit[v].at # "away"
  PROVE  visit[v] \in Visits
BY DEF ImageTypes, Visits, Uploaded!Away

(* What an editor does to the own request.                                 *)
LEMMA BeginsJob ==
  ASSUME Uploaded!ImagesAssumption, ImageTypes, NEW e \in Editors, Uploaded!Begin(e)
  PROVE  /\ ~Active(e) /\ edits < MaxEdits /\ edits' = edits + 1
         /\ desk' \in [Editors -> {Uploaded!Away} \cup Jobs]
         /\ desk'[e] \in Jobs /\ desk'[e].at = "read" /\ desk'[e].number = edits' /\ desk'[e].seen = row
         /\ \A d \in Editors \ {e} : desk'[d] = desk[d]
<1>1. PICK new \in Types \cup {None} :
        desk' = [desk EXCEPT ![e] = [at |-> "read", number |-> edits', seen |-> row, new |-> new, inode |-> None]]
  BY DEF Uploaded!Begin
<1>2. edits < MaxEdits /\ edits' = edits + 1 /\ edits' \in Inodes /\ ~Active(e)
  BY DEF ImageTypes, Uploaded!ImagesAssumption, Uploaded!Begin, Inodes, Active
<1>3. [at |-> "read", number |-> edits', seen |-> row, new |-> new, inode |-> None] \in Jobs
  BY <1>2 DEF ImageTypes, Jobs
<1> QED
  BY <1>1, <1>2, <1>3 DEF ImageTypes

GoesOn(e, place) ==
  /\ desk' \in [Editors -> {Uploaded!Away} \cup Jobs]
  /\ desk'[e] \in Jobs /\ desk'[e].at = place
  /\ desk'[e].number = desk[e].number /\ desk'[e].seen = desk[e].seen /\ desk'[e].new = desk[e].new
  /\ \A d \in Editors \ {e} : desk'[d] = desk[d]

Leaves(e) ==
  /\ desk' \in [Editors -> {Uploaded!Away} \cup Jobs]
  /\ desk'[e] = Uploaded!Away
  /\ \A d \in Editors \ {e} : desk'[d] = desk[d]

LEMMA JobGoesOn ==
  ASSUME ImageTypes, NEW e \in Editors, Active(e), NEW place \in {"read", "unlink", "open", "write", "commit"},
         desk' = [desk EXCEPT ![e].at = place]
  PROVE  GoesOn(e, place) /\ desk'[e].inode = desk[e].inode
<1>1. desk[e] \in Jobs
  BY JobsAreNotAway
<1>2. desk'[e] = [desk[e] EXCEPT !.at = place]
  BY DEF ImageTypes
<1>3. desk'[e] \in Jobs
  BY <1>1, <1>2 DEF Jobs
<1> QED
  BY <1>1, <1>2, <1>3 DEF ImageTypes, GoesOn, Jobs

LEMMA JobLeaves ==
  ASSUME ImageTypes, NEW e \in Editors, NEW touched, Uploaded!Stop(e, touched)
  PROVE  Leaves(e)
BY DEF ImageTypes, Leaves, Uploaded!Stop

LEMMA SavesRow ==
  ASSUME ImageTypes, NEW e \in Editors, Uploaded!SaveRow(e)
  PROVE  /\ Active(e) /\ desk[e].at = "read" /\ ~Uploaded!Locked
         /\ GoesOn(e, IF desk[e].new = None THEN "commit" ELSE "unlink") /\ desk'[e].inode = desk[e].inode
         /\ UNCHANGED <<row, file, data, mtime, now, thumbs, visit, edits, spoiled>>
<1>1. Active(e)
  BY JobsAreNotAway DEF Uploaded!SaveRow
<1>2. CASE desk[e].new = None
  BY <1>1, <1>2, JobGoesOn DEF Uploaded!SaveRow, Uploaded!rowvars, Uploaded!filevars
<1>3. CASE desk[e].new # None
  BY <1>1, <1>3, JobGoesOn DEF Uploaded!SaveRow, Uploaded!rowvars, Uploaded!filevars
<1> QED
  BY <1>2, <1>3

LEMMA Unlinks ==
  ASSUME ImageTypes, NEW e \in Editors, Uploaded!Unlink(e)
  PROVE  /\ Active(e) /\ desk[e].at = "unlink"
         /\ UNCHANGED <<row, data, mtime, now, thumbs, visit, edits>>
         /\ \/ /\ GoesOn(e, "open") /\ desk[e].seen.type \in Types /\ file[desk[e].seen.type] # None
               /\ file' = [file EXCEPT ![desk[e].seen.type] = None] /\ UNCHANGED spoiled
            \/ Leaves(e) /\ UNCHANGED file /\ spoiled' = spoiled
            \/ /\ GoesOn(e, "open") /\ desk[e].seen.type \in {None, desk[e].new}
               /\ UNCHANGED <<file, spoiled>>
<1>1. Active(e) /\ desk[e] \in Jobs /\ desk[e].at = "unlink" /\ UNCHANGED <<row, data, mtime, now, thumbs, visit, edits>>
  BY JobsAreNotAway DEF Uploaded!Unlink
<1>2. desk[e].seen.type \in Types \cup {None}
  BY <1>1 DEF Jobs, Rows
<1>3. desk' = [desk EXCEPT ![e].at = "open"] => GoesOn(e, "open")
  BY <1>1, JobGoesOn
<1>4. CASE /\ Uploaded!ToUnlink(desk[e].seen.type, desk[e].new)
           /\ file[desk[e].seen.type] # None
           /\ file' = [file EXCEPT ![desk[e].seen.type] = None]
           /\ desk' = [desk EXCEPT ![e].at = "open"]
           /\ UNCHANGED spoiled
  BY <1>1, <1>2, <1>3, <1>4 DEF Uploaded!ToUnlink
<1>5. CASE Uploaded!Stop(e, FALSE) /\ UNCHANGED file
  BY <1>1, <1>5, JobLeaves DEF ImageTypes, Uploaded!Stop
<1>6. CASE /\ ~Uploaded!ToUnlink(desk[e].seen.type, desk[e].new)
           /\ desk' = [desk EXCEPT ![e].at = "open"]
           /\ UNCHANGED <<file, spoiled>>
  BY <1>1, <1>2, <1>3, <1>6 DEF Uploaded!ToUnlink
<1> QED
  BY <1>4, <1>5, <1>6 DEF Uploaded!Unlink, Uploaded!image_file

LEMMA Opens ==
  ASSUME Uploaded!ImagesAssumption, ImageTypes, WritesFile, NEW e \in Editors, Uploaded!Open(e)
  PROVE  /\ Active(e) /\ desk[e].at = "open" /\ desk[e].new \in Types /\ GoesOn(e, "write")
         /\ desk'[e].inode = IF file[desk[e].new] = None THEN desk[e].number ELSE file[desk[e].new]
         /\ desk'[e].inode \in Inodes
         /\ file' = [file EXCEPT ![desk[e].new] = desk'[e].inode]
         /\ data' = [data EXCEPT ![desk'[e].inode] = Uploaded!Nothing]
         /\ mtime' = [mtime EXCEPT ![desk'[e].inode] = now + 1] /\ now' = now + 1
         /\ UNCHANGED <<row, thumbs, visit, edits, spoiled>>
<1>1. Active(e) /\ desk[e] \in Jobs /\ desk[e].at = "open" /\ UNCHANGED <<row, thumbs, visit, edits, spoiled>>
  BY JobsAreNotAway DEF Uploaded!Open, Uploaded!rowvars
<1>2. desk[e].new \in Types
  BY <1>1 DEF WritesFile, WritesOwn, Jobs
<1> DEFINE inode == IF file[desk[e].new] = None THEN desk[e].number ELSE file[desk[e].new]
<1>3. inode \in Inodes
  BY <1>1, <1>2 DEF ImageTypes, Jobs
<1>4. /\ file' = [file EXCEPT ![desk[e].new] = inode]
      /\ data' = [data EXCEPT ![inode] = Uploaded!Nothing]
      /\ mtime' = [mtime EXCEPT ![inode] = now + 1] /\ now' = now + 1
      /\ desk' = [desk EXCEPT ![e].at = "write", ![e].inode = inode]
  BY DEF Uploaded!Open, Uploaded!image_file, Uploaded!TypeOfFile
<1> HIDE DEF inode
<1>5. desk'[e] = [desk[e] EXCEPT !.at = "write", !.inode = inode] /\ \A d \in Editors \ {e} : desk'[d] = desk[d]
  BY <1>4 DEF ImageTypes
<1>6. desk'[e] \in Jobs /\ desk'[e].inode = inode
  BY <1>1, <1>3, <1>5 DEF Jobs
<1>7. GoesOn(e, "write")
  BY <1>1, <1>4, <1>5, <1>6 DEF ImageTypes, GoesOn, Jobs
<1> QED
  BY <1>1, <1>2, <1>3, <1>4, <1>6, <1>7 DEF inode

LEMMA Writes ==
  ASSUME ImageTypes, WritesFile, NEW e \in Editors, Uploaded!Write(e)
  PROVE  /\ Active(e) /\ desk[e].at = "write" /\ desk[e].inode \in Inodes /\ desk'[e].inode = desk[e].inode
         /\ mtime' = [mtime EXCEPT ![desk[e].inode] = now + 1] /\ now' = now + 1
         /\ UNCHANGED <<row, file, thumbs, visit, edits, spoiled>>
         /\ \/ /\ data[desk[e].inode][1] # desk[e].number /\ GoesOn(e, "write")
               /\ data' = [data EXCEPT ![desk[e].inode] = [@ EXCEPT ![1] = desk[e].number]]
            \/ /\ data[desk[e].inode][1] = desk[e].number /\ GoesOn(e, "commit")
               /\ data' = [data EXCEPT ![desk[e].inode] = [@ EXCEPT ![2] = desk[e].number]]
<1>1. Active(e) /\ desk[e] \in Jobs /\ desk[e].at = "write"
  BY JobsAreNotAway DEF Uploaded!Write
<1>2. desk[e].inode \in Inodes
  BY <1>1 DEF WritesFile, WritesOwn, Opened, Jobs
<1>3. /\ mtime' = [mtime EXCEPT ![desk[e].inode] = now + 1] /\ now' = now + 1
      /\ UNCHANGED <<row, file, thumbs, visit, edits, spoiled>>
  BY DEF Uploaded!Write, Uploaded!rowvars
<1>4. CASE data[desk[e].inode][1] = desk[e].number
  <2>1. desk' = [desk EXCEPT ![e].at = "commit"] /\ data' = [data EXCEPT ![desk[e].inode][2] = desk[e].number]
    BY <1>4 DEF Uploaded!Write
  <2> QED
    BY <1>1, <1>2, <1>3, <1>4, <2>1, JobGoesOn
<1>5. CASE data[desk[e].inode][1] # desk[e].number
  <2>1. desk' = [desk EXCEPT ![e].at = "write"] /\ data' = [data EXCEPT ![desk[e].inode][1] = desk[e].number]
    BY <1>5 DEF Uploaded!Write
  <2> QED
    BY <1>1, <1>2, <1>3, <1>5, <2>1, JobGoesOn
<1> QED
  BY <1>4, <1>5

LEMMA Commits ==
  ASSUME ImageTypes, NEW e \in Editors, Uploaded!Commit(e)
  PROVE  /\ Active(e) /\ desk[e].at = "commit" /\ Leaves(e) /\ row' \in Rows
         /\ row' = IF desk[e].new = None THEN [row EXCEPT !.type = desk[e].seen.type]
                   ELSE [type |-> desk[e].new, by |-> desk[e].number]
         /\ UNCHANGED <<file, data, mtime, now, thumbs, visit, edits>>
         /\ spoiled' = (spoiled \/ ~Current(e))
<1>1. Active(e) /\ desk[e] \in Jobs /\ desk[e].at = "commit"
  BY JobsAreNotAway DEF Uploaded!Commit
<1>2. Leaves(e)
  BY JobLeaves DEF Uploaded!Commit
<1>3. row' = IF desk[e].new = None THEN [row EXCEPT !.type = desk[e].seen.type]
             ELSE [type |-> desk[e].new, by |-> desk[e].number]
  BY DEF Uploaded!Commit
<1>4. row' \in Rows
  BY <1>1, <1>3 DEF ImageTypes, Jobs, Rows, Inodes
<1>5. spoiled' = (spoiled \/ ~Current(e)) /\ UNCHANGED <<file, data, mtime, now, thumbs, visit, edits>>
  BY DEF Uploaded!Commit, Uploaded!Stop, Uploaded!filevars, Current
<1> QED
  BY <1>1, <1>2, <1>3, <1>4, <1>5

LEMMA Aborts ==
  ASSUME ImageTypes, NEW e \in Editors, Uploaded!Abort(e)
  PROVE  /\ Active(e) /\ Holds(e) /\ Leaves(e)
         /\ UNCHANGED <<row, file, data, mtime, now, thumbs, visit, edits>>
         /\ spoiled' = (spoiled \/ desk[e].at \in {"open", "write"} \/ (desk[e].at = "commit" /\ desk[e].new # None))
<1>1. Active(e) /\ Holds(e)
  BY JobsAreNotAway DEF Uploaded!Abort, Holds
<1>2. Leaves(e)
  BY JobLeaves DEF Uploaded!Abort
<1> QED
  BY <1>1, <1>2 DEF Uploaded!Abort, Uploaded!Stop, Uploaded!filevars

(* Who looks at the thumbnail changes nothing but the cache.               *)
LEMMA ViewsOnly ==
  ASSUME NEW v \in Viewers, Uploaded!View(v)
  PROVE  UNCHANGED <<row, file, data, mtime, now, desk, edits, spoiled>>
BY DEF Uploaded!View, Uploaded!show_thumbnail, Uploaded!export, Uploaded!convert, Uploaded!StoreThumbnail,
       Uploaded!rowvars, Uploaded!filevars

LEMMA Shows ==
  ASSUME ImageTypes, NEW v \in Viewers, Uploaded!show_thumbnail(v)
  PROVE  /\ visit[v].at = "away" /\ row.type \in Linked /\ mtime[file[row.type]] \notin DOMAIN thumbs
         /\ visit' \in [Viewers -> {Uploaded!Away} \cup Visits] /\ UNCHANGED thumbs
         /\ visit'[v] = [at |-> "generate", type |-> row.type, inode |-> None, key |-> mtime[file[row.type]],
                         seen |-> Uploaded!Nothing, chunk |-> 1]
         /\ \A w \in Viewers \ {v} : visit'[w] = visit[w]
<1>1. visit[v].at = "away" /\ row.type \in Linked /\ mtime[file[row.type]] \notin DOMAIN thumbs /\ UNCHANGED thumbs
  BY DEF ImageTypes, Rows, Linked, Uploaded!show_thumbnail, Uploaded!Away, Uploaded!image_file
<1> DEFINE new == [at |-> "generate", type |-> row.type, inode |-> None, key |-> mtime[file[row.type]],
                   seen |-> Uploaded!Nothing, chunk |-> 1]
<1>2. visit' = [visit EXCEPT ![v] = new]
  BY DEF Uploaded!show_thumbnail, Uploaded!image_file
<1>3. Uploaded!Nothing \in Contents
  BY DEF Contents, Chunks, Uploaded!Nothing, Uploaded!Chunks
<1>4. mtime[file[row.type]] \in Nat /\ row.type \in Types
  BY <1>1 DEF ImageTypes, Linked
<1>5. new \in Visits
  BY <1>3, <1>4 DEF Visits
<1> HIDE DEF new
<1>6. visit' \in [Viewers -> {Uploaded!Away} \cup Visits] /\ visit'[v] = new /\ \A w \in Viewers \ {v} : visit'[w] = visit[w]
  BY <1>2, <1>5 DEF ImageTypes
<1> QED
  BY <1>1, <1>6 DEF new

LEMMA Exports ==
  ASSUME ImageTypes, NEW v \in Viewers, Uploaded!export(v)
  PROVE  /\ visit[v].at = "generate" /\ visit' \in [Viewers -> {Uploaded!Away} \cup Visits] /\ UNCHANGED thumbs
         /\ \A w \in Viewers \ {v} : visit'[w] = visit[w]
         /\ \/ visit'[v] = Uploaded!Away
            \/ /\ file[visit[v].type] \in Inodes
               /\ visit'[v] = [visit[v] EXCEPT !.at = "convert", !.inode = file[visit[v].type]]
<1>1. visit[v].at = "generate" /\ visit[v] \in Visits /\ UNCHANGED thumbs
  BY VisitsAreNotAway DEF Uploaded!export
<1>2. visit[v].type \in Types
  BY <1>1 DEF Visits
<1>3. CASE file[visit[v].type] = None
  <2>1. visit' = [visit EXCEPT ![v] = Uploaded!Away]
    BY <1>3 DEF Uploaded!export, Uploaded!image_file
  <2> QED
    BY <1>1, <2>1 DEF ImageTypes
<1>4. CASE file[visit[v].type] # None
  <2>1. visit' = [visit EXCEPT ![v] = [visit[v] EXCEPT !.at = "convert", !.inode = file[visit[v].type]]]
    BY <1>4 DEF ImageTypes, Uploaded!export, Uploaded!image_file
  <2>2. file[visit[v].type] \in Inodes
    BY <1>2, <1>4 DEF ImageTypes
  <2>3. [visit[v] EXCEPT !.at = "convert", !.inode = file[visit[v].type]] \in Visits
    BY <1>1, <2>2 DEF Visits
  <2> QED
    BY <1>1, <2>1, <2>2, <2>3 DEF ImageTypes
<1> QED
  BY <1>3, <1>4

LEMMA Converts ==
  ASSUME ImageTypes, Visited, NEW v \in Viewers, Uploaded!convert(v)
  PROVE  /\ visit[v].at = "convert" /\ visit[v].chunk \in {1, 2} /\ visit[v].inode \in Inodes
         /\ visit' \in [Viewers -> {Uploaded!Away} \cup Visits] /\ UNCHANGED thumbs
         /\ \A w \in Viewers \ {v} : visit'[w] = visit[w]
         /\ visit'[v].key = visit[v].key /\ visit'[v].inode = visit[v].inode
         /\ visit'[v].seen = [visit[v].seen EXCEPT ![visit[v].chunk] = data[visit[v].inode][visit[v].chunk]]
         /\ visit'[v].chunk = visit[v].chunk + 1
         /\ visit'[v].at = IF visit[v].chunk = 2 THEN "store" ELSE "convert"
<1>1. visit[v].at = "convert" /\ visit[v] \in Visits /\ UNCHANGED thumbs
  BY VisitsAreNotAway DEF Uploaded!convert
<1>2. visit[v].chunk \in {1, 2} /\ visit[v].inode \in Inodes
  BY <1>1 DEF Visited, Visits
<1> DEFINE c == visit[v].chunk
           new == [visit[v] EXCEPT !.seen[c] = data[visit[v].inode][c], !.chunk = c + 1,
                                   !.at = IF c = 2 THEN "store" ELSE "convert"]
<1>3. visit' = [visit EXCEPT ![v] = new]
  BY DEF Uploaded!convert, ImageTypes
<1>4. data[visit[v].inode][c] \in Inodes \cup {None}
  BY <1>2 DEF ImageTypes, Contents, Chunks
<1>5. [visit[v].seen EXCEPT ![c] = data[visit[v].inode][c]] \in Contents
  BY <1>1, <1>2, <1>4 DEF Visits, Contents
<1>6. c + 1 \in 1 .. 3
  BY <1>2
<1>7. new = [visit[v] EXCEPT !.seen = [visit[v].seen EXCEPT ![c] = data[visit[v].inode][c]], !.chunk = c + 1,
                             !.at = IF c = 2 THEN "store" ELSE "convert"]
  OBVIOUS
<1>8. new \in Visits
  BY <1>1, <1>5, <1>6, <1>7 DEF Visits
<1>9. /\ new.key = visit[v].key /\ new.inode = visit[v].inode
      /\ new.seen = [visit[v].seen EXCEPT ![c] = data[visit[v].inode][c]]
      /\ new.chunk = c + 1 /\ new.at = IF c = 2 THEN "store" ELSE "convert"
  BY <1>1, <1>7 DEF Visits
<1> HIDE DEF new
<1>10. visit' \in [Viewers -> {Uploaded!Away} \cup Visits] /\ visit'[v] = new /\ \A w \in Viewers \ {v} : visit'[w] = visit[w]
  BY <1>3, <1>8 DEF ImageTypes
<1> QED
  BY <1>1, <1>2, <1>9, <1>10

LEMMA StoresThumbnail ==
  ASSUME ImageTypes, NEW v \in Viewers, Uploaded!StoreThumbnail(v)
  PROVE  /\ visit[v].at = "store" /\ visit[v] \in Visits
         /\ visit' \in [Viewers -> {Uploaded!Away} \cup Visits]
         /\ visit'[v] = Uploaded!Away /\ \A w \in Viewers \ {v} : visit'[w] = visit[w]
         /\ \/ UNCHANGED thumbs
            \/ /\ DOMAIN thumbs' = DOMAIN thumbs \cup {visit[v].key}
               /\ thumbs' \in [DOMAIN thumbs' -> Contents]
               /\ \A k \in DOMAIN thumbs' : thumbs'[k] = IF k = visit[v].key THEN visit[v].seen ELSE thumbs[k]
<1>1. visit[v].at = "store" /\ visit[v] \in Visits
  BY VisitsAreNotAway DEF Uploaded!StoreThumbnail
<1>2. visit' = [visit EXCEPT ![v] = Uploaded!Away]
  BY DEF Uploaded!StoreThumbnail
<1>3. CASE thumbs' = [t \in DOMAIN thumbs \cup {Uploaded!Key(v)} |-> IF t = Uploaded!Key(v) THEN visit[v].seen ELSE thumbs[t]]
  <2>1. /\ DOMAIN thumbs' = DOMAIN thumbs \cup {visit[v].key}
        /\ \A k \in DOMAIN thumbs' : thumbs'[k] = IF k = visit[v].key THEN visit[v].seen ELSE thumbs[k]
    BY <1>3 DEF Uploaded!Key
  <2>2. visit[v].seen \in Contents /\ \A k \in DOMAIN thumbs : thumbs[k] \in Contents
    BY <1>1 DEF ImageTypes, Visits
  <2>3. \A k \in DOMAIN thumbs' : thumbs'[k] \in Contents
    BY <2>1, <2>2
  <2>4. thumbs' \in [DOMAIN thumbs' -> Contents]
    BY <1>3, <2>3
  <2> QED
    BY <1>1, <1>2, <2>1, <2>4 DEF ImageTypes
<1>4. CASE UNCHANGED thumbs
  BY <1>1, <1>2, <1>4 DEF ImageTypes
<1> QED
  BY <1>3, <1>4 DEF Uploaded!StoreThumbnail

LEMMA ImageTypesStep ==
  ASSUME Uploaded!ImagesAssumption, ImageTypes, WritesFile, Visited, [Uploaded!Next]_(Uploaded!vars)
  PROVE  ImageTypes'
<1>1. ASSUME NEW e \in Editors, Uploaded!Begin(e)
      PROVE  ImageTypes'
  <2>1. edits' \in 0 .. MaxEdits /\ desk' \in [Editors -> {Uploaded!Away} \cup Jobs]
    BY <1>1, BeginsJob DEF ImageTypes, Uploaded!ImagesAssumption
  <2> QED
    BY <1>1, <2>1 DEF ImageTypes, Uploaded!Begin, Uploaded!filevars
<1>2. ASSUME NEW e \in Editors, Uploaded!SaveRow(e)
      PROVE  ImageTypes'
  BY <1>2, SavesRow DEF ImageTypes, GoesOn
<1>3. ASSUME NEW e \in Editors, Uploaded!Unlink(e)
      PROVE  ImageTypes'
  <2>1. file' \in [Types -> Inodes \cup {None}] /\ desk' \in [Editors -> {Uploaded!Away} \cup Jobs] /\ spoiled' = spoiled
    BY <1>3, Unlinks DEF ImageTypes, GoesOn, Leaves
  <2> QED
    BY <1>3, <2>1, Unlinks DEF ImageTypes
<1>4. ASSUME NEW e \in Editors, Uploaded!Open(e)
      PROVE  ImageTypes'
  <2>1. Uploaded!Nothing \in Contents
    BY DEF Contents, Chunks, Uploaded!Nothing, Uploaded!Chunks
  <2>2. desk' \in [Editors -> {Uploaded!Away} \cup Jobs]
    BY <1>4, Opens DEF GoesOn
  <2>3. data' \in [Inodes -> Contents]
    BY <1>4, <2>1, Opens DEF ImageTypes
  <2>4. file' \in [Types -> Inodes \cup {None}] /\ mtime' \in [Inodes -> Nat] /\ now' \in Nat
    BY <1>4, Opens DEF ImageTypes
  <2> QED
    BY <1>4, <2>2, <2>3, <2>4, Opens DEF ImageTypes
<1>5. ASSUME NEW e \in Editors, Uploaded!Write(e)
      PROVE  ImageTypes'
  <2>1. desk[e].number \in Inodes
    BY <1>5, Writes, JobsAreNotAway DEF Jobs
  <2>2. desk' \in [Editors -> {Uploaded!Away} \cup Jobs]
    BY <1>5, Writes DEF GoesOn
  <2>3. \A c \in Chunks : [data[desk[e].inode] EXCEPT ![c] = desk[e].number] \in Contents
    BY <1>5, <2>1, Writes DEF ImageTypes, Contents
  <2>4. data' \in [Inodes -> Contents]
    <3>1. [data[desk[e].inode] EXCEPT ![1] = desk[e].number] \in Contents
      BY <2>3 DEF Chunks
    <3>2. [data[desk[e].inode] EXCEPT ![2] = desk[e].number] \in Contents
      BY <2>3 DEF Chunks
    <3> QED
      BY <1>5, <3>1, <3>2, Writes DEF ImageTypes
  <2>5. mtime' \in [Inodes -> Nat] /\ now' \in Nat
    <3>1. mtime' = [mtime EXCEPT ![desk[e].inode] = now + 1] /\ now' = now + 1
      BY <1>5, Writes
    <3>2. mtime \in [Inodes -> Nat] /\ now \in Nat
      BY DEF ImageTypes
    <3>3. now + 1 \in Nat
      BY <3>2
    <3> QED
      BY <3>1, <3>2, <3>3
  <2> QED
    BY <1>5, <2>2, <2>4, <2>5, Writes DEF ImageTypes
<1>6. ASSUME NEW e \in Editors, Uploaded!Commit(e)
      PROVE  ImageTypes'
  BY <1>6, Commits DEF ImageTypes, Leaves
<1>7. ASSUME NEW e \in Editors, Uploaded!Abort(e)
      PROVE  ImageTypes'
  BY <1>7, Aborts DEF ImageTypes, Leaves
<1>8. ASSUME NEW v \in Viewers, Uploaded!View(v)
      PROVE  ImageTypes'
  <2>1. visit' \in [Viewers -> {Uploaded!Away} \cup Visits] /\ thumbs' \in [DOMAIN thumbs' -> Contents]
    BY <1>8, Shows, Exports, Converts, StoresThumbnail DEF ImageTypes, Uploaded!View
  <2> QED
    BY <1>8, <2>1, ViewsOnly DEF ImageTypes
<1>9. ASSUME UNCHANGED Uploaded!vars
      PROVE  ImageTypes'
  BY <1>9 DEF ImageTypes, Uploaded!vars, Uploaded!rowvars, Uploaded!filevars
<1> QED
  BY <1>1, <1>2, <1>3, <1>4, <1>5, <1>6, <1>7, <1>8, <1>9 DEF Uploaded!Next, Uploaded!Edit

LEMMA EditOrderStep ==
  ASSUME Uploaded!ImagesAssumption, ImageTypes, EditOrder, WritesFile, [Uploaded!Next]_(Uploaded!vars)
  PROVE  EditOrder'
<1>0. \A d \in Editors : Active(d) => desk[d] \in Jobs /\ desk[d].number \in Nat /\ desk[d].seen.by \in Nat
  BY JobsAreNotAway DEF Jobs, Rows, Inodes
<1>00. ASSUME NEW d \in Editors, Holds(d)
       PROVE  Active(d)
  BY <1>00, JobsAreNotAway DEF Holds
<1>1. ASSUME NEW e \in Editors, Uploaded!Begin(e)
      PROVE  EditOrder'
  <2>1. /\ ~Active(e) /\ Active(e)' /\ desk'[e].number = edits + 1 /\ desk'[e].seen = row /\ desk'[e].at = "read"
        /\ edits' = edits + 1 /\ edits \in Nat /\ edits + 1 \in Inodes /\ UNCHANGED <<row, file>> /\ row.by \in Nat
        /\ \A d \in Editors \ {e} : desk'[d] = desk[d]
    <3>1. edits \in Nat /\ row.by \in Nat /\ edits < MaxEdits
      BY <1>1, BeginsJob DEF ImageTypes, Rows
    <3>2. edits + 1 \in Inodes
      BY <3>1 DEF Inodes, Uploaded!ImagesAssumption
    <3>3. Active(e)'
      BY <1>1, BeginsJob DEF Active, Jobs, Uploaded!Away
    <3> QED
      BY <1>1, <3>1, <3>2, <3>3, BeginsJob DEF Uploaded!Begin, Uploaded!filevars
  <2>2. \A d \in Editors \ {e} : Active(d)' = Active(d) /\ Holds(d)' = Holds(d)
    BY <2>1 DEF Active, Holds
  <2>3. ~Holds(e)'
    BY <2>1 DEF Holds
  <2>4. \A t \in Linked : file[t] \in Nat
    BY DEF ImageTypes, Linked, Inodes
  <2>5. \A t \in Types : file[t] # edits + 1
    <3> SUFFICES ASSUME NEW t \in Types
                 PROVE  file[t] # edits + 1
      OBVIOUS
    <3>1. CASE t \in Linked
      BY <2>1, <2>4, <3>1 DEF EditOrder
    <3>2. CASE t \notin Linked
      BY <2>1, <3>2 DEF Linked, Inodes, Uploaded!ImagesAssumption
    <3> QED
      BY <3>1, <3>2
  <2>6. row'.by <= edits' /\ \A t \in Linked' : file'[t] <= edits'
    BY <2>1, <2>4 DEF EditOrder, Linked
  <2>7. ASSUME NEW d \in Editors, Active(d)'
        PROVE  /\ desk'[d].number <= edits' /\ row'.by # desk'[d].number /\ desk'[d].seen.by <= edits
               /\ d # e => desk'[d].number <= edits
               /\ desk'[d].at \in {"read", "unlink", "open"} => \A t \in Types : file'[t] # desk'[d].number
    <3>1. CASE d = e
      BY <2>1, <2>5, <3>1 DEF EditOrder
    <3>2. CASE d # e
      BY <1>0, <2>1, <2>2, <2>7, <3>2 DEF EditOrder
    <3> QED
      BY <3>1, <3>2
  <2>8. ASSUME NEW c \in Editors, NEW d \in Editors, Active(c)', Active(d)'
        PROVE  desk'[d].seen.by # desk'[c].number /\ (desk'[d].number = desk'[c].number => d = c)
    <3>1. CASE c = e
      BY <2>1, <2>7, <2>8, <3>1, <1>0, <2>2
    <3>2. CASE c # e /\ d # e
      BY <2>1, <2>2, <2>8, <3>2 DEF EditOrder
    <3>3. CASE c # e /\ d = e
      BY <2>1, <2>2, <2>8, <3>3, <1>0 DEF EditOrder
    <3> QED
      BY <3>1, <3>2, <3>3
  <2>9. \A c, d \in Editors : Holds(c)' /\ Holds(d)' => c = d
    BY <2>2, <2>3 DEF EditOrder
  <2> QED
    <3>1. \A d \in Editors : Active(d)' => desk'[d].seen.by <= edits'
      BY <1>0, <2>1, <2>2, <2>7
    <3>2. \A t, u \in Linked' : file'[t] = file'[u] => t = u
      BY <2>1 DEF EditOrder, Linked
    <3> QED
      BY <2>6, <2>7, <2>8, <2>9, <3>1, <3>2 DEF EditOrder
<1>2. ASSUME NEW e \in Editors, Uploaded!SaveRow(e)
      PROVE  EditOrder'
  <2>1. /\ Active(e) /\ Active(e)' /\ desk[e].at = "read"
        /\ \A d \in Editors : desk'[d].number = desk[d].number /\ desk'[d].seen = desk[d].seen
        /\ \A d \in Editors \ {e} : desk'[d] = desk[d]
        /\ UNCHANGED <<row, file, edits>>
    BY <1>2, SavesRow DEF GoesOn, Jobs, Active, Uploaded!Away
  <2>2. \A d \in Editors : Active(d)' = Active(d)
    BY <2>1 DEF Active
  <2>3. \A d \in Editors : Holds(d) => desk[d].at \notin {"away", "read"}
    BY DEF Holds
  <2>4. \A d \in Editors \ {e} : ~Holds(d)'
    BY <1>2, <2>1, <2>3, SavesRow DEF Holds, Uploaded!Locked
  <2> QED
    BY <2>1, <2>2, <2>4 DEF EditOrder, Linked
<1>3. ASSUME NEW e \in Editors, Uploaded!Unlink(e)
      PROVE  EditOrder'
  <2>1. /\ Active(e) /\ desk[e].at = "unlink" /\ UNCHANGED <<row, edits>>
        /\ \A t \in Types : file'[t] \in {file[t], None}
        /\ \A d \in Editors \ {e} : desk'[d] = desk[d]
        /\ \/ desk'[e].at = "open" /\ desk'[e].number = desk[e].number /\ desk'[e].seen = desk[e].seen
           \/ desk'[e] = Uploaded!Away
    BY <1>3, Unlinks DEF ImageTypes, GoesOn, Leaves
  <2>2. \A d \in Editors : /\ Active(d)' => Active(d) /\ desk'[d].number = desk[d].number /\ desk'[d].seen = desk[d].seen
                           /\ Holds(d)' => Holds(d)
    BY <2>1 DEF Active, Holds, Uploaded!Away
  <2>3. \A d \in Editors : desk'[d].at \in {"read", "unlink", "open"} => desk[d].at \in {"read", "unlink", "open"}
    BY <2>1 DEF Uploaded!Away
  <2>4. \A d \in Editors : Active(d) => desk[d].number # None
    BY <1>0 DEF Jobs, Inodes, Uploaded!ImagesAssumption
  <2> QED
    BY <2>1, <2>2, <2>3, <2>4 DEF EditOrder, Linked
<1>4. ASSUME NEW e \in Editors, Uploaded!Open(e)
      PROVE  EditOrder'
  <2>1. /\ Active(e) /\ desk[e].at = "open" /\ UNCHANGED <<row, edits>> /\ desk[e].new \in Types
        /\ desk'[e].at = "write" /\ desk'[e].number = desk[e].number /\ desk'[e].seen = desk[e].seen
        /\ \A d \in Editors \ {e} : desk'[d] = desk[d]
        /\ \A t \in Types \ {desk[e].new} : file'[t] = file[t]
        /\ file'[desk[e].new] = IF file[desk[e].new] = None THEN desk[e].number ELSE file[desk[e].new]
    BY <1>4, Opens DEF ImageTypes, GoesOn
  <2>2. \A d \in Editors : /\ Active(d)' => Active(d) /\ desk'[d].number = desk[d].number /\ desk'[d].seen = desk[d].seen
                           /\ Holds(d)' => Holds(d)
    BY <2>1 DEF Active, Holds, Uploaded!Away
  <2>3. \A d \in Editors : desk'[d].at \in {"read", "unlink", "open"} => d # e /\ desk[d].at \in {"read", "unlink", "open"}
    BY <2>1
  <2>4. \A t \in Types : file[t] # desk[e].number
    BY <2>1 DEF EditOrder
  <2>5. \A t \in Linked' : file'[t] <= edits
    BY <2>1 DEF EditOrder, Linked
  <2>6. \A t, u \in Linked' : file'[t] = file'[u] => t = u
    BY <2>1, <2>4 DEF EditOrder, Linked
  <2>7. \A d \in Editors : Active(d)' /\ desk'[d].at \in {"read", "unlink", "open"} => \A t \in Types : file'[t] # desk'[d].number
    BY <2>1, <2>2, <2>3 DEF EditOrder
  <2> QED
    BY <2>1, <2>2, <2>5, <2>6, <2>7 DEF EditOrder
<1>5. ASSUME NEW e \in Editors, Uploaded!Write(e)
      PROVE  EditOrder'
  <2>1. /\ Active(e) /\ desk[e].at = "write" /\ UNCHANGED <<row, file, edits>>
        /\ desk'[e].at \in {"write", "commit"} /\ desk'[e].number = desk[e].number /\ desk'[e].seen = desk[e].seen
        /\ \A d \in Editors \ {e} : desk'[d] = desk[d]
    BY <1>5, Writes DEF GoesOn
  <2>2. \A d \in Editors : /\ Active(d)' => Active(d) /\ desk'[d].number = desk[d].number /\ desk'[d].seen = desk[d].seen
                           /\ Holds(d)' => Holds(d)
                           /\ desk'[d].at \in {"read", "unlink", "open"} => desk[d].at \in {"read", "unlink", "open"}
    BY <2>1 DEF Active, Holds
  <2> QED
    BY <2>1, <2>2 DEF EditOrder, Linked
<1>6. ASSUME NEW e \in Editors, Uploaded!Commit(e) \/ Uploaded!Abort(e)
      PROVE  EditOrder'
  <2>1. /\ Active(e) /\ Leaves(e) /\ UNCHANGED <<file, edits>>
        /\ row'.by \in {row.by, desk[e].number}
    BY <1>6, Commits, Aborts DEF ImageTypes, Rows
  <2>2. \A d \in Editors : /\ Active(d)' => Active(d) /\ desk'[d] = desk[d] /\ d # e
                           /\ Holds(d)' => Holds(d)
    BY <2>1 DEF Leaves, Active, Holds, Uploaded!Away
  <2> QED
    BY <2>1, <2>2 DEF EditOrder, Linked
<1>7. ASSUME NEW v \in Viewers, Uploaded!View(v)
      PROVE  EditOrder'
  BY <1>7, ViewsOnly DEF EditOrder, Linked, Active, Holds
<1>8. ASSUME UNCHANGED Uploaded!vars
      PROVE  EditOrder'
  BY <1>8 DEF EditOrder, Linked, Active, Holds, Uploaded!vars, Uploaded!rowvars, Uploaded!filevars
<1> QED
  BY <1>1, <1>2, <1>3, <1>4, <1>5, <1>6, <1>7, <1>8 DEF Uploaded!Next, Uploaded!Edit

LEMMA LinkedAreInodes ==
  ASSUME ImageTypes, NEW t \in Linked
  PROVE  file[t] \in Inodes /\ t \in Types
BY DEF ImageTypes, Linked

(* Whoever holds the lock and changes a file takes a new time for it.      *)
LEMMA TimePasses ==
  ASSUME ImageTypes, ClockRuns, NEW i \in Inodes, mtime' = [mtime EXCEPT ![i] = now + 1], now' = now + 1,
         \A t \in Linked' : file'[t] \in Inodes /\ (file'[t] = i \/ (t \in Linked /\ file'[t] = file[t])),
         UNCHANGED <<thumbs, visit>>
  PROVE  ClockRuns'
<1>1. now \in Nat /\ \A j \in Inodes : mtime[j] \in Nat /\ mtime'[j] = IF j = i THEN now + 1 ELSE mtime[j]
  BY DEF ImageTypes
<1>2. \A j \in Inodes : mtime'[j] <= now'
  BY <1>1 DEF ClockRuns
<1>3. \A j, k \in Inodes : mtime'[j] = mtime'[k] /\ mtime'[j] # 0 => j = k
  BY <1>1 DEF ClockRuns
<1>4. \A t \in Linked' : mtime'[file'[t]] # 0
  BY <1>1 DEF ClockRuns
<1>5. \A k \in DOMAIN thumbs' : k \in Nat /\ k <= now'
  BY <1>1 DEF ClockRuns
<1>6. \A v \in Viewers : visit'[v].at # "away" => visit'[v].key <= now'
  <2> SUFFICES ASSUME NEW v \in Viewers, visit[v].at # "away"
               PROVE  visit[v].key <= now + 1
    OBVIOUS
  <2>1. visit[v].key \in Nat
    BY VisitsAreNotAway DEF Visits
  <2> QED
    BY <1>1, <2>1 DEF ClockRuns
<1> QED
  BY <1>2, <1>3, <1>4, <1>5, <1>6 DEF ClockRuns

LEMMA ClockStep ==
  ASSUME Uploaded!ImagesAssumption, ImageTypes, ClockRuns, WritesFile, Visited, [Uploaded!Next]_(Uploaded!vars)
  PROVE  ClockRuns'
<1>1. ASSUME UNCHANGED <<mtime, now, thumbs, visit>>, \A t \in Linked' : t \in Linked /\ file'[t] = file[t]
      PROVE  ClockRuns'
  BY <1>1 DEF ClockRuns
<1>2. ASSUME NEW e \in Editors,
             Uploaded!Begin(e) \/ Uploaded!SaveRow(e) \/ Uploaded!Unlink(e) \/ Uploaded!Commit(e) \/ Uploaded!Abort(e)
      PROVE  ClockRuns'
  <2>1. UNCHANGED <<mtime, now, thumbs, visit>>
    BY <1>2, SavesRow, Unlinks, Commits, Aborts DEF Uploaded!Begin, Uploaded!filevars
  <2>2. \A t \in Types : file'[t] \in {file[t], None}
    <3>1. CASE Uploaded!Begin(e)
      BY <3>1 DEF Uploaded!Begin, Uploaded!filevars
    <3>2. CASE ~Uploaded!Begin(e)
      BY <1>2, <3>2, SavesRow, Unlinks, Commits, Aborts DEF ImageTypes
    <3> QED
      BY <3>1, <3>2
  <2> QED
    BY <1>1, <2>1, <2>2 DEF Linked
<1>3. ASSUME NEW e \in Editors, Uploaded!Open(e)
      PROVE  ClockRuns'
  <2>1. \A t \in Linked' : file'[t] \in Inodes /\ (file'[t] = desk'[e].inode \/ (t \in Linked /\ file'[t] = file[t]))
    BY <1>3, Opens DEF ImageTypes, Linked
  <2> QED
    BY <1>3, <2>1, Opens, TimePasses
<1>4. ASSUME NEW e \in Editors, Uploaded!Write(e)
      PROVE  ClockRuns'
  <2>1. file' = file
    BY <1>4, Writes
  <2>2. \A t \in Linked' : file'[t] \in Inodes /\ t \in Linked /\ file'[t] = file[t]
    BY <2>1, LinkedAreInodes DEF Linked
  <2> QED
    BY <1>4, <2>2, Writes, TimePasses
<1>5. ASSUME NEW v \in Viewers, Uploaded!View(v)
      PROVE  ClockRuns'
  <2>1. UNCHANGED <<mtime, now, file>>
    BY <1>5, ViewsOnly
  <2>2. \A w \in Viewers : visit[w].at # "away" => visit[w].key <= now
    BY DEF ClockRuns
  <2>3. \A w \in Viewers \ {v} : visit'[w] = visit[w]
    BY <1>5, Shows, Exports, Converts, StoresThumbnail DEF Uploaded!View
  <2>4. visit'[v].at # "away" => visit'[v].key <= now
    <3>1. CASE Uploaded!show_thumbnail(v)
      <4>1. row.type \in Linked /\ visit'[v].key = mtime[file[row.type]]
        BY <3>1, Shows
      <4> QED
        BY <4>1, LinkedAreInodes DEF ClockRuns
    <3>2. CASE Uploaded!export(v)
      <4>1. visit[v] \in Visits /\ visit[v].at # "away"
        BY <3>2, Exports, VisitsAreNotAway
      <4>2. CASE visit'[v] = Uploaded!Away
        BY <4>2 DEF Uploaded!Away
      <4>3. CASE visit'[v] = [visit[v] EXCEPT !.at = "convert", !.inode = file[visit[v].type]]
        BY <2>2, <4>1, <4>3 DEF Visits
      <4> QED
        BY <3>2, <4>2, <4>3, Exports
    <3>3. CASE Uploaded!convert(v)
      BY <2>2, <3>3, Converts
    <3>4. CASE Uploaded!StoreThumbnail(v)
      <4>1. visit'[v] = Uploaded!Away
        BY <3>4, StoresThumbnail
      <4> QED
        BY <4>1 DEF Uploaded!Away
    <3> QED
      BY <1>5, <3>1, <3>2, <3>3, <3>4 DEF Uploaded!View
  <2>5. \A k \in DOMAIN thumbs' : k \in Nat /\ k <= now
    <3>1. CASE UNCHANGED thumbs
      BY <3>1 DEF ClockRuns
    <3>2. CASE Uploaded!StoreThumbnail(v) /\ DOMAIN thumbs' = DOMAIN thumbs \cup {visit[v].key}
      <4>1. visit[v].key \in Nat /\ visit[v].key <= now
        BY <2>2, <3>2, StoresThumbnail DEF Visits
      <4> QED
        BY <3>2, <4>1 DEF ClockRuns
    <3> QED
      BY <1>5, <3>1, <3>2, Shows, Exports, Converts, StoresThumbnail DEF Uploaded!View
  <2>6. \A w \in Viewers : visit'[w].at # "away" => visit'[w].key <= now
    BY <2>2, <2>3, <2>4
  <2> QED
    BY <2>1, <2>5, <2>6 DEF ClockRuns, Linked
<1>6. ASSUME UNCHANGED Uploaded!vars
      PROVE  ClockRuns'
  BY <1>1, <1>6 DEF Linked, Uploaded!vars, Uploaded!rowvars, Uploaded!filevars
<1> QED
  BY <1>2, <1>3, <1>4, <1>5, <1>6 DEF Uploaded!Next, Uploaded!Edit

LEMMA SameWrites ==
  ASSUME UNCHANGED <<file, data>>, NEW d \in Editors, desk'[d] = desk[d], WritesOwn(d)
  PROVE  WritesOwn(d)'
BY DEF WritesOwn, Opened

LEMMA IdleWrites ==
  ASSUME NEW e \in Editors, desk'[e].at \in {"away", "read"}
  PROVE  WritesOwn(e)'
BY DEF WritesOwn, Opened

LEMMA WritesStep ==
  ASSUME Uploaded!ImagesAssumption, ImageTypes, EditOrder, WritesFile, [Uploaded!Next]_(Uploaded!vars)
  PROVE  WritesFile'
<1>0. \A d, e \in Editors : desk[d].at \in {"unlink", "open", "write", "commit"}
                            /\ desk[e].at \in {"unlink", "open", "write", "commit"} => d = e
  BY DEF EditOrder, Holds
<1>1. ASSUME NEW e \in Editors, Uploaded!Begin(e)
      PROVE  WritesFile'
  <2>1. desk'[e].at = "read" /\ \A d \in Editors \ {e} : desk'[d] = desk[d]
    BY <1>1, BeginsJob
  <2>2. UNCHANGED <<file, data>>
    BY <1>1 DEF Uploaded!Begin, Uploaded!filevars
  <2> QED
    BY <2>1, <2>2, SameWrites, IdleWrites DEF WritesFile
<1>2. ASSUME NEW e \in Editors, Uploaded!SaveRow(e)
      PROVE  WritesFile'
  <2>1. /\ UNCHANGED <<file, data>> /\ \A d \in Editors \ {e} : desk'[d] = desk[d]
        /\ desk'[e].new = desk[e].new /\ desk'[e].at = IF desk[e].new = None THEN "commit" ELSE "unlink"
    BY <1>2, SavesRow DEF GoesOn
  <2>2. ~Opened(e)' /\ desk'[e].at \notin {"open", "write"}
        /\ (desk'[e].at = "unlink" => desk'[e].new # None) /\ (desk'[e].at = "commit" => desk'[e].new = None)
    BY <2>1 DEF Opened
  <2>3. WritesOwn(e)'
    BY <2>2 DEF WritesOwn
  <2>4. \A d \in Editors \ {e} : WritesOwn(d)'
    BY <2>1, SameWrites DEF WritesFile
  <2> QED
    BY <2>3, <2>4 DEF WritesFile
<1>3. ASSUME NEW e \in Editors, Uploaded!Unlink(e)
      PROVE  WritesFile'
  <2>1. /\ desk[e].at = "unlink" /\ UNCHANGED data /\ \A d \in Editors \ {e} : desk'[d] = desk[d]
        /\ \/ desk'[e].at = "open" /\ desk'[e].new = desk[e].new
           \/ desk'[e] = Uploaded!Away
    BY <1>3, Unlinks DEF GoesOn, Leaves
  <2>2. \A d \in Editors \ {e} : desk'[d].at \notin {"unlink", "open", "write", "commit"}
    BY <1>0, <2>1
  <2> QED
    BY <2>1, <2>2 DEF WritesFile, WritesOwn, Opened, Uploaded!Away
<1>4. ASSUME NEW e \in Editors, Uploaded!Open(e)
      PROVE  WritesFile'
  <2>1. /\ desk[e].at = "open" /\ \A d \in Editors \ {e} : desk'[d] = desk[d]
        /\ desk'[e].at = "write" /\ desk'[e].new = desk[e].new /\ desk[e].new \in Types
        /\ desk'[e].inode \in Inodes /\ file' = [file EXCEPT ![desk[e].new] = desk'[e].inode]
        /\ data' = [data EXCEPT ![desk'[e].inode] = Uploaded!Nothing]
    BY <1>4, Opens DEF GoesOn
  <2>2. \A d \in Editors \ {e} : desk'[d].at \notin {"unlink", "open", "write", "commit"}
    BY <1>0, <2>1
  <2>3. desk'[e].new # None /\ desk'[e].inode # None /\ file'[desk'[e].new] = desk'[e].inode
    BY <2>1 DEF ImageTypes, Inodes, Uploaded!ImagesAssumption
  <2>4. data'[desk'[e].inode][1] = None /\ data'[desk'[e].inode][2] = None
    <3>1. data'[desk'[e].inode] = Uploaded!Nothing
      BY <2>1 DEF ImageTypes
    <3> QED
      BY <3>1 DEF Uploaded!Nothing, Uploaded!Chunks
  <2> QED
    BY <2>1, <2>2, <2>3, <2>4 DEF WritesFile, WritesOwn, Opened
<1>5. ASSUME NEW e \in Editors, Uploaded!Write(e)
      PROVE  WritesFile'
  <2>1. /\ desk[e].at = "write" /\ \A d \in Editors \ {e} : desk'[d] = desk[d]
        /\ desk'[e].new = desk[e].new /\ desk'[e].inode = desk[e].inode /\ desk'[e].number = desk[e].number
        /\ desk[e].inode \in Inodes /\ file' = file
    BY <1>5, Writes DEF GoesOn
  <2>2. \A d \in Editors \ {e} : desk'[d].at \notin {"unlink", "open", "write", "commit"}
    BY <1>0, <2>1
  <2>3. desk'[e].new # None /\ desk'[e].inode # None /\ file'[desk'[e].new] = desk'[e].inode
    BY <2>1 DEF WritesFile, WritesOwn, Opened
  <2>4. data[desk[e].inode] \in Contents /\ data[desk[e].inode][2] = None
    BY <2>1 DEF ImageTypes, WritesFile, WritesOwn
  <2>5. CASE /\ desk'[e].at = "write"
             /\ data' = [data EXCEPT ![desk[e].inode] = [@ EXCEPT ![1] = desk[e].number]]
    <3>1. data'[desk[e].inode] = [data[desk[e].inode] EXCEPT ![1] = desk[e].number]
      BY <2>1, <2>5 DEF ImageTypes
    <3>2. data'[desk[e].inode][1] = desk[e].number /\ data'[desk[e].inode][2] = None
      BY <2>4, <3>1 DEF Contents, Chunks
    <3> QED
      BY <2>1, <2>2, <2>3, <2>5, <3>2 DEF WritesFile, WritesOwn, Opened
  <2>6. CASE /\ data[desk[e].inode][1] = desk[e].number /\ desk'[e].at = "commit"
             /\ data' = [data EXCEPT ![desk[e].inode] = [@ EXCEPT ![2] = desk[e].number]]
    <3>1. data'[desk[e].inode] = [data[desk[e].inode] EXCEPT ![2] = desk[e].number]
      BY <2>1, <2>6 DEF ImageTypes
    <3>2. data'[desk[e].inode] = [c \in Chunks |-> desk[e].number]
      BY <2>4, <2>6, <3>1 DEF Contents, Chunks
    <3> QED
      BY <2>1, <2>2, <2>3, <2>6, <3>2 DEF WritesFile, WritesOwn, Opened
  <2> QED
    BY <1>5, <2>5, <2>6, Writes DEF GoesOn
<1>6. ASSUME NEW e \in Editors, Uploaded!Commit(e) \/ Uploaded!Abort(e)
      PROVE  WritesFile'
  <2>1. Leaves(e) /\ UNCHANGED <<file, data>>
    BY <1>6, Commits, Aborts
  <2> QED
    <3>1. desk'[e].at = "away" /\ \A d \in Editors \ {e} : desk'[d] = desk[d]
      BY <2>1 DEF Leaves, Uploaded!Away
    <3> QED
      BY <2>1, <3>1, SameWrites, IdleWrites DEF WritesFile
<1>7. ASSUME NEW v \in Viewers, Uploaded!View(v)
      PROVE  WritesFile'
  BY <1>7, ViewsOnly DEF WritesFile, WritesOwn, Opened
<1>8. ASSUME UNCHANGED Uploaded!vars
      PROVE  WritesFile'
  BY <1>8 DEF WritesFile, WritesOwn, Opened, Uploaded!vars, Uploaded!rowvars, Uploaded!filevars
<1> QED
  BY <1>1, <1>2, <1>3, <1>4, <1>5, <1>6, <1>7, <1>8 DEF Uploaded!Next, Uploaded!Edit

(* The file that is opened or written gets a time that nobody knows yet.   *)
LEMMA NewTimeFits ==
  ASSUME ImageTypes, ClockRuns, Visited, NEW i \in Inodes, mtime' = [mtime EXCEPT ![i] = now + 1],
         \A t \in Linked' : file'[t] = i \/ (t \in Linked /\ file'[t] = file[t]),
         \A t \in Linked : file[t] # i => data'[file[t]] = data[file[t]],
         UNCHANGED <<thumbs, visit>>
  PROVE  Visited'
<1>1. now \in Nat /\ mtime'[i] = now + 1 /\ \A j \in Inodes : j # i => mtime'[j] = mtime[j]
  BY DEF ImageTypes
<1>2. now + 1 \notin DOMAIN thumbs
  BY <1>1 DEF ClockRuns
<1>3. ASSUME NEW t \in Linked', mtime'[file'[t]] # now + 1
      PROVE  /\ t \in Linked /\ file'[t] = file[t] /\ mtime'[file[t]] = mtime[file[t]]
             /\ data'[file[t]] = data[file[t]]
  BY <1>1, <1>3, LinkedAreInodes
<1>4. Uploaded!ThumbnailFits'
  <2> SUFFICES ASSUME NEW t \in Types, file'[t] # None, mtime'[file'[t]] \in DOMAIN thumbs'
               PROVE  thumbs'[mtime'[file'[t]]] = data'[file'[t]]
    BY DEF Uploaded!ThumbnailFits, Uploaded!image_file
  <2>1. t \in Linked' /\ mtime'[file'[t]] # now + 1
    BY <1>2 DEF Linked
  <2>2. thumbs[mtime[file[t]]] = data[file[t]]
    BY <1>3, <2>1 DEF Visited, Linked, Uploaded!ThumbnailFits, Uploaded!image_file
  <2> QED
    BY <1>3, <2>1, <2>2
<1>5. ASSUME NEW v \in Viewers, visit[v].at # "away"
      PROVE  VisitFits(v)'
  <2> SUFFICES ASSUME NEW t \in Linked', mtime'[file'[t]] = visit[v].key
               PROVE  /\ visit[v].at = "generate" => t = visit[v].type
                      /\ visit[v].at \in {"convert", "store"} =>
                           /\ file'[t] = visit[v].inode
                           /\ \A c \in Chunks : c < visit[v].chunk => visit[v].seen[c] = data'[file'[t]][c]
    BY DEF VisitFits
  <2>1. visit[v].key \in Nat /\ visit[v].key <= now
    BY <1>5, VisitsAreNotAway DEF ClockRuns, Visits
  <2>2. /\ t \in Linked /\ file'[t] = file[t] /\ mtime'[file[t]] = mtime[file[t]]
        /\ data'[file[t]] = data[file[t]]
    BY <1>1, <1>3, <2>1
  <2>3. VisitFits(v)
    BY <1>5 DEF Visited
  <2> QED
    BY <2>2, <2>3 DEF VisitFits
<1> QED
  BY <1>4, <1>5 DEF Visited

LEMMA VisitedStep ==
  ASSUME Uploaded!ImagesAssumption, ImageTypes, EditOrder, ClockRuns, WritesFile, Visited, [Uploaded!Next]_(Uploaded!vars)
  PROVE  Visited'
<1>1. ASSUME UNCHANGED <<mtime, data, thumbs, visit>>, \A t \in Types : file'[t] \in {file[t], None}
      PROVE  Visited'
  <2>1. \A t \in Linked' : t \in Linked /\ file'[t] = file[t]
    BY <1>1 DEF Linked
  <2>2. Uploaded!ThumbnailFits'
    BY <1>1 DEF Visited, Uploaded!ThumbnailFits, Uploaded!image_file
  <2>3. \A v \in Viewers : VisitFits(v) => VisitFits(v)'
    BY <1>1, <2>1 DEF VisitFits
  <2> QED
    BY <1>1, <2>2, <2>3 DEF Visited
<1>2. ASSUME NEW e \in Editors,
             Uploaded!Begin(e) \/ Uploaded!SaveRow(e) \/ Uploaded!Unlink(e) \/ Uploaded!Commit(e) \/ Uploaded!Abort(e)
      PROVE  Visited'
  <2>1. CASE Uploaded!Begin(e)
    BY <1>1, <2>1 DEF Uploaded!Begin, Uploaded!filevars
  <2>2. CASE ~Uploaded!Begin(e)
    <3>1. UNCHANGED <<mtime, data, thumbs, visit>> /\ \A t \in Types : file'[t] \in {file[t], None}
      BY <1>2, <2>2, SavesRow, Unlinks, Commits, Aborts DEF ImageTypes
    <3> QED
      BY <1>1, <3>1
  <2> QED
    BY <2>1, <2>2
<1>3. ASSUME NEW e \in Editors, Uploaded!Open(e)
      PROVE  Visited'
  <2>1. \A t \in Linked' : file'[t] = desk'[e].inode \/ (t \in Linked /\ file'[t] = file[t])
    BY <1>3, Opens DEF ImageTypes, Linked
  <2>2. \A t \in Linked : file[t] # desk'[e].inode => data'[file[t]] = data[file[t]]
    BY <1>3, Opens, LinkedAreInodes DEF ImageTypes
  <2> QED
    BY <1>3, <2>1, <2>2, Opens, NewTimeFits
<1>4. ASSUME NEW e \in Editors, Uploaded!Write(e)
      PROVE  Visited'
  <2>1. file' = file
    BY <1>4, Writes
  <2>2. \A t \in Linked' : t \in Linked /\ file'[t] = file[t]
    BY <2>1 DEF Linked
  <2>3. \A t \in Linked : file[t] # desk[e].inode => data'[file[t]] = data[file[t]]
    BY <1>4, Writes, LinkedAreInodes DEF ImageTypes
  <2> QED
    BY <1>4, <2>2, <2>3, Writes, NewTimeFits
<1>5. ASSUME NEW v \in Viewers, Uploaded!View(v)
      PROVE  Visited'
  <2>1. UNCHANGED <<file, data, mtime>>
    BY <1>5, ViewsOnly
  <2>2. \A w \in Viewers \ {v} : visit'[w] = visit[w]
    BY <1>5, Shows, Exports, Converts, StoresThumbnail DEF Uploaded!View
  <2>3. \A w \in Viewers \ {v} : VisitFits(w) => VisitFits(w)'
    BY <2>1, <2>2 DEF VisitFits, Linked
  <2>4. Uploaded!ThumbnailFits'
    <3>1. CASE UNCHANGED thumbs
      BY <2>1, <3>1 DEF Visited, Uploaded!ThumbnailFits, Uploaded!image_file
    <3>2. CASE /\ Uploaded!StoreThumbnail(v) /\ DOMAIN thumbs' = DOMAIN thumbs \cup {visit[v].key}
               /\ \A k \in DOMAIN thumbs' : thumbs'[k] = IF k = visit[v].key THEN visit[v].seen ELSE thumbs[k]
      <4> SUFFICES ASSUME NEW t \in Types, file[t] # None, mtime[file[t]] \in DOMAIN thumbs'
                   PROVE  thumbs'[mtime[file[t]]] = data[file[t]]
        BY <2>1 DEF Uploaded!ThumbnailFits, Uploaded!image_file
      <4>1. CASE mtime[file[t]] = visit[v].key
        <5>1. visit[v].at = "store" /\ visit[v] \in Visits /\ visit[v].chunk = 3 /\ VisitFits(v)
          BY <3>2, StoresThumbnail DEF Visited
        <5>2. \A c \in Chunks : visit[v].seen[c] = data[file[t]][c]
          BY <4>1, <5>1 DEF VisitFits, Linked, Chunks
        <5>3. visit[v].seen \in Contents /\ data[file[t]] \in Contents
          BY <5>1 DEF ImageTypes, Visits
        <5>4. visit[v].seen = data[file[t]]
          BY <5>2, <5>3 DEF Contents
        <5> QED
          BY <3>2, <4>1, <5>4
      <4>2. CASE mtime[file[t]] # visit[v].key
        BY <3>2, <4>2 DEF Visited, Uploaded!ThumbnailFits, Uploaded!image_file
      <4> QED
        BY <4>1, <4>2
    <3> QED
      BY <1>5, <3>1, <3>2, Shows, Exports, Converts, StoresThumbnail DEF Uploaded!View
  <2>5. CASE Uploaded!show_thumbnail(v)
    <3>1. visit'[v] = [at |-> "generate", type |-> row.type, inode |-> None, key |-> mtime[file[row.type]],
                       seen |-> Uploaded!Nothing, chunk |-> 1] /\ row.type \in Linked
      BY <2>5, Shows
    <3>2. \A t \in Linked : mtime[file[t]] = mtime[file[row.type]] => t = row.type
      BY <3>1, LinkedAreInodes DEF ClockRuns, EditOrder
    <3>3. VisitFits(v)'
      BY <2>1, <3>1, <3>2 DEF VisitFits, Linked
    <3> QED
      BY <2>2, <2>3, <2>4, <3>1, <3>3 DEF Visited
  <2>6. CASE Uploaded!export(v)
    <3>1. CASE visit'[v] = Uploaded!Away
      BY <2>2, <2>3, <2>4, <3>1 DEF Visited, Uploaded!Away
    <3>2. CASE /\ file[visit[v].type] \in Inodes
               /\ visit'[v] = [visit[v] EXCEPT !.at = "convert", !.inode = file[visit[v].type]]
      <4>1. visit[v].at = "generate" /\ visit[v] \in Visits /\ visit[v].chunk = 1 /\ VisitFits(v)
        BY <2>6, Exports, VisitsAreNotAway DEF Visited
      <4>2. /\ visit'[v].at = "convert" /\ visit'[v].inode = file[visit[v].type] /\ visit'[v].key = visit[v].key
            /\ visit'[v].chunk = 1
        BY <3>2, <4>1 DEF Visits
      <4>3. VisitFits(v)'
        BY <2>1, <4>1, <4>2 DEF VisitFits, Linked, Chunks
      <4>4. visit'[v].inode # None
        BY <3>2, <4>2 DEF Inodes, Uploaded!ImagesAssumption
      <4> QED
        BY <2>2, <2>3, <2>4, <4>2, <4>3, <4>4 DEF Visited
    <3> QED
      BY <2>6, <3>1, <3>2, Exports
  <2>7. CASE Uploaded!convert(v)
    <3>1. /\ visit[v].at = "convert" /\ visit[v].chunk \in {1, 2} /\ visit[v].inode \in Inodes
          /\ visit'[v].key = visit[v].key /\ visit'[v].inode = visit[v].inode
          /\ visit'[v].seen = [visit[v].seen EXCEPT ![visit[v].chunk] = data[visit[v].inode][visit[v].chunk]]
          /\ visit'[v].chunk = visit[v].chunk + 1
          /\ visit'[v].at = IF visit[v].chunk = 2 THEN "store" ELSE "convert"
      BY <2>7, Converts
    <3>2. visit[v].seen \in Contents /\ VisitFits(v)
      BY <3>1, VisitsAreNotAway DEF Visits, Visited
    <3>3. \A c \in Chunks : visit'[v].seen[c] = IF c = visit[v].chunk THEN data[visit[v].inode][c] ELSE visit[v].seen[c]
      BY <3>1, <3>2 DEF Contents
    <3>4. ASSUME NEW t \in Linked, mtime[file[t]] = visit[v].key
          PROVE  file[t] = visit[v].inode /\ \A c \in Chunks : c < visit'[v].chunk => visit'[v].seen[c] = data[file[t]][c]
      <4>1. file[t] = visit[v].inode /\ \A c \in Chunks : c < visit[v].chunk => visit[v].seen[c] = data[file[t]][c]
        BY <3>1, <3>2, <3>4 DEF VisitFits
      <4> QED
        BY <3>1, <3>3, <4>1 DEF Chunks
    <3>5. visit'[v].at \in {"convert", "store"}
      BY <3>1
    <3>6. VisitFits(v)'
      BY <2>1, <3>1, <3>4, <3>5 DEF VisitFits, Linked
    <3>7. /\ visit'[v].at = "convert" => visit'[v].chunk \in {1, 2} /\ visit'[v].inode # None
          /\ visit'[v].at = "store" => visit'[v].chunk = 3
      BY <3>1 DEF Inodes, Uploaded!ImagesAssumption
    <3> QED
      BY <2>2, <2>3, <2>4, <3>5, <3>6, <3>7 DEF Visited
  <2>8. CASE Uploaded!StoreThumbnail(v)
    <3>1. visit'[v].at = "away"
      <4>1. visit'[v] = Uploaded!Away
        BY <2>8, StoresThumbnail
      <4> QED
        BY <4>1 DEF Uploaded!Away
    <3> QED
      BY <2>2, <2>3, <2>4, <3>1 DEF Visited
  <2> QED
    BY <1>5, <2>5, <2>6, <2>7, <2>8 DEF Uploaded!View
<1>6. ASSUME UNCHANGED Uploaded!vars
      PROVE  Visited'
  BY <1>1, <1>6 DEF Uploaded!vars, Uploaded!rowvars, Uploaded!filevars
<1> QED
  BY <1>2, <1>3, <1>4, <1>5, <1>6 DEF Uploaded!Next, Uploaded!Edit

LEMMA LockIsHeld ==
  ASSUME ImageTypes
  PROVE  /\ Uploaded!Locked <=> \E e \in Editors : Holds(e)
         /\ \A e \in Editors : Holds(e) => Active(e)
<1>1. \A e \in Editors : desk[e].at \in {"away", "read", "unlink", "open", "write", "commit"}
  BY JobsAreNotAway DEF Jobs
<1>2. \A e \in Editors : Holds(e) => Active(e)
  BY JobsAreNotAway DEF Holds
<1> QED
  BY <1>1, <1>2 DEF Uploaded!Locked, Holds

(* As long as row and files stay, so does what fits to them.               *)
LEMMA SameFits ==
  ASSUME UNCHANGED <<row, file, data>>
  PROVE  /\ RowFits => RowFits'
         /\ \A d \in Editors : desk'[d] = desk[d] /\ JobFits(d) => JobFits(d)'
<1>1. RowFits' <=> RowFits
  BY DEF RowFits, Linked
<1>2. Linked' = Linked
  BY DEF Linked
<1> QED
  BY <1>1, <1>2 DEF JobFits, Active, Current, Opened

(* Whoever has the lock changes files and row for nobody else: the others  *)
(* have only read, and what they read is not the new row.                  *)
LEMMA OthersFit ==
  ASSUME ImageTypes, EditOrder, Fitting, NEW e \in Editors, Holds(e),
         row' = row \/ row'.by = desk[e].number,
         NEW d \in Editors \ {e}, desk'[d] = desk[d]
  PROVE  JobFits(d)'
<1>1. desk[d].at \notin {"unlink", "open", "write", "commit"}
  BY DEF EditOrder, Holds
<1>2. Active(e)
  BY LockIsHeld
<1>3. Active(d) => desk[d].seen.by # desk[e].number
  BY <1>2 DEF EditOrder
<1>4. Active(d) /\ Current(d) => desk[d].seen.type = row.type
  BY DEF Fitting, JobFits
<1> QED
  BY <1>1, <1>3, <1>4 DEF JobFits, Active, Current, Opened

LEMMA FittingStep ==
  ASSUME Uploaded!ImagesAssumption, ImageInv, [Uploaded!Next]_(Uploaded!vars), ~spoiled'
  PROVE  Fitting'
<1> USE DEF ImageInv
<1>1. ASSUME UNCHANGED <<row, file, data, desk, spoiled>>
      PROVE  Fitting'
  BY <1>1, SameFits DEF Fitting, Uploaded!Locked
<1>2. ASSUME NEW e \in Editors, Uploaded!Begin(e)
      PROVE  Fitting'
  <2>1. /\ desk'[e].at = "read" /\ desk'[e].seen = row /\ ~Active(e)
        /\ \A d \in Editors \ {e} : desk'[d] = desk[d]
    BY <1>2, BeginsJob
  <2>2. UNCHANGED <<row, file, data, spoiled>>
    BY <1>2 DEF Uploaded!Begin, Uploaded!filevars
  <2>3. Uploaded!Locked' <=> Uploaded!Locked
    <3>1. ~Holds(e) /\ ~Holds(e)'
      BY <2>1, LockIsHeld DEF Holds
    <3>2. desk[e].at \in {"away", "read"} /\ desk'[e].at \in {"away", "read"}
      BY <2>1, JobsAreNotAway
    <3> QED
      BY <2>1, <3>2 DEF Uploaded!Locked
  <2>4. JobFits(e)'
    BY <2>1, <2>2 DEF JobFits, Opened
  <2> QED
    BY <2>1, <2>2, <2>3, <2>4, SameFits DEF Fitting
<1>3. ASSUME NEW e \in Editors, Uploaded!SaveRow(e)
      PROVE  Fitting'
  <2>1. /\ Active(e) /\ ~Uploaded!Locked /\ desk'[e].seen = desk[e].seen /\ desk'[e].new = desk[e].new
        /\ desk'[e].at = IF desk[e].new = None THEN "commit" ELSE "unlink"
        /\ \A d \in Editors \ {e} : desk'[d] = desk[d]
        /\ UNCHANGED <<row, file, data, spoiled>>
    BY <1>3, SavesRow DEF GoesOn
  <2>2. RowFits' /\ \A d \in Editors \ {e} : JobFits(d)'
    BY <2>1, SameFits DEF Fitting
  <2>3. Active(e) /\ Current(e) => desk[e].seen.type = row.type
    BY <2>1 DEF Fitting, JobFits
  <2>4. ~Opened(e)' /\ desk'[e].at # "open"
    BY <2>1 DEF Opened
  <2>5. JobFits(e)'
    BY <2>1, <2>2, <2>3, <2>4 DEF JobFits, Current
  <2> QED
    BY <2>2, <2>5 DEF Fitting
<1>4. ASSUME NEW e \in Editors, Uploaded!Unlink(e)
      PROVE  Fitting'
  <2>1. /\ Active(e) /\ desk[e].at = "unlink" /\ Holds(e) /\ UNCHANGED <<row, data, spoiled>> /\ ~spoiled
        /\ \A d \in Editors \ {e} : desk'[d] = desk[d]
    BY <1>4, Unlinks DEF GoesOn, Leaves, Holds
  <2>2. RowFits /\ JobFits(e)
    BY <2>1 DEF Fitting, JobFits
  <2>3. \A d \in Editors \ {e} : JobFits(d)'
    BY <2>1, OthersFit
  <2>4. CASE GoesOn(e, "open") /\ \A t \in Linked' : t = desk[e].new \/ (t \in Linked /\ t # desk[e].seen.type)
    <3>1. desk'[e].at = "open" /\ desk'[e].seen = desk[e].seen /\ desk'[e].new = desk[e].new
      BY <2>4 DEF GoesOn
    <3>2. Current(e) => desk[e].seen.type = row.type
      BY <2>1, <2>2 DEF JobFits
    <3>3. Current(e) => Linked' \subseteq {desk[e].new}
      BY <2>2, <2>4, <3>2 DEF RowFits
    <3>4. JobFits(e)'
      BY <2>1, <3>1, <3>2, <3>3 DEF JobFits, Current
    <3>5. Uploaded!Locked'
      BY <3>1 DEF Uploaded!Locked
    <3> QED
      BY <2>3, <3>4, <3>5 DEF Fitting
  <2>5. CASE Leaves(e) /\ UNCHANGED file
    <3>1. RowFits'
      BY <2>1, <2>2, <2>5, SameFits
    <3>2. JobFits(e)'
      BY <2>5 DEF JobFits, Active, Opened, Leaves, Uploaded!Away
    <3> QED
      BY <2>3, <3>1, <3>2 DEF Fitting
  <2>6. CASE /\ GoesOn(e, "open") /\ desk[e].seen.type \in Types
             /\ file' = [file EXCEPT ![desk[e].seen.type] = None]
    <3>1. \A t \in Linked' : t \in Linked /\ t # desk[e].seen.type
      BY <2>6 DEF Linked, ImageTypes
    <3> QED
      BY <2>4, <2>6, <3>1
  <2>7. CASE GoesOn(e, "open") /\ desk[e].seen.type \in {None, desk[e].new} /\ UNCHANGED file
    <3>1. \A t \in Linked' : t \in Linked /\ t # None
      BY <2>7 DEF Linked, Uploaded!ImagesAssumption
    <3>2. \A t \in Linked' : t = desk[e].new \/ (t \in Linked /\ t # desk[e].seen.type)
      BY <2>7, <3>1
    <3> QED
      BY <2>4, <2>7, <3>2
  <2> QED
    BY <1>4, <2>5, <2>6, <2>7, Unlinks
<1>5. ASSUME NEW e \in Editors, Uploaded!Open(e)
      PROVE  Fitting'
  <2>1. /\ Active(e) /\ desk[e].at = "open" /\ Holds(e) /\ desk[e].new \in Types /\ UNCHANGED <<row, spoiled>>
        /\ desk'[e].at = "write" /\ desk'[e].seen = desk[e].seen /\ desk'[e].new = desk[e].new
        /\ file' = [file EXCEPT ![desk[e].new] = desk'[e].inode]
        /\ \A d \in Editors \ {e} : desk'[d] = desk[d]
    BY <1>5, Opens DEF GoesOn, Holds
  <2>2. JobFits(e)
    BY <2>1 DEF Fitting
  <2>3. Linked' \subseteq Linked \cup {desk[e].new}
    BY <2>1 DEF Linked, ImageTypes
  <2>4. Current(e) => desk[e].seen.type = row.type /\ Linked' \subseteq {desk[e].new}
    BY <2>1, <2>2, <2>3 DEF JobFits
  <2>5. JobFits(e)'
    BY <2>1, <2>4 DEF JobFits, Current
  <2>6. Uploaded!Locked'
    BY <2>1 DEF Uploaded!Locked
  <2>7. \A d \in Editors \ {e} : JobFits(d)'
    BY <2>1, OthersFit
  <2> QED
    BY <2>5, <2>6, <2>7 DEF Fitting
<1>6. ASSUME NEW e \in Editors, Uploaded!Write(e)
      PROVE  Fitting'
  <2>1. /\ Active(e) /\ desk[e].at = "write" /\ Holds(e) /\ UNCHANGED <<row, file, spoiled>>
        /\ desk'[e].at \in {"write", "commit"} /\ desk'[e].seen = desk[e].seen /\ desk'[e].new = desk[e].new
        /\ \A d \in Editors \ {e} : desk'[d] = desk[d]
    BY <1>6, Writes DEF GoesOn, Holds
  <2>2. JobFits(e) /\ desk[e].new # None
    BY <2>1 DEF Fitting, WritesFile, WritesOwn
  <2>3. Current(e) => desk[e].seen.type = row.type /\ Linked \subseteq {desk[e].new}
    BY <2>1, <2>2 DEF JobFits, Opened
  <2>4. Linked' = Linked
    BY <2>1 DEF Linked
  <2>5. JobFits(e)'
    BY <2>1, <2>2, <2>3, <2>4 DEF JobFits, Current
  <2>6. Uploaded!Locked'
    BY <2>1 DEF Uploaded!Locked
  <2>7. \A d \in Editors \ {e} : JobFits(d)'
    BY <2>1, OthersFit
  <2> QED
    BY <2>5, <2>6, <2>7 DEF Fitting
<1>7. ASSUME NEW e \in Editors, Uploaded!Commit(e)
      PROVE  Fitting'
  <2>1. /\ Active(e) /\ desk[e].at = "commit" /\ Holds(e) /\ Leaves(e) /\ UNCHANGED <<file, data>>
        /\ row' = IF desk[e].new = None THEN [row EXCEPT !.type = desk[e].seen.type]
                  ELSE [type |-> desk[e].new, by |-> desk[e].number]
        /\ spoiled' = (spoiled \/ ~Current(e))
    BY <1>7, Commits DEF Holds
  <2>2. ~spoiled /\ Current(e)
    BY <2>1
  <2>3. JobFits(e)
    BY <2>2 DEF Fitting
  <2>4. JobFits(e)'
    BY <2>1 DEF JobFits, Active, Opened, Leaves, Uploaded!Away
  <2>5. RowFits' /\ (row' = row \/ row'.by = desk[e].number)
    <3>1. CASE desk[e].new = None
      <4>1. RowFits /\ desk[e].seen.type = row.type
        BY <2>1, <2>2, <2>3, <3>1 DEF JobFits
      <4>2. row' = row
        BY <2>1, <3>1, <4>1 DEF ImageTypes, Rows
      <4> QED
        BY <2>1, <4>1, <4>2, SameFits
    <3>2. CASE desk[e].new # None
      <4>1. row'.type = desk[e].new /\ row'.by = desk[e].number
        BY <2>1, <3>2
      <4>2. Opened(e)
        BY <2>1, <3>2 DEF Opened
      <4>3. Linked \subseteq {desk[e].new}
        BY <2>2, <2>3, <4>2 DEF JobFits
      <4>4. /\ file[desk[e].new] = desk[e].inode /\ desk[e].inode # None
            /\ data[desk[e].inode] = [c \in Chunks |-> desk[e].number]
        BY <2>1, <3>2, <4>2 DEF WritesFile, WritesOwn
      <4> QED
        BY <2>1, <4>1, <4>3, <4>4 DEF RowFits, Linked
    <3> QED
      BY <3>1, <3>2
  <2>6. \A d \in Editors \ {e} : JobFits(d)'
    BY <2>1, <2>2, <2>5, OthersFit DEF Leaves
  <2> QED
    BY <2>4, <2>5, <2>6 DEF Fitting
<1>8. ASSUME NEW e \in Editors, Uploaded!Abort(e)
      PROVE  Fitting'
  <2>1. /\ Active(e) /\ Holds(e) /\ Leaves(e) /\ UNCHANGED <<row, file, data>> /\ ~spoiled
        /\ desk[e].at \notin {"open", "write"} /\ ~(desk[e].at = "commit" /\ desk[e].new # None)
    BY <1>8, Aborts
  <2>2. desk[e].at = "unlink" \/ (desk[e].at = "commit" /\ desk[e].new = None)
    BY <2>1 DEF Holds
  <2>3. RowFits'
    BY <2>1, <2>2, SameFits DEF Fitting, JobFits
  <2>4. JobFits(e)'
    BY <2>1 DEF JobFits, Active, Opened, Leaves, Uploaded!Away
  <2>5. \A d \in Editors \ {e} : JobFits(d)'
    BY <2>1, OthersFit DEF Leaves
  <2> QED
    BY <2>3, <2>4, <2>5 DEF Fitting
<1>9. ASSUME NEW v \in Viewers, Uploaded!View(v)
      PROVE  Fitting'
  BY <1>1, <1>9, ViewsOnly
<1>10. ASSUME UNCHANGED Uploaded!vars
       PROVE  Fitting'
  BY <1>1, <1>10 DEF Uploaded!vars, Uploaded!rowvars, Uploaded!filevars
<1> QED
  BY <1>2, <1>3, <1>4, <1>5, <1>6, <1>7, <1>8, <1>9, <1>10 DEF Uploaded!Next, Uploaded!Edit

LEMMA ImagesBegin ==
  ASSUME Uploaded!ImagesAssumption, Uploaded!Init
  PROVE  ImageInv
<1>1. ImageTypes
  <2>1. MaxEdits \in Nat /\ 0 \in 0 .. MaxEdits
    BY DEF Uploaded!ImagesAssumption
  <2>2. row \in Rows /\ edits \in 0 .. MaxEdits
    BY <2>1 DEF Uploaded!Init, Rows
  <2>3. file \in [Types -> Inodes \cup {None}] /\ mtime \in [Inodes -> Nat] /\ now \in Nat /\ spoiled \in BOOLEAN
    BY DEF Uploaded!Init, Uploaded!Inodes, Inodes
  <2>4. data \in [Inodes -> Contents]
    BY DEF Uploaded!Init, Uploaded!Inodes, Uploaded!Chunks, Uploaded!Nothing, Inodes, Contents, Chunks
  <2>5. thumbs \in [DOMAIN thumbs -> Contents]
    BY DEF Uploaded!Init
  <2>6. desk \in [Editors -> {Uploaded!Away} \cup Jobs] /\ visit \in [Viewers -> {Uploaded!Away} \cup Visits]
    BY DEF Uploaded!Init
  <2> QED
    BY <2>2, <2>3, <2>4, <2>5, <2>6 DEF ImageTypes
<1>2. /\ \A e \in Editors : desk[e] = Uploaded!Away /\ desk[e].at = "away"
      /\ \A v \in Viewers : visit[v] = Uploaded!Away /\ visit[v].at = "away"
      /\ Linked = {} /\ row.type = None /\ row.by = 0 /\ edits = 0 /\ now = 0 /\ DOMAIN thumbs = {}
      /\ \A i \in Inodes : mtime[i] = 0
  BY DEF Uploaded!Init, Uploaded!Away, Uploaded!Inodes, Inodes, Linked
<1>3. EditOrder /\ ClockRuns
  BY <1>2 DEF EditOrder, ClockRuns, Active, Holds
<1>4. WritesFile
  BY <1>2 DEF WritesFile, WritesOwn, Opened
<1>5. Visited
  BY <1>2 DEF Visited, Uploaded!ThumbnailFits
<1>6. Fitting
  BY <1>2 DEF Fitting, JobFits, RowFits, Active, Opened
<1> QED
  BY <1>1, <1>3, <1>4, <1>5, <1>6 DEF ImageInv

LEMMA ImageInvStep ==
  ASSUME Uploaded!ImagesAssumption, ImageInv, [Uploaded!Next]_(Uploaded!vars)
  PROVE  ImageInv'
<1>1. ImageTypes' /\ EditOrder' /\ ClockRuns' /\ WritesFile' /\ Visited'
  BY ImageTypesStep, EditOrderStep, ClockStep, WritesStep, VisitedStep DEF ImageInv
<1>2. ~spoiled' => Fitting'
  BY FittingStep
<1> QED
  BY <1>1, <1>2 DEF ImageInv

(* Row, image and thumbnail of a result fit to each other through          *)
(* overlapping uploads, views and requests that die, whatever the number   *)
(* of their users.                                                         *)
THEOREM ImagesStayFit ==
  ASSUME Uploaded!ImagesAssumption
  PROVE  Uploaded!Spec => []ImagesFit
<1>1. Uploaded!Init => ImageInv
  BY ImagesBegin
<1>2. ImageInv /\ [Uploaded!Next]_(Uploaded!vars) => ImageInv'
  BY ImageInvStep
<1>3. ImageInv => ImagesFit
  <2> SUFFICES ASSUME ImageInv
               PROVE  ImagesFit
    OBVIOUS
  <2>1. Uploaded!ThumbnailFits
    BY DEF ImageInv, Visited
  <2>2. ~spoiled /\ ~Uploaded!Locked => RowFits
    BY DEF ImageInv, Fitting
  <2>3. Uploaded!ImageIsThere /\ Uploaded!NoOldImages
    BY <2>2 DEF RowFits, Linked, Chunks, Uploaded!Chunks, Uploaded!image_file, Uploaded!ImageIsThere, Uploaded!NoOldImages
  <2> QED
    BY <2>1, <2>3 DEF ImagesFit, Uploaded!ImagesFit
<1> QED
  BY <1>1, <1>2, <1>3, PTL DEF Uploaded!Spec
=============================================================================
