---------------------------- MODULE StaticFiles -----------------------------
(***************************************************************************)
(* Static files: what a load records of each file and its compressed       *)
(* copies (addStaticFileHandler, build.go), and what a request is then     *)
(* given (staticFileHandler, handlers.go), while the files are edited.     *)
(*                                                                         *)
(* A path is the sequence of its dot-separated parts, so that the last one *)
(* is its extension.  A write gives a path a new file, or changes the file *)
(* in place under those who have it open.  Its modtime is the number of    *)
(* the write, or an earlier one: clocks are coarse and modtimes can be set.*)
(* What a compressed file decodes to, and what a file hashes to, are both  *)
(* its content.  One Instance is swapped for the next as in module Server. *)
(***************************************************************************)
EXTENDS Naturals, Sequences

CONSTANTS
  Paths,        \* the paths that may exist, in lexical order
  Size,         \* the size of the file at a path, for each content
  MaxWrites,    \* bound on the writes to the directory
  MaxRemovals,  \* bound on the removals from it
  Skews,        \* by how many writes a modtime may lag behind
  Requests

PathSet == {Paths[i] : i \in DOMAIN Paths}

ASSUME StaticAssumption ==
  /\ Paths \in Seq(Seq(STRING)) /\ <<>> \notin PathSet
  /\ MaxWrites \in Nat /\ MaxRemovals \in Nat
  /\ Size \in [PathSet -> [1..MaxWrites -> Nat]]
  /\ Skews \subseteq Nat
  /\ "load" \notin Requests

VARIABLES
  clock,    \* the number of writes so far
  disk,     \* content and modtime of the file at each path
  removals, \* the number of removals so far
  lagged,   \* the paths that were given a modtime that was not new
  fds,      \* the file that the load, or a request, has open
  files,    \* Instance.files of the current instance
  loading,  \* an Instance is being built
  listing,  \* what fs.WalkDir has still to visit
  stat,     \* what addStaticFileHandler knows of the file it has open
  build,    \* builder.files
  why,      \* why the latest load failed, or "ok"
  pending,  \* the watcher owes a Reload
  req       \* the requests

diskVars == <<clock, disk, removals, lagged>>
loadVars == <<files, loading, listing, stat, build, why>>
vars == <<diskVars, fds, loadVars, pending, req>>

Openers == Requests \cup {"load"}

Ext(p) == IF Len(p) > 1 THEN p[Len(p)] ELSE ""
Stem(p) == IF Len(p) > 1 THEN SubSeq(p, 1, Len(p) - 1) ELSE p
Codec == [gz |-> "gzip", zst |-> "zstd", br |-> "br"]

Absent == [content |-> 0, modtime |-> 0]
Present == {p \in PathSet : disk[p] # Absent}
NoFiles == [p \in {} |-> 0]
NoStat == [size |-> 0, modtime |-> 0]
Closed == [path |-> <<>>, old |-> Absent]
NoRequest == [pc |-> "idle"]
Answer(st) == [pc |-> "done", status |-> st]

(* An encodingInfo, with the content the file had when it was hashed.      *)
Encodings == [encoding : {"identity", "gzip", "zstd", "br"}, path : PathSet,
              content : 1..clock, size : Nat, modtime : 1..clock]
IsTable(t) ==
  /\ DOMAIN t \subseteq PathSet
  /\ \A p \in DOMAIN t : t[p].hash \in 1..clock /\ t[p].encodings \in Seq(Encodings)

Files == [content : 1..clock, modtime : 1..clock]

TypeOK ==
  /\ clock \in 0..MaxWrites
  /\ disk \in [PathSet -> {Absent} \cup Files]
  /\ removals \in 0..MaxRemovals
  /\ lagged \subseteq PathSet
  /\ fds \in [Openers -> {Closed} \cup [path : PathSet, old : {Absent} \cup Files]]
  /\ stat \in {NoStat} \cup [size : Nat, modtime : 1..clock]
  /\ IsTable(files) /\ IsTable(build)
  /\ loading \in BOOLEAN /\ pending \in BOOLEAN
  /\ listing \in Seq(PathSet)
  /\ why \in {"ok", "io", "vanished", "mismatch", "conflict"}
  /\ \A r \in Requests :
       \/ req[r] = NoRequest
       \/ req[r].pc \in {"open", "stat", "read"} /\ req[r].entry \in Encodings
       \/ req[r].pc = "done" /\ req[r].status \in {200, 404, 500}

(* The server was started on an empty directory.                           *)
Init ==
  /\ clock = 0
  /\ disk = [p \in PathSet |-> Absent]
  /\ removals = 0
  /\ lagged = {}
  /\ fds = [x \in Openers |-> Closed]
  /\ files = NoFiles
  /\ loading = FALSE
  /\ listing = <<>>
  /\ stat = NoStat
  /\ build = NoFiles
  /\ why = "ok"
  /\ pending = FALSE
  /\ req = [r \in Requests |-> NoRequest]

(* The file that x has open: the one at its path, or the old one as it was *)
(* when the path was given to another.                                     *)
File(x) == IF fds[x].old = Absent THEN disk[fds[x].path] ELSE fds[x].old

(* What Stat returns for the file f that is, or was, at p.                 *)
StatOf(p, f) == [size |-> Size[p][f.content], modtime |-> f.modtime]

Opened(x, p) == fds' = [fds EXCEPT ![x] = [path |-> p, old |-> Absent]]
Close(x) == fds' = [fds EXCEPT ![x] = Closed]

-----------------------------------------------------------------------------
(* Mutants: plausible mistakes in the operations below.                    *)

(* Mutant: the encodings are not sorted.                                   *)
InsertUnsorted(s, e) == Append(s, e)

(* Mutant: the hash of a compressed copy is not compared.                  *)
MismatchNever(p) == FALSE

(* Mutant: what was seen during the load is forgotten at its end.          *)
LoadDoneForgets ==
  /\ loading
  /\ listing = <<>>
  /\ files' = build
  /\ loading' = FALSE
  /\ build' = NoFiles
  /\ why' = "ok"
  /\ pending' = FALSE
  /\ UNCHANGED <<diskVars, fds, listing, stat, req>>

(* Mutant: the load asks for the size and modtime by path.                 *)
StatByPath ==
  /\ fds["load"] # Closed
  /\ stat = NoStat
  /\ Head(listing) \in Present
  /\ stat' = StatOf(Head(listing), disk[Head(listing)])
  /\ UNCHANGED <<diskVars, fds, files, loading, listing, build, why, pending, req>>

-----------------------------------------------------------------------------
(* Loading                                                                 *)

(* fs.WalkDir visits the files in lexical order.                           *)
Walk == SelectSeq(Paths, LAMBDA p : p \in Present)

(* Reload: fs.WalkDir reads the names in the directory.                    *)
StartLoad ==
  /\ pending
  /\ ~loading
  /\ pending' = FALSE
  /\ loading' = TRUE
  /\ listing' = Walk
  /\ build' = NoFiles
  /\ UNCHANGED <<diskVars, fds, files, stat, why, req>>

(* sort.Slice by size; an insertion sort at these lengths, hence stable:   *)
(* the last encoding moves forward past each larger one before it.         *)
Place(s, e) ==
  CHOOSE k \in 0..Len(s) :
    /\ k # 0 => s[k].size <= e.size
    /\ \A i \in (k + 1)..Len(s) : s[i].size > e.size

Insert(s, e) ==
  SubSeq(s, 1, Place(s, e)) \o <<e>> \o SubSeq(s, Place(s, e) + 1, Len(s))

(* The file without p's last extension is already in the table.            *)
Exists(p) == Stem(p) \in DOMAIN build

EncodingOf(p) == IF Exists(p) /\ Ext(p) \in DOMAIN Codec THEN Codec[Ext(p)] ELSE "identity"

(* What is recorded of p: the size and the modtime that Stat returned, and *)
(* the content that was hashed after it.                                   *)
Entry(p) == [encoding |-> EncodingOf(p), path |-> p, content |-> File("load").content,
             size |-> stat.size, modtime |-> stat.modtime]

(* An encoded file's decoded content is not that of the original.          *)
Mismatch(p) == EncodingOf(p) # "identity" /\ build[Stem(p)].hash # File("load").content

(* A file with another extension than a codec's takes the path of the file *)
(* without it, whose pattern the ServeMux has already.                     *)
Conflict(p) == EncodingOf(p) = "identity" /\ Exists(p)

(* addStaticFileHandler opens the next file, ...                           *)
OpenStatic ==
  /\ loading
  /\ listing # <<>>
  /\ fds["load"] = Closed
  /\ Head(listing) \in Present
  /\ Opened("load", Head(listing))
  /\ UNCHANGED <<diskVars, loadVars, pending, req>>

(* ... asks for its size and modtime, ...                                  *)
StatStatic ==
  /\ fds["load"] # Closed
  /\ stat = NoStat
  /\ stat' = StatOf(Head(listing), File("load"))
  /\ UNCHANGED <<diskVars, fds, files, loading, listing, build, why, pending, req>>

(* ... hashes it, and adds a file, or an encoding to the file it has.      *)
AddStaticFile ==
  LET p == Head(listing) IN
  /\ stat # NoStat
  /\ ~Mismatch(p)
  /\ ~Conflict(p)
  /\ build' =
       IF EncodingOf(p) = "identity"
       THEN [q \in DOMAIN build \cup {p} |->
               IF q = p THEN [hash |-> File("load").content, encodings |-> <<Entry(p)>>]
                        ELSE build[q]]
       ELSE [build EXCEPT ![Stem(p)].encodings = Insert(@, Entry(p))]
  /\ listing' = Tail(listing)
  /\ stat' = NoStat
  /\ Close("load")
  /\ UNCHANGED <<diskVars, files, loading, why, pending, req>>

(* What addStaticFileHandler can fail for.  The system may refuse to open, *)
(* stat or read a file at any time.                                        *)
Fails(w) ==
  LET p == Head(listing) IN
  \/ w = "io"
  \/ w = "vanished" /\ fds["load"] = Closed /\ p \notin Present
  \/ w = "mismatch" /\ stat # NoStat /\ Mismatch(p)
  \/ w = "conflict" /\ stat # NoStat /\ Conflict(p)

(* It fails, and so does the load: the table is dropped.                   *)
WalkFails(w) ==
  /\ loading
  /\ listing # <<>>
  /\ Fails(w)
  /\ why' = w
  /\ loading' = FALSE
  /\ listing' = <<>>
  /\ stat' = NoStat
  /\ build' = NoFiles
  /\ Close("load")
  /\ UNCHANGED <<diskVars, files, pending, req>>

(* The new instance takes over.                                            *)
LoadDone ==
  /\ loading
  /\ listing = <<>>
  /\ files' = build
  /\ loading' = FALSE
  /\ build' = NoFiles
  /\ why' = "ok"
  /\ UNCHANGED <<diskVars, fds, listing, stat, pending, req>>

-----------------------------------------------------------------------------
(* Serving                                                                 *)

(* GET p?hash=h, or without a hash (h = 0): the handler of the instance    *)
(* that was current checks the hash and chooses an encoding; which one is  *)
(* negiotiateEncoding's business.                                          *)
Get(r, p, h) ==
  LET info == files[p] IN
  /\ req[r] = NoRequest
  /\ p \in DOMAIN files
  /\ \/ h # 0 /\ h # info.hash /\ req' = [req EXCEPT ![r] = Answer(404)]
     \/ /\ h \in {0, info.hash}
        /\ \E i \in DOMAIN info.encodings :
             req' = [req EXCEPT ![r] = [pc |-> "open", hash |-> info.hash,
                                        entry |-> info.encodings[i]]]
  /\ UNCHANGED <<diskVars, fds, loadVars, pending>>

(* The handler opens the file that it chose.                               *)
OpenFile(r) ==
  LET p == req[r].entry.path IN
  /\ req[r].pc = "open"
  /\ p \in Present
  /\ Opened(r, p)
  /\ req' = [req EXCEPT ![r] = [pc |-> "stat", hash |-> @.hash, entry |-> @.entry]]
  /\ UNCHANGED <<diskVars, loadVars, pending>>

(* It cannot: the file is gone, or the system refuses.                     *)
OpenFails(r) ==
  /\ req[r].pc = "open"
  /\ req' = [req EXCEPT ![r] = Answer(500)]
  /\ UNCHANGED <<diskVars, fds, loadVars, pending>>

(* The file is not the one that was loaded.                                *)
Modified(r) == File(r).modtime # req[r].entry.modtime

(* The handler asks for the modtime, to log a warning if it has changed.   *)
(* It also logs that Stat failed, and goes on.                             *)
StatFile(r) ==
  /\ req[r].pc = "stat"
  /\ \E c \in {"failed", IF Modified(r) THEN "modified" ELSE "same"} :
       req' = [req EXCEPT ![r] = [pc |-> "read", hash |-> @.hash, entry |-> @.entry,
                                  check |-> c, seen |-> File(r).content]]
  /\ UNCHANGED <<diskVars, fds, loadVars, pending>>

(* http.ServeContent sends what the file holds now, File(r).content, with  *)
(* the Etag of the load: req[r].hash.                                      *)
ServeContent(r) ==
  /\ req[r].pc = "read"
  /\ req' = [req EXCEPT ![r] = Answer(200)]
  /\ Close(r)
  /\ UNCHANGED <<diskVars, loadVars, pending>>

-----------------------------------------------------------------------------
(* Environment: somebody writes or removes a file, and the watcher sees it.*)

(* p is given to another file, or to none: who has the file open keeps it. *)
Unlink(p) ==
  fds' = [x \in Openers |->
            IF fds[x].path = p /\ fds[x].old = Absent THEN [path |-> p, old |-> disk[p]]
            ELSE fds[x]]

WriteFile(p, c, m) ==
  /\ clock < MaxWrites
  /\ clock' = clock + 1
  /\ disk' = [disk EXCEPT ![p] = [content |-> c, modtime |-> m]]
  /\ lagged' = IF m = clock' THEN lagged ELSE lagged \cup {p}
  /\ UNCHANGED fds \/ Unlink(p)
  /\ pending' = TRUE
  /\ UNCHANGED <<removals, loadVars, req>>

RemoveFile(p) ==
  /\ p \in Present
  /\ removals < MaxRemovals
  /\ removals' = removals + 1
  /\ disk' = [disk EXCEPT ![p] = Absent]
  /\ Unlink(p)
  /\ pending' = TRUE
  /\ UNCHANGED <<clock, lagged, loadVars, req>>

Quiet ==
  /\ ~loading
  /\ ~pending
  /\ UNCHANGED vars

Load ==
  \/ StartLoad \/ OpenStatic \/ StatStatic \/ AddStaticFile \/ LoadDone
  \/ \E w \in {"io", "vanished", "mismatch", "conflict"} : WalkFails(w)

(* A write holds new content, or is a copy of a file that is there, and    *)
(* its modtime is new, or lags behind.                                     *)
Contents == {clock + 1} \cup {disk[q].content : q \in Present}
Modtimes == {clock + 1} \cup {clock + 1 - k : k \in Skews \cap 1..clock}

Next ==
  \/ Load
  \/ \E r \in Requests :
       \/ \E p \in PathSet, h \in 0..clock : Get(r, p, h)
       \/ OpenFile(r) \/ OpenFails(r) \/ StatFile(r) \/ ServeContent(r)
  \/ \E p \in PathSet :
       \/ RemoveFile(p)
       \/ \E c \in Contents, m \in Modtimes : WriteFile(p, c, m)
  \/ Quiet

Spec == Init /\ [][Next]_vars

(* The watcher calls Reload for what it saw, and a load terminates.        *)
FairSpec == Spec /\ WF_vars(Load)

-----------------------------------------------------------------------------
(* Properties                                                              *)

(* Whatever is written while a load walks the directory, an instance that  *)
(* was loaded never offers encodings of different contents: each one holds *)
(* what the file's hash says, and exactly one of them is the identity.     *)
EncodingsAgree ==
  \A p \in DOMAIN files :
    LET encs == files[p].encodings IN
    /\ \A i \in DOMAIN encs : encs[i].content = files[p].hash
    /\ \E i \in DOMAIN encs : \A j \in DOMAIN encs : encs[j].encoding = "identity" <=> i = j

(* The encodings are listed from the smallest to the largest, which is     *)
(* what negiotiateEncoding prefers the earlier ones for.                   *)
SmallestFirst ==
  \A p \in DOMAIN files :
    \A i, j \in DOMAIN files[p].encodings :
      i < j => files[p].encodings[i].size <= files[p].encodings[j].size

(* The handler warns of each response that does not match its Etag, except *)
(* where a comparison of modtimes after the open cannot help: the file was *)
(* changed in place between the Stat and the read, the Stat failed, or the *)
(* path was once given a modtime that was not new.                         *)
CheckNoticesStale ==
  [][\A r \in Requests :
       ServeContent(r) /\ File(r).content # req[r].hash =>
         \/ req[r].check = "modified"
         \/ req[r].check = "failed"
         \/ req[r].seen # File(r).content
         \/ req[r].entry.path \in lagged]_vars

(* The directory holds nothing that a load refuses.                        *)
Copies == {p \in Present : Len(p) > 1 /\ Stem(p) \in Present /\ Ext(p) \in DOMAIN Codec}
Loadable ==
  \A p \in Present : Len(p) > 1 /\ Stem(p) \in Present =>
    p \in Copies /\ Stem(p) \notin Copies /\ disk[p].content = disk[Stem(p)].content

(* Once nobody writes any more and the directory is loadable, the server   *)
(* comes to serve exactly what is in it, however many loads failed before, *)
(* unless the last load failed for an error that no write announced.       *)
Converges ==
  (clock = MaxWrites /\ Loadable) ~>
    (\/ ~Loadable
     \/ why = "io" /\ ~loading /\ ~pending
     \/ /\ DOMAIN files = Present \ Copies
        /\ \A p \in DOMAIN files : files[p].hash = disk[p].content)

(* With the hash as a query parameter stale caches are entirely eliminated *)
(* (README.md:228-232): what is served under a hash matches it.            *)
HashPinsContent ==
  [][\A r \in Requests : ServeContent(r) => File(r).content = req[r].hash]_vars

(* If a static file has .gz, .br, .zip or .zst copies, they are decoded    *)
(* and hashed for consistency (README.md:218-219): no copy makes the load  *)
(* fail for another reason than its content.                               *)
CopiesAreDecoded == why # "conflict"
=============================================================================
