------------------------------- MODULE DotDir -------------------------------
(***************************************************************************)
(* The files that templates open through a Dir dot field (dot_fs.go), and  *)
(* their clean-up when the template ends (dot_fs_config.go).  A handle is  *)
(* an open file, of which the process may have a limited number.  A path   *)
(* is the sequence of its elements; a Dir is the path it was made with.    *)
(***************************************************************************)
EXTENDS Naturals, Sequences

CONSTANTS
  Requests,
  Handles,  \* file descriptors of the process
  Dirs,     \* the directories, <<>> for the root
  Names,    \* file names
  Tree,     \* the paths of the files that exist
  MaxOps    \* bound on what the templates do, all together

ASSUME DirAssumption == <<>> \in Dirs /\ MaxOps \in Nat

VARIABLES
  pc,      \* in the template, or in the middle of Dir.Open or Dir.Exists
  ops,     \* how much the templates have done
  asked,   \* the path that the latest call was about
  result,  \* what it returned
  owner,   \* the request that opened a handle; for open handles only
  opened,  \* dotFS.opened: the handles that Cleanup will close
  given    \* the handles that the template was given and has not closed

vars == <<pc, ops, asked, result, owner, opened, given>>

Live == DOMAIN owner
Free == Handles \ Live
Close(hs) == owner' = [h \in Live \ hs |-> owner[h]]
Results == {"none", "ok", "missing", "exhausted"}

TypeOK ==
  /\ pc \in [Requests -> {"exec", "open", "exists", "done"}]
  /\ ops \in 0..MaxOps
  /\ result \in [Requests -> Results]
  /\ Live \subseteq Handles /\ \A h \in Live : owner[h] \in Requests
  /\ opened \in [Requests -> SUBSET Live]
  /\ given \in [Requests -> SUBSET Live]

Init ==
  /\ pc = [r \in Requests |-> "exec"]
  /\ ops = 0
  /\ asked = [r \in Requests |-> <<>>]
  /\ result = [r \in Requests |-> "none"]
  /\ owner = [h \in {} |-> 0]
  /\ opened = [r \in Requests |-> {}]
  /\ given = [r \in Requests |-> {}]

(* fs.Open of path p, and the file it opened.                              *)
OpenError(p) == IF p \notin Tree THEN "missing" ELSE IF Free = {} THEN "exhausted" ELSE "ok"
FsOpen(r, h) ==
  /\ h \in Free
  /\ owner' = [k \in Live \cup {h} |-> IF k = h THEN r ELSE owner[k]]

Return(r, res) ==
  /\ pc' = [pc EXCEPT ![r] = "exec"]
  /\ result' = [result EXCEPT ![r] = res]

(* The path looked at: Exists joins the Dir's path and calls Open, which   *)
(* joins it again.                                                         *)
Join(caller, d, n) == IF caller = "open" THEN d \o <<n>> ELSE d \o d \o <<n>>

Call(r, p) ==
  /\ pc[r] = "exec"
  /\ ops < MaxOps
  /\ ops' = ops + 1
  /\ asked' = [asked EXCEPT ![r] = p]

(* Dir.Open, also when called by Dir.Exists, first opens the file and      *)
(* remembers that handle, which is not the one it returns.                 *)
OpenFirst(r, caller, d, n) ==
  LET p == Join(caller, d, n) IN
  /\ Call(r, d \o <<n>>)
  /\ \/ /\ OpenError(p) = "ok"
        /\ \E h \in Free : FsOpen(r, h) /\ opened' = [opened EXCEPT ![r] = @ \cup {h}]
        /\ pc' = [pc EXCEPT ![r] = caller]
        /\ UNCHANGED result
     \/ /\ OpenError(p) # "ok"
        /\ Return(r, OpenError(p))
        /\ UNCHANGED <<owner, opened>>
  /\ UNCHANGED given

(* Its second fs.Open: the template gets that handle.                      *)
OpenSecond(r) ==
  /\ pc[r] = "open"
  /\ \/ /\ Free # {}
        /\ \E h \in Free : FsOpen(r, h) /\ given' = [given EXCEPT ![r] = @ \cup {h}]
        /\ Return(r, "ok")
     \/ Free = {} /\ Return(r, "exhausted") /\ UNCHANGED <<owner, given>>
  /\ UNCHANGED <<ops, asked, opened>>

(* Mutant: Exists does not close the file.                                 *)
ExistsNoClose(r) ==
  /\ pc[r] = "exists"
  /\ \/ (\E h \in Free : FsOpen(r, h)) /\ Return(r, "ok")
     \/ Free = {} /\ Return(r, "exhausted") /\ UNCHANGED owner
  /\ UNCHANGED <<ops, asked, opened, given>>

(* Dir.Exists closes the handle that Open returned to it at once.          *)
ExistsSecond(r) ==
  /\ pc[r] = "exists"
  /\ Return(r, IF Free = {} THEN "exhausted" ELSE "ok")
  /\ UNCHANGED <<ops, asked, owner, opened, given>>

(* Stat, Read, List and Dir open the file and close it again.              *)
Read(r, d, n) ==
  /\ Call(r, d \o <<n>>)
  /\ Return(r, OpenError(d \o <<n>>))
  /\ UNCHANGED <<owner, opened, given>>

(* The template closes a file that it was given.                           *)
CloseFile(r, h) ==
  /\ pc[r] = "exec"
  /\ h \in given[r]
  /\ Close({h})
  /\ given' = [given EXCEPT ![r] = @ \ {h}]
  /\ UNCHANGED <<pc, ops, asked, result, opened>>

(* The template ends: DotDirConfig.Cleanup closes what was remembered, and *)
(* the dotFS is dropped.  What the template was given and did not close    *)
(* stays open: no code closes it (the garbage collector may, some day, and *)
(* is not modelled).                                                       *)
Cleanup(r) ==
  /\ pc[r] = "exec"
  /\ Close(opened[r])
  /\ opened' = [opened EXCEPT ![r] = {}]
  /\ pc' = [pc EXCEPT ![r] = "done"]
  /\ UNCHANGED <<ops, asked, result, given>>

Quiet == (\A r \in Requests : pc[r] = "done") /\ UNCHANGED vars

Next ==
  \/ \E r \in Requests, d \in Dirs, n \in Names :
       OpenFirst(r, "open", d, n) \/ OpenFirst(r, "exists", d, n) \/ Read(r, d, n)
  \/ \E r \in Requests : OpenSecond(r) \/ ExistsSecond(r) \/ Cleanup(r)
  \/ \E r \in Requests, h \in Handles : CloseFile(r, h)
  \/ Quiet

Spec == Init /\ [][Next]_vars

-----------------------------------------------------------------------------
(* Properties                                                              *)

(* What outlives its request is exactly what Dir.Open returned and the     *)
(* template did not close; that stays open for good (ClosedAtEnd, below,   *)
(* is violated).  Every other open file is on the clean-up list of the     *)
(* request that opened it, which still runs: the file that Open opened     *)
(* first, also when its second open fails for want of handles, or when     *)
(* Exists called it.  No file is on two lists, so none is closed twice or  *)
(* while another template reads it.                                        *)
OnlyReturnedStayOpen ==
  \A h \in Live :
    LET r == owner[h] IN
    /\ h \notin given[r] => h \in opened[r] /\ pc[r] # "done"
    /\ h \notin opened[r] \cap given[r]
    /\ \A q \in Requests \ {r} : h \notin opened[q] \cup given[q]

(* Any opened files are automatically closed at the end of the request     *)
(* (test/templates/fs/openclose.html:8).                                   *)
ClosedAtEnd ==
  \A h \in Live : pc[owner[h]] # "done"

(* Exists returns true if the file can be opened successfully              *)
(* (dot_fs.go:41): it does not take an existing file for a missing one.    *)
ExistsIsRight ==
  \A r \in Requests : result[r] = "missing" => asked[r] \notin Tree
=============================================================================
