-------------------------------- MODULE App ---------------------------------
(***************************************************************************)
(* The command of app/app.go: Main reads its configuration, builds a       *)
(* Server, starts watching directories, and listens.  The watcher's        *)
(* callback calls server.Reload and ignores its error.  Main never calls   *)
(* Stop and its Config.Ctx is never cancelled, so one goroutine, the       *)
(* watcher, reloads.                                                       *)
(*                                                                         *)
(* watch.Watch is an external library, used as a debounced notification:   *)
(* a change it sees makes it run the callback later, changes seen during   *)
(* a callback make it run again, and a change made before it watches the   *)
(* directory is not seen.                                                  *)
(***************************************************************************)
EXTENDS Server

CONSTANTS
  Watcher,  \* the goroutine that runs the watch callback
  MaxEdits  \* bound on the edits of the directories

ASSUME WatcherAssumption == Watcher \in Threads /\ MaxEdits \in Nat

VARIABLES
  phase,    \* of Main: "config", "load", "watch", "serve", or "exit"
  config,   \* Main's Config: Watch, WatchTemplates, TemplatesFS # nil
  fs,       \* TemplatesFS # nil in the Server's copy of it
  edits,    \* edits so far (bounded by MaxEdits)
  pending,  \* the watcher owes a callback
  seen      \* history: version of the last edit of templates it saw

mainVars == <<phase, config, fs>>
appVars == <<vars, mainVars, edits, pending, seen>>

(* config.Watch: the directory of the templates is one of two to choose.   *)
Dirs == {"templates", "other"}

AppInit ==
  /\ Init
  /\ phase = "config"
  /\ config = [watch |-> {}, watchTemplates |-> TRUE, fs |-> FALSE]
  /\ fs = FALSE
  /\ edits = 0 /\ pending = FALSE /\ seen = 0

Exit == phase' = "exit" /\ UNCHANGED <<vars, config, fs, edits, pending, seen>>

(* Flags, config files and JSON flags, or os.Exit(1) if one cannot be      *)
(* read.  None of them can set TemplatesFS.                                *)
Configure ==
  /\ phase = "config"
  /\ \/ /\ phase' = "load"
        /\ \E w \in SUBSET {"other"}, t \in BOOLEAN :
             config' = [config EXCEPT !.watch = w, !.watchTemplates = t]
        /\ UNCHANGED <<vars, fs, edits, pending, seen>>
     \/ Exit

(* Options: Main's overrides are applied to the Server's copy.             *)
Options == \E given \in BOOLEAN : fs' = (config.fs \/ given)

(* config.Server: the overrides and the first load, or os.Exit(2).  What   *)
(* the first load reads is version 0 of the files.                         *)
NewServer ==
  /\ phase = "load"
  /\ \/ phase' = "watch" /\ Options /\ UNCHANGED <<vars, config, edits, pending, seen>>
     \/ Exit

(* config.Watch, and the directory of the templates if it is to be watched *)
(* and Main's own Config has no TemplatesFS.                               *)
WatchList ==
  config.watch \cup {d \in {"templates"} : config.watchTemplates /\ ~config.fs}

(* watch.Watch unless there is nothing to watch; os.Exit(4) if it fails.   *)
StartWatch ==
  /\ phase = "watch"
  /\ \/ /\ phase' = "serve"
        /\ config' = [config EXCEPT !.watch = WatchList]
        /\ UNCHANGED <<vars, fs, edits, pending, seen>>
     \/ WatchList # {} /\ Exit

(* An edit of a directory.  The watcher sees it once it watches that; the  *)
(* templates change if they are loaded from there.                         *)
Edit(d) ==
  LET watched == phase = "serve" /\ d \in config.watch
      loaded  == d = "templates" /\ ~fs
  IN
  /\ phase \in {"watch", "serve"}
  /\ edits < MaxEdits
  /\ edits' = edits + 1
  /\ IF loaded THEN EditFiles ELSE UNCHANGED vars
  /\ pending' = (pending \/ watched)
  /\ seen' = IF watched /\ loaded THEN disk' ELSE seen
  /\ UNCHANGED mainVars

(* Mutant: the callback returns false, which ends the watch.               *)
WatchCallbackOnce ==
  /\ pending
  /\ lastId = 1
  /\ ReloadCall(Watcher)
  /\ pending' = FALSE
  /\ UNCHANGED <<mainVars, edits, seen>>

(* Mutant: a change is dropped while a Reload is running.                  *)
WatchCallbackBusy ==
  /\ pending
  /\ IF pc[Watcher] = "idle" THEN ReloadCall(Watcher) ELSE UNCHANGED vars
  /\ pending' = FALSE
  /\ UNCHANGED <<mainVars, edits, seen>>

(* The callback starts: one Reload for every change seen so far.           *)
WatchCallback ==
  /\ pending
  /\ ReloadCall(Watcher)
  /\ pending' = FALSE
  /\ UNCHANGED <<mainVars, edits, seen>>

ServerStep ==
  /\ phase = "serve"
  /\ \/ ThreadStep(Watcher)
     \/ \E r \in Requests : Arrive(r) \/ RequestStep(r) \/ ClientGone(r)
  /\ UNCHANGED <<mainVars, edits, pending, seen>>

(* ListenAndServe returns, with an error, and Main after it.               *)
ServeFails == phase = "serve" /\ Exit

AppQuiet == (phase = "exit" \/ Quiet) /\ UNCHANGED appVars

Main == Configure \/ NewServer \/ StartWatch

AppNext ==
  \/ Main
  \/ phase # "exit" /\ ((\E d \in Dirs : Edit(d)) \/ WatchCallback \/ ServerStep \/ ServeFails)
  \/ AppQuiet

(* Main runs on, the library delivers what it saw, Reload terminates.      *)
AppSpec ==
  /\ AppInit /\ [][AppNext]_appVars
  /\ WF_appVars(Main)
  /\ WF_appVars(phase # "exit" /\ WatchCallback)
  /\ WF_appVars(ServerStep /\ ThreadStep(Watcher))

-----------------------------------------------------------------------------
(* An edit the watcher saw is eventually loaded, together with every edit  *)
(* before it, by a Reload that may still fail: a change that arrives while *)
(* a Reload is reading the files is not lost.                              *)
SeenEditsLoaded ==
  \A v \in 1..MaxDisk : seen = v ~> (built[lastId] >= v \/ phase = "exit")

(* Whenever the watcher is at rest, the last load, whether or not it was   *)
(* published, has read every edit that was seen.                           *)
AtRestCaughtUp ==
  phase = "serve" /\ ~pending /\ pc[Watcher] = "idle" => built[lastId] >= seen

(* Template files are loaded into a new instance after they are modified,  *)
(* no need to restart the server (README.md, Live reload): a running       *)
(* server that watches its templates does not keep an outdated version     *)
(* forever.                                                                *)
EditsLoaded ==
  \A v \in 1..MaxDisk :
    disk = v ~> (built[lastId] >= v \/ phase = "exit" \/ ~config.watchTemplates)

(* TemplatesFS overrides TemplatesDir (config.go:23-24): the directory is  *)
(* watched, and Main exits if it cannot be, only if it is loaded.          *)
WatchesWhatIsLoaded ==
  phase = "serve" /\ "templates" \in config.watch => ~fs
=============================================================================
