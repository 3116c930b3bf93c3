--------------------------- MODULE TorrentStatus ---------------------------
(***************************************************************************)
(* The status of one torrent task (engine/torrent.go, engine.go 254-489):  *)
(* what is started, what is done, what has been reported to the external   *)
(* program DoneCmd, and what the torrent library is told to download.      *)
(*                                                                         *)
(* Requests, AutoStart and stopRemoveTask hold Torrent.Lock, so that each  *)
(* of their critical sections is one step.  torrentEventProcessor updates  *)
(* the same fields without any lock: it takes one step per file it looks   *)
(* at, and another one to report it.  A task that is added again gets a    *)
(* second processor for the same Torrent.                                  *)
(*                                                                         *)
(* Abstracted: sizes, rates and percentages; the clock and the ratio of    *)
(* taskRoutine, which may find a seeding task overdue at any tick; how     *)
(* callDoneCmd runs the program.  A file is made and looked at in one      *)
(* step.  The library is what the code takes it for: it fetches the files  *)
(* it was last told to, by DownloadAll, CancelPieces or SetPriority.       *)
(***************************************************************************)
EXTENDS Naturals, FiniteSets

CONSTANTS
    File,       \* files of the torrent
    Whole,      \* the torrent itself, as a subject of DoneCmd
    Processor,  \* bound: how often the task is added
    AutoStart,  \* configuration
    Ops,        \* requests and events of the environment, see AllOps
    Calm        \* TRUE: users act once the page shows all files

AllOps == {"start", "stop", "startFile", "stopFile", "delete", "expire"}

ASSUME OpsAssumption == Ops \subseteq AllOps /\ Calm \in BOOLEAN /\ AutoStart \in BOOLEAN
ASSUME FileAssumption == Whole \notin File /\ File # {}
ASSUME FiniteAssumption == IsFiniteSet(Processor)

VARIABLES
    listed,        \* the task is in e.ts; FALSE: dropWait is closed
    loaded,        \* Loaded, and t.t is set
    started,       \* Started
    manual,        \* ManualStarted
    done,          \* Done
    allFilesDone,  \* IsAllFilesDone
    made,          \* files with a File struct
    fileStarted,   \* files whose Started is set
    called,        \* files, and Whole, whose DoneCmdCalled is set
    wanted,        \* files the library is told to fetch
    have,          \* files the library has completed
    reports,       \* how often DoneCmd was called
    pc,            \* where each processor is
    boot,          \* processors in updateOnGotInfo
    todo,          \* files a processor has still to look at
    clean,         \* doneFlag of a processor
    subject,       \* what a processor is about to report
    auto,          \* AutoStart goroutines that wait for the lock
    marking,       \* a ManualStartTorrent has yet to set ManualStarted
    remover        \* where stopRemoveTask is (bound: one at a time)

flags == <<started, manual, fileStarted, wanted>>
status == <<loaded, done, allFilesDone, made, called, have, reports>>
local == <<pc, boot, todo, clean, subject>>
vars == <<listed, flags, status, local, auto, marking, remover>>

Subject == File \cup {Whole}
PC == {"off", "wait", "load", "round", "files", "report", "status",
       "auto", "routine", "tick", "end"}

TypeOK ==
    /\ {listed, loaded, started, manual, done, allFilesDone, marking} \subseteq BOOLEAN
    /\ made \subseteq File /\ fileStarted \subseteq made
    /\ called \subseteq Subject
    /\ wanted \subseteq File /\ have \subseteq File
    /\ reports \in [Subject -> Nat]
    /\ pc \in [Processor -> PC]
    /\ boot \subseteq Processor
    /\ todo \in [Processor -> SUBSET File]
    /\ clean \subseteq Processor
    /\ subject \in [Processor -> Subject]
    /\ auto \subseteq Processor
    /\ remover \in {"off", "stop", "delete"}

(* A new entry; a restored task may have some of its data. *)
Init ==
    /\ listed = TRUE /\ marking = FALSE /\ remover = "off" /\ auto = {}
    /\ loaded = FALSE /\ started = FALSE /\ manual = FALSE
    /\ done = FALSE /\ allFilesDone = FALSE
    /\ made = {} /\ fileStarted = {} /\ called = {} /\ wanted = {}
    /\ have \in SUBSET File
    /\ reports = [s \in Subject |-> 0]
    /\ pc = [p \in Processor |-> "off"]
    /\ boot = {} /\ clean = {}
    /\ todo = [p \in Processor |-> {}]
    /\ subject = [p \in Processor |-> Whole]

At(p, place) == pc[p] = place
Goto(p, place) == pc' = [pc EXCEPT ![p] = place]

-----------------------------------------------------------------------------
(* torrentEventProcessor. *)

(* newTorrentBySpec: the task is added, or added again. *)
AddSpec(p) ==
    /\ At(p, "off") /\ listed
    /\ Goto(p, "wait")
    /\ UNCHANGED <<listed, flags, status, boot, todo, clean, subject, auto, marking, remover>>

(* The metadata is there: updateOnGotInfo looks at Loaded ... *)
GotInfo(p) ==
    /\ At(p, "wait")
    /\ Goto(p, IF loaded THEN "auto" ELSE "load")
    /\ UNCHANGED <<listed, flags, status, boot, todo, clean, subject, auto, marking, remover>>

(* ... and sets it. *)
Load(p) ==
    /\ At(p, "load")
    /\ loaded' = TRUE
    /\ boot' = boot \cup {p}
    /\ Goto(p, "round")
    /\ UNCHANGED <<listed, flags, done, allFilesDone, made, called, have, reports,
                   todo, clean, subject, auto, marking, remover>>

(* updateFileStatus begins. *)
BeginRound(p) ==
    /\ pc[p] \in {"round", "tick"}
    /\ Goto(p, IF allFilesDone THEN "status" ELSE "files")
    /\ todo' = [todo EXCEPT ![p] = IF allFilesDone THEN {} ELSE File]
    /\ clean' = IF allFilesDone THEN clean ELSE clean \cup {p}
    /\ UNCHANGED <<listed, flags, status, boot, subject, auto, marking, remover>>

(* Mutant of LookFile: a file that is made is not kept. *)
LookFileUnkept(p, f) ==
    /\ At(p, "files") /\ f \in todo[p]
    /\ todo' = [todo EXCEPT ![p] = @ \ {f}]
    /\ fileStarted' = IF started THEN fileStarted \cup {f} ELSE fileStarted
    /\ clean' = IF f \in have THEN clean ELSE clean \ {p}
    /\ UNCHANGED <<listed, started, manual, wanted, status, pc, boot, subject,
                   auto, marking, remover>>

(* Mutant of LookFile: a new file is always started. *)
LookFileStarted(p, f) ==
    /\ At(p, "files") /\ f \in todo[p]
    /\ todo' = [todo EXCEPT ![p] = @ \ {f}]
    /\ made' = made \cup {f}
    /\ fileStarted' = fileStarted \cup ({f} \ made)
    /\ clean' = IF f \in have THEN clean ELSE clean \ {p}
    /\ \/ /\ f \in have /\ f \notin called
          /\ subject' = [subject EXCEPT ![p] = f]
          /\ Goto(p, "report")
       \/ ~(f \in have /\ f \notin called) /\ UNCHANGED <<subject, pc>>
    /\ UNCHANGED <<listed, started, manual, wanted, loaded, done, allFilesDone,
                   called, have, reports, boot, auto, marking, remover>>

(* One file: its struct is made with the Started of the torrent. *)
LookFile(p, f) ==
    /\ At(p, "files") /\ f \in todo[p]
    /\ todo' = [todo EXCEPT ![p] = @ \ {f}]
    /\ made' = made \cup {f}
    /\ fileStarted' = IF started THEN fileStarted \cup ({f} \ made) ELSE fileStarted
    /\ clean' = IF f \in have THEN clean ELSE clean \ {p}
    /\ \/ /\ f \in have /\ f \notin called
          /\ subject' = [subject EXCEPT ![p] = f]
          /\ Goto(p, "report")
       \/ ~(f \in have /\ f \notin called) /\ UNCHANGED <<subject, pc>>
    /\ UNCHANGED <<listed, started, manual, wanted, loaded, done, allFilesDone,
                   called, have, reports, boot, auto, marking, remover>>

(* Mutant of EndFiles: doneFlag is not looked at. *)
EndFilesDone(p) ==
    /\ At(p, "files") /\ todo[p] = {}
    /\ allFilesDone' = TRUE
    /\ clean' = clean \ {p}
    /\ Goto(p, "status")
    /\ UNCHANGED <<listed, flags, loaded, done, made, called, have, reports,
                   boot, todo, subject, auto, marking, remover>>

(* updateFileStatus ends: IsAllFilesDone = doneFlag *)
EndFiles(p) ==
    /\ At(p, "files") /\ todo[p] = {}
    /\ allFilesDone' = (p \in clean)
    /\ clean' = clean \ {p}
    /\ Goto(p, "status")
    /\ UNCHANGED <<listed, flags, loaded, done, made, called, have, reports,
                   boot, todo, subject, auto, marking, remover>>

AfterStatus(p) == IF p \in boot THEN "auto" ELSE "routine"

(* updateTorrentStatus, which the main loop does not call for a torrent that *)
(* is done.                                                                 *)
LookTorrent(p) ==
    LET finished == (p \in boot \/ ~done) /\ have = File /\ Whole \notin called
    IN  /\ At(p, "status")
        /\ done' = (done \/ have = File)
        /\ subject' = [subject EXCEPT ![p] = Whole]
        /\ Goto(p, IF finished THEN "report" ELSE AfterStatus(p))
        /\ UNCHANGED <<listed, flags, loaded, allFilesDone, made, called, have, reports,
                       boot, todo, clean, auto, marking, remover>>

AfterReport(p) == IF subject[p] = Whole THEN AfterStatus(p) ELSE "files"

(* Mutant of Report: DoneCmdCalled stays unset. *)
ReportForgets(p) ==
    /\ At(p, "report")
    /\ reports' = [reports EXCEPT ![subject[p]] = @ + 1]
    /\ Goto(p, AfterReport(p))
    /\ UNCHANGED <<listed, flags, loaded, done, allFilesDone, made, called, have,
                   boot, todo, clean, subject, auto, marking, remover>>

(* DoneCmdCalled is set and go callDoneCmd(...) *)
Report(p) ==
    /\ At(p, "report")
    /\ called' = called \cup {subject[p]}
    /\ reports' = [reports EXCEPT ![subject[p]] = @ + 1]
    /\ subject' = [subject EXCEPT ![p] = Whole]
    /\ Goto(p, AfterReport(p))
    /\ UNCHANGED <<listed, flags, loaded, done, allFilesDone, made, have,
                   boot, todo, clean, auto, marking, remover>>

(* if e.config.AutoStart { go e.StartTorrent(ih) } *)
SpawnAutoStart(p) ==
    /\ At(p, "auto")
    /\ auto' = IF AutoStart THEN auto \cup {p} ELSE auto
    /\ boot' = boot \ {p}
    /\ Goto(p, "tick")
    /\ UNCHANGED <<listed, flags, status, todo, clean, subject, marking, remover>>

(* taskRoutine: the ratio or the time to seed may have been reached. *)
TaskRoutine(p) ==
    /\ At(p, "routine")
    /\ Goto(p, "tick")
    /\ \/ UNCHANGED remover
       \/ /\ "expire" \in Ops /\ remover = "off"
          /\ started /\ ~manual /\ done
          /\ remover' = "stop"
    /\ UNCHANGED <<listed, flags, status, boot, todo, clean, subject, auto, marking>>

(* dropWait is closed. *)
DropTask(p) ==
    /\ pc[p] \in {"wait", "tick"} /\ ~listed
    /\ Goto(p, "end")
    /\ UNCHANGED <<listed, flags, status, boot, todo, clean, subject, auto, marking, remover>>

-----------------------------------------------------------------------------
(* Starting and stopping, each under Torrent.Lock. *)

Admit(op) == op \in Ops /\ listed /\ (Calm => made = File)

(* StartTorrent of a stopped task.  Before the metadata is there, t.t is    *)
(* nil, and the call panics after Started is set.                           *)
StartTorrent ==
    /\ ~started
    /\ started' = TRUE
    /\ fileStarted' = made
    /\ wanted' = IF loaded THEN File ELSE wanted

AutoStartTorrent(p) ==
    /\ p \in auto
    /\ auto' = auto \ {p}
    /\ \/ listed /\ StartTorrent
       \/ ~(listed /\ ~started) /\ UNCHANGED <<started, fileStarted, wanted>>
    /\ UNCHANGED <<listed, manual, status, local, marking, remover>>

(* ManualStartTorrent sets ManualStarted after StartTorrent has returned. *)
ManualStart ==
    /\ Admit("start") /\ ~marking
    /\ StartTorrent
    /\ marking' = loaded
    /\ UNCHANGED <<listed, manual, status, local, auto, remover>>

(* A task that is deleted meanwhile is not found, and the request panics. *)
MarkManual ==
    /\ marking
    /\ marking' = FALSE
    /\ manual' = (manual \/ listed)
    /\ UNCHANGED <<listed, started, fileStarted, wanted, status, local, auto, remover>>

(* StopTorrent of a started task; without metadata the call panics before   *)
(* anything is changed.  A file that is not made yet is a nil pointer, at   *)
(* which the call panics: some of the other files may not have been reached.*)
StopTorrent ==
    /\ started /\ loaded
    /\ started' = FALSE
    /\ wanted' = {}
    /\ \/ fileStarted' = {}
       \/ made # File /\ fileStarted' \in SUBSET fileStarted

ApiStop ==
    /\ Admit("stop")
    /\ StopTorrent
    /\ UNCHANGED <<listed, manual, status, local, auto, marking, remover>>

(* StartFile and StopFile do not find a file that is not made. *)
StartFile(f) ==
    /\ Admit("startFile") /\ f \in made \ fileStarted
    /\ started' = TRUE
    /\ fileStarted' = fileStarted \cup {f}
    /\ wanted' = wanted \cup {f}
    /\ UNCHANGED <<listed, manual, status, local, auto, marking, remover>>

(* Mutant of StopFile: the torrent is stopped with its first file. *)
StopFileStops(f) ==
    /\ Admit("stopFile") /\ f \in fileStarted
    /\ fileStarted' = fileStarted \ {f}
    /\ wanted' = wanted \ {f}
    /\ started' = FALSE
    /\ UNCHANGED <<listed, manual, status, local, auto, marking, remover>>

StopFile(f) ==
    /\ Admit("stopFile") /\ f \in fileStarted
    /\ fileStarted' = fileStarted \ {f}
    /\ wanted' = wanted \ {f}
    /\ \/ started' = (started /\ fileStarted' # {})
       \/ made # File /\ UNCHANGED started
    /\ UNCHANGED <<listed, manual, status, local, auto, marking, remover>>

ApiDelete ==
    /\ Admit("delete")
    /\ listed' = FALSE
    /\ UNCHANGED <<flags, status, local, auto, marking, remover>>

(* stopRemoveTask: StopTorrent, whose error is only logged, then the entry  *)
(* goes.                                                                    *)
RemoverStop ==
    /\ remover = "stop"
    /\ remover' = "delete"
    /\ \/ listed /\ StopTorrent
       \/ ~(listed /\ started) /\ UNCHANGED <<started, fileStarted, wanted>>
    /\ UNCHANGED <<listed, manual, status, local, auto, marking>>

RemoverDelete ==
    /\ remover = "delete"
    /\ remover' = "off"
    /\ listed' = FALSE
    /\ UNCHANGED <<flags, status, local, auto, marking>>

-----------------------------------------------------------------------------
(* The library completes a file it is told to fetch. *)
Download(f) ==
    /\ loaded /\ listed /\ f \in wanted \ have
    /\ have' = have \cup {f}
    /\ UNCHANGED <<listed, flags, loaded, done, allFilesDone, made, called, reports,
                   local, auto, marking, remover>>

Update(p) ==
    \/ Load(p) \/ BeginRound(p)
    \/ \E f \in File : LookFile(p, f)
    \/ EndFiles(p) \/ LookTorrent(p) \/ Report(p)
    \/ SpawnAutoStart(p) \/ TaskRoutine(p)

Request ==
    \/ ManualStart \/ ApiStop \/ ApiDelete
    \/ \E f \in File : StartFile(f) \/ StopFile(f)

Next ==
    \/ \E p \in Processor :
         AddSpec(p) \/ GotInfo(p) \/ Update(p) \/ DropTask(p) \/ AutoStartTorrent(p)
    \/ Request \/ MarkManual \/ RemoverStop \/ RemoverDelete
    \/ \E f \in File : Download(f)

Spec == Init /\ [][Next]_vars

-----------------------------------------------------------------------------
(* Properties. *)

(* When users act on what the page shows, a file that is shown as started   *)
(* is one the library was told to fetch, whoever started, stopped, loaded   *)
(* or added the task: "AutoStart Whether start torrent task on added"       *)
(* (example-cloud-torrent.yaml 8).                                          *)
StartedWanted == fileStarted \subseteq wanted

(* When users act on what the page shows, a stopped torrent has no started  *)
(* file (StopTorrent, StopFile, engine.go 381-489).                         *)
StoppedStopsFiles == ~started => fileStarted = {}

(* DoneCmdCalled keeps a processor from reporting twice: DoneCmd is called  *)
(* at most once per processor of the task, for the torrent and for each of  *)
(* its files, although the flag is read and set without a lock              *)
(* (torrent.go 156-159, 174-178).                                           *)
Active == {p \in Processor : pc[p] # "off"}
ReportedOnce == \A s \in Subject : reports[s] <= Cardinality(Active)

(* Nobody looks at the files any more when IsAllFilesDone is set, nor at    *)
(* the torrent when Done is set (engine.go 287-292): by then DoneCmd has    *)
(* been called for every file, and for the torrent or is about to be: "Run  *)
(* external program on tasks completion" (README.md 12).                    *)
Reporting(s) == {p \in Processor : At(p, "report") /\ subject[p] = s}
CompletionNotMissed ==
    /\ allFilesDone => \A f \in File : reports[f] > 0
    /\ done => reports[Whole] > 0 \/ Reporting(Whole) # {}
=============================================================================
