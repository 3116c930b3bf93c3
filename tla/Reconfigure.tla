---------------------------- MODULE Reconfigure ----------------------------
(***************************************************************************)
(* A change of the configuration at run time (server/server_api.go         *)
(* apiConfigure, engine/config.go, engine/engine.go Configure) and the     *)
(* start of the server from what was saved (server/server.go Run).         *)
(*                                                                         *)
(* One configuration lives in five places: the file, viper's values, the   *)
(* server's s.engineConfig, the engine's e.config, and what the running    *)
(* parts were made from (client, watcher, trackers).  apiConfigure updates *)
(* them one after the other, without a lock, for every request at once;    *)
(* any step may fail and the process may stop between any two.             *)
(*                                                                         *)
(* Abstracted: a configuration keeps one field per reaction of Validate    *)
(* and per rewriting of Configure and Run.  `port', `dir', `rate' and      *)
(* `debug' stand for the twelve fields that need a new client, `rate' for  *)
(* both rates; the limit MaxConcurrentTask and its reaction are in         *)
(* TaskEngine, RssURL in RSSFeed.  Paths are absolute, so                  *)
(* NormlizeConfigDir changes nothing, and the directories for cache and    *)
(* trash can be made.                                                      *)
(***************************************************************************)
EXTENDS Integers, FiniteSets

CONSTANTS
    Handler,      \* bound: requests served at the same time
    Port,         \* values of IncomingPort, 0 included if a user may send it
    Dir,          \* values of DownloadDirectory
    Unusable,     \* those that detectDiskStat refuses: empty, no parent, disk full
    Rate,         \* values of UploadRate and DownloadRate
    Unrecognised, \* those that rateLimiter cannot read
    Unlimited,    \* the empty rate
    Watch,        \* values of WatchDirectory
    Missing,      \* those that are no directory
    Tracker,      \* trackers that lists may name
    Remote,       \* those that only remote lists name
    TrackerLists, \* values of TrackerList, as the sets of trackers they stand for
    DefaultList,  \* the list at defaultTrackerListURL
    Cmd,          \* values of DoneCmd
    DebugTorrent, \* the command-line argument that overrides EngineDebug
    Default,      \* the configuration of viper's defaults
    Installed,    \* the file the server is started with for the first time
    MaxRequests,  \* bound: requests sent altogether
    MaxEdits,     \* bound: fields a user edits before saving
    Torn,         \* a file that was truncated and not yet written
    None          \* no client, no watcher, nobody holds e.Lock

Config == [port : Port, dir : Dir, rate : Rate, debug : BOOLEAN,
           watch : Watch, trackers : TrackerLists, done : Cmd, allow : BOOLEAN]
Field == {"port", "dir", "rate", "debug", "watch", "trackers", "done", "allow"}

(* What a client is made from. *)
Setting == [port : Port, dir : Dir, rate : Rate, debug : BOOLEAN]
Settings(c) == [port |-> c.port, dir |-> c.dir, rate |-> c.rate, debug |-> c.debug]

(* What Run asks of a configuration: Configure looks at the port alone.     *)
Startable(c) == c.port > 0 /\ c.dir \notin Unusable

ASSUME DefaultAssumption == Default \in Config
ASSUME InstalledAssumption == Installed \in Config /\ Startable(Installed)
ASSUME RateAssumption == Unlimited \in Rate \ Unrecognised
ASSUME ListAssumption ==
    TrackerLists \subseteq SUBSET Tracker /\ DefaultList \in TrackerLists /\ {} \in TrackerLists
ASSUME PortAssumption == Port \subseteq Nat
ASSUME DebugAssumption == DebugTorrent \in BOOLEAN
ASSUME NoneAssumption ==
    None \notin Setting \cup Watch \cup Handler /\ Torn \notin Config

VARIABLES
    up,        \* the process runs and serves requests
    disk,      \* the configuration file
    viper,     \* viper's values
    srv,       \* *s.engineConfig
    eng,       \* e.config
    client,    \* what e.client was made from, None for nil
    lock,      \* who holds e.Lock
    watcher,   \* the directory e.watcher watches
    trackers,  \* the trackers in e.Trackers
    exiting,   \* log.Fatalln is due in ten seconds
    pc,        \* where each request is
    req,       \* the configuration it carries, later the one it configures
    need,      \* what Validate told it to do
    shared,    \* requests in Configure whose argument is still s.engineConfig
    parse,     \* where its ParseTrackerList is
    list,      \* what that call has got and not yet appended
    base,      \* e.Trackers as it found them
    asked,     \* requests sent so far
    trouble    \* history: what has gone wrong since the start, see Trouble

process == <<viper, srv, eng, client, lock, watcher, trackers, exiting>>
parsing == <<parse, list, base>>
request == <<pc, req, need, shared, parsing>>
vars == <<up, disk, process, request, asked, trouble>>

Need == {"watch", "trackers", "engine"}

(* "overlap": two requests at once; "parsing": a request while a             *)
(* ParseTrackerList was at work; "refused": Configure did not like the port;  *)
(* "unusable": it took a directory that Run refuses; "unsaved": writing the   *)
(* file failed; "noclient": NewClient failed; "unfetched": so did the         *)
(* fetching of a tracker list; "crash": the process stopped while a request   *)
(* was served.                                                                *)
Trouble == {"overlap", "parsing", "refused", "unusable", "unsaved", "noclient",
            "unfetched", "crash"}

PC == {"idle", "validate", "watch", "sync", "publish", "save", "write",
       "set", "configure", "close", "open", "failed", "after"}
Parse == {"none", "spawned", "read", "append"}

TypeOK ==
    /\ up \in BOOLEAN /\ exiting \in BOOLEAN
    /\ disk \in Config \cup {Torn}
    /\ viper \in Config /\ srv \in Config /\ eng \in Config
    /\ client \in Setting \cup {None}
    /\ lock \in Handler \cup {None}
    /\ watcher \in Watch \cup {None}
    /\ trackers \subseteq Tracker
    /\ pc \in [Handler -> PC]
    /\ req \in [Handler -> Config]
    /\ need \in [Handler -> SUBSET Need]
    /\ shared \subseteq Handler
    /\ parse \in [Handler -> Parse]
    /\ list \in [Handler -> SUBSET Tracker]
    /\ base \in [Handler -> SUBSET Tracker]
    /\ asked \in Nat
    /\ trouble \subseteq Trouble

-----------------------------------------------------------------------------
(* Starting and stopping. *)

(* InitConf: viper reads the file; what a torn file lacks is the default. *)
InitConf == IF disk = Torn THEN Default ELSE disk

(* Configure puts the default list in the place of an empty one. *)
Defaulted(c) == IF c.trackers = {} THEN [c EXCEPT !.trackers = DefaultList] ELSE c

(* Mutant of Corrected: a rate that cannot be read becomes none at all. *)
CorrectedNil(c) == IF c.rate \in Unrecognised THEN [c EXCEPT !.rate = None] ELSE c

(* UploadLimiter and DownloadLimiter empty a rate they cannot read. *)
Corrected(c) == IF c.rate \in Unrecognised THEN [c EXCEPT !.rate = Unlimited] ELSE c

(* What Run makes of the configuration c. *)
Effective(c) == Corrected(Defaulted([c EXCEPT !.debug = DebugTorrent]))

(* StartTorrentWatcher closes the old watcher first. *)
WatcherOf(dir) == IF dir \in Missing THEN None ELSE dir

(* The server is installed and not yet running. *)
Init ==
    /\ up = FALSE
    /\ disk = Installed
    /\ viper = Default /\ srv = Default /\ eng = Default
    /\ client = None /\ watcher = None /\ lock = None /\ exiting = FALSE
    /\ trackers = {}
    /\ pc = [h \in Handler |-> "idle"]
    /\ req = [h \in Handler |-> Default]
    /\ need = [h \in Handler |-> {}]
    /\ shared = {}
    /\ parse = [h \in Handler |-> "none"]
    /\ list = [h \in Handler |-> {}]
    /\ base = [h \in Handler |-> {}]
    /\ asked = 0
    /\ trouble = {}

(* A tracker list whose remote parts cannot all be fetched loses them. *)
Unfetched(lost) == IF lost = {} THEN {} ELSE {"unfetched"}

(* Run refuses a port or a directory before anything is changed; it may     *)
(* also fail to open a client, and is then started again.  Requests are     *)
(* served only when all is set up.                                          *)
Start ==
    /\ ~up /\ Startable(InitConf)
    /\ up' = TRUE
    /\ viper' = InitConf
    /\ srv' = Effective(InitConf) /\ eng' = Effective(InitConf)
    /\ client' = Settings(Effective(InitConf))
    /\ watcher' = WatcherOf(InitConf.watch)
    /\ \E lost \in SUBSET (Effective(InitConf).trackers \cap Remote) :
         /\ trackers' = Effective(InitConf).trackers \ lost
         /\ trouble' = Unfetched(lost)
    /\ UNCHANGED <<disk, lock, exiting, request, asked>>

Busy(h) == pc[h] # "idle"
Parsing(h) == parse[h] # "none"
AtRest == \A h \in Handler : ~Busy(h) /\ ~Parsing(h)

(* The process stops: the scheduled log.Fatalln, a crash, an update of the  *)
(* program.  Its memory is gone; the file stays as it is.                   *)
Stop ==
    /\ up
    /\ up' = FALSE
    /\ viper' = Default /\ srv' = Default /\ eng' = Default
    /\ client' = None /\ watcher' = None /\ lock' = None /\ exiting' = FALSE
    /\ trackers' = {}
    /\ pc' = [h \in Handler |-> "idle"]
    /\ req' = [h \in Handler |-> Default]
    /\ need' = [h \in Handler |-> {}]
    /\ shared' = {}
    /\ parse' = [h \in Handler |-> "none"]
    /\ list' = [h \in Handler |-> {}]
    /\ base' = [h \in Handler |-> {}]
    /\ trouble' = IF AtRest THEN trouble ELSE trouble \cup {"crash"}
    /\ UNCHANGED <<disk, asked>>

-----------------------------------------------------------------------------
(* apiConfigure. *)

At(h, place) == up /\ pc[h] = place
Goto(h, place) == pc' = [pc EXCEPT ![h] = place]

(* The request ends; its ParseTrackerList may go on. *)
Return(h) ==
    /\ Goto(h, "idle")
    /\ req' = [req EXCEPT ![h] = Default]
    /\ need' = [need EXCEPT ![h] = {}]

(* The page shows s.engineConfig; its user edits a few fields and saves. *)
Edited(c) == Cardinality({f \in Field : srv[f] # c[f]}) <= MaxEdits

(* A request comes in; AllowRuntimeConfigure is looked at. *)
Ask(h, c) ==
    /\ At(h, "idle") /\ ~Parsing(h)
    /\ asked < MaxRequests
    /\ srv.allow
    /\ req' = [req EXCEPT ![h] = c]
    /\ Goto(h, "validate")
    /\ asked' = asked + 1
    /\ trouble' = trouble
         \cup (IF \E g \in Handler : Busy(g) THEN {"overlap"} ELSE {})
         \cup (IF \E g \in Handler : Parsing(g) THEN {"parsing"} ELSE {})
    /\ UNCHANGED <<up, disk, process, need, shared, parsing>>

(* Config.Validate, the bits apart from ForbidRuntimeChange. *)
Needs(old, new) ==
    {n \in Need : \/ n = "watch" /\ old.watch # new.watch
                  \/ n = "trackers" /\ old.trackers # new.trackers
                  \/ n = "engine" /\ Settings(old) # Settings(new)}

(* Mutant of Validate: DoneCmd is not looked at. *)
ValidateAnything(h) ==
    /\ At(h, "validate")
    /\ need' = [need EXCEPT ![h] = Needs(srv, req[h])]
    /\ Goto(h, IF "watch" \in Needs(srv, req[h]) THEN "watch" ELSE "sync")
    /\ UNCHANGED <<up, disk, process, req, shared, parsing, asked, trouble>>

(* apiConfigure refuses a change of DoneCmd; a new directory is watched.    *)
Validate(h) ==
    /\ At(h, "validate")
    /\ \/ /\ srv.done # req[h].done
          /\ Return(h)
       \/ /\ srv.done = req[h].done
          /\ need' = [need EXCEPT ![h] = Needs(srv, req[h])]
          /\ Goto(h, IF "watch" \in Needs(srv, req[h]) THEN "watch" ELSE "sync")
          /\ UNCHANGED req
    /\ UNCHANGED <<up, disk, process, shared, parsing, asked, trouble>>

(* StartTorrentWatcher looks into e.config, which is still the old one. *)
RestartWatch(h) ==
    /\ At(h, "watch")
    /\ watcher' = WatcherOf(eng.watch)
    /\ Goto(h, "sync")
    /\ UNCHANGED <<up, disk, viper, srv, eng, client, lock, trackers, exiting,
                   req, need, shared, parsing, asked, trouble>>

(* SyncViper sets what differs from the s.engineConfig of this moment. *)
Merge(values, old, new) ==
    [port     |-> IF old.port = new.port THEN values.port ELSE new.port,
     dir      |-> IF old.dir = new.dir THEN values.dir ELSE new.dir,
     rate     |-> IF old.rate = new.rate THEN values.rate ELSE new.rate,
     debug    |-> IF old.debug = new.debug THEN values.debug ELSE new.debug,
     watch    |-> IF old.watch = new.watch THEN values.watch ELSE new.watch,
     trackers |-> IF old.trackers = new.trackers THEN values.trackers ELSE new.trackers,
     done     |-> IF old.done = new.done THEN values.done ELSE new.done,
     allow    |-> IF old.allow = new.allow THEN values.allow ELSE new.allow]

(* Mutant of SyncViper: called when the new configuration is already the    *)
(* server's.                                                                *)
SyncViperLate(h) ==
    /\ At(h, "sync")
    /\ viper' = Merge(viper, req[h], req[h])
    /\ Goto(h, "publish")
    /\ UNCHANGED <<up, disk, srv, eng, client, lock, watcher, trackers, exiting,
                   req, need, shared, parsing, asked, trouble>>

(* s.engineConfig.SyncViper(c) *)
SyncViper(h) ==
    /\ At(h, "sync")
    /\ viper' = Merge(viper, srv, req[h])
    /\ Goto(h, "publish")
    /\ UNCHANGED <<up, disk, srv, eng, client, lock, watcher, trackers, exiting,
                   req, need, shared, parsing, asked, trouble>>

(* s.engineConfig = &c *)
Publish(h) ==
    /\ At(h, "publish")
    /\ srv' = req[h]
    /\ shared' = {}
    /\ Goto(h, "save")
    /\ UNCHANGED <<up, disk, viper, eng, client, lock, watcher, trackers, exiting,
                   req, need, parsing, asked, trouble>>

(* WriteDefault truncates the file and writes viper's values. *)
Truncate(h) ==
    /\ At(h, "save")
    /\ disk' = Torn
    /\ Goto(h, "write")
    /\ UNCHANGED <<up, process, req, need, shared, parsing, asked, trouble>>

(* The file is complete; what follows depends on the bits. *)
Write(h) ==
    /\ At(h, "write")
    /\ disk' = viper
    /\ Goto(h, IF "engine" \in need[h] THEN "configure" ELSE "set")
    /\ UNCHANGED <<up, process, req, need, shared, parsing, asked, trouble>>

(* The file cannot be opened, or not be written. *)
SaveFails(h) ==
    /\ At(h, "save") \/ At(h, "write")
    /\ Return(h)
    /\ trouble' = trouble \cup {"unsaved"}
    /\ UNCHANGED <<up, disk, process, shared, parsing, asked>>

(* Without a new client e.config is replaced. *)
SetConfig(h) ==
    /\ At(h, "set")
    /\ eng' = srv
    /\ Goto(h, "after")
    /\ UNCHANGED <<up, disk, viper, srv, client, lock, watcher, trackers, exiting,
                   req, need, shared, parsing, asked, trouble>>

(* Mutant of Configure: the port is not checked. *)
ConfigureAnyPort(h) ==
    /\ At(h, "configure")
    /\ srv' = Defaulted(srv)
    /\ req' = [req EXCEPT ![h] = Defaulted(srv)]
    /\ shared' = shared \cup {h}
    /\ trouble' = IF srv.dir \in Unusable THEN trouble \cup {"unusable"} ELSE trouble
    /\ Goto(h, "close")
    /\ UNCHANGED <<up, disk, viper, eng, client, lock, watcher, trackers, exiting,
                   need, parsing, asked>>

(* Configure(s.engineConfig) up to e.Lock: the port is checked now, the     *)
(* directory never, and the default tracker list is written through the     *)
(* pointer.                                                                 *)
Configure(h) ==
    /\ At(h, "configure")
    /\ \/ /\ srv.port = 0
          /\ Goto(h, "failed")
          /\ trouble' = trouble \cup {"refused"}
          /\ UNCHANGED <<srv, req, shared>>
       \/ /\ srv.port > 0
          /\ srv' = Defaulted(srv)
          /\ req' = [req EXCEPT ![h] = Defaulted(srv)]
          /\ shared' = shared \cup {h}
          /\ trouble' = IF srv.dir \in Unusable THEN trouble \cup {"unusable"} ELSE trouble
          /\ Goto(h, "close")
    /\ UNCHANGED <<up, disk, viper, eng, client, lock, watcher, trackers, exiting,
                   need, parsing, asked>>

(* e.Lock; the rates are corrected through the pointer, which may be        *)
(* s.engineConfig no more; the old client is closed ...                     *)
CloseClient(h) ==
    /\ At(h, "close") /\ lock = None
    /\ lock' = h
    /\ req' = [req EXCEPT ![h] = Corrected(req[h])]
    /\ srv' = IF h \in shared THEN Corrected(srv) ELSE srv
    /\ shared' = shared \ {h}
    /\ client' = None
    /\ Goto(h, "open")
    /\ UNCHANGED <<up, disk, viper, eng, watcher, trackers, exiting,
                   need, parsing, asked, trouble>>

(* ... and a new one opened, within ten attempts. *)
OpenClient(h) ==
    /\ At(h, "open")
    /\ client' = Settings(req[h])
    /\ eng' = req[h]
    /\ lock' = None
    /\ Goto(h, "after")
    /\ UNCHANGED <<up, disk, viper, srv, watcher, trackers, exiting,
                   req, need, shared, parsing, asked, trouble>>

(* Ten attempts have failed. *)
OpenFails(h) ==
    /\ At(h, "open")
    /\ lock' = None
    /\ trouble' = trouble \cup {"noclient"}
    /\ Goto(h, "failed")
    /\ UNCHANGED <<up, disk, viper, srv, eng, client, watcher, trackers, exiting,
                   req, need, shared, parsing, asked>>

(* Mutant of CheckConfigured: the test is inverted. *)
CheckConfiguredInverted(h) ==
    /\ At(h, "failed") /\ lock = None
    /\ exiting' = (exiting \/ client # None)
    /\ Return(h)
    /\ UNCHANGED <<up, disk, viper, srv, eng, client, lock, watcher, trackers,
                   shared, parsing, asked, trouble>>

(* After a failed Configure: IsConfigred, under e.RLock, decides whether    *)
(* the process is to exit.                                                  *)
CheckConfigured(h) ==
    /\ At(h, "failed") /\ lock = None
    /\ exiting' = (exiting \/ client = None)
    /\ Return(h)
    /\ UNCHANGED <<up, disk, viper, srv, eng, client, lock, watcher, trackers,
                   shared, parsing, asked, trouble>>

(* The rest of apiConfigure starts goroutines. *)
After(h) ==
    /\ At(h, "after")
    /\ parse' = IF "trackers" \in need[h] THEN [parse EXCEPT ![h] = "spawned"] ELSE parse
    /\ Return(h)
    /\ UNCHANGED <<up, disk, process, shared, list, base, asked, trouble>>

-----------------------------------------------------------------------------
(* ParseTrackerList, without a lock. *)

ParseAt(h, place) == up /\ parse[h] = place

(* It reads e.config.TrackerList and fetches what is remote; what cannot be *)
(* fetched is ignored.                                                      *)
ParseRead(h) ==
    /\ ParseAt(h, "spawned")
    /\ \E lost \in SUBSET (eng.trackers \cap Remote) :
         /\ list' = [list EXCEPT ![h] = eng.trackers \ lost]
         /\ trouble' = trouble \cup Unfetched(lost)
    /\ parse' = [parse EXCEPT ![h] = "read"]
    /\ UNCHANGED <<up, disk, process, pc, req, need, shared, base, asked>>

(* e.Trackers = append(e.Trackers, t), tracker by tracker: the slice is     *)
(* read ...                                                                 *)
AppendRead(h) ==
    /\ ParseAt(h, "read") /\ list[h] # {}
    /\ base' = [base EXCEPT ![h] = trackers]
    /\ parse' = [parse EXCEPT ![h] = "append"]
    /\ UNCHANGED <<up, disk, process, pc, req, need, shared, list, asked, trouble>>

(* What the slice of h holds if another call has appended since: the two    *)
(* slices may share an array or not.                                        *)
Survivors(h) ==
    IF base[h] = trackers THEN {trackers} ELSE SUBSET (base[h] \cup trackers)

(* ... and written back, one longer. *)
AppendWrite(h) ==
    /\ ParseAt(h, "append")
    /\ \E t \in list[h], kept \in Survivors(h) :
         /\ trackers' = kept \cup {t}
         /\ list' = [list EXCEPT ![h] = @ \ {t}]
    /\ base' = [base EXCEPT ![h] = {}]
    /\ parse' = [parse EXCEPT ![h] = "read"]
    /\ UNCHANGED <<up, disk, viper, srv, eng, client, lock, watcher, exiting,
                   pc, req, need, shared, asked, trouble>>

ParseEnd(h) ==
    /\ ParseAt(h, "read") /\ list[h] = {}
    /\ parse' = [parse EXCEPT ![h] = "none"]
    /\ UNCHANGED <<up, disk, process, pc, req, need, shared, list, base, asked, trouble>>

ParseTrackerList(h) == ParseRead(h) \/ AppendRead(h) \/ AppendWrite(h) \/ ParseEnd(h)

-----------------------------------------------------------------------------
Serve(h) ==
    \/ Validate(h) \/ RestartWatch(h) \/ SyncViper(h) \/ Publish(h)
    \/ Truncate(h) \/ Write(h) \/ SaveFails(h) \/ SetConfig(h) \/ Configure(h)
    \/ CloseClient(h) \/ OpenClient(h) \/ OpenFails(h) \/ CheckConfigured(h)
    \/ After(h)

Next ==
    \/ Start \/ Stop
    \/ \E h \in Handler :
         \/ \E c \in Config : Edited(c) /\ Ask(h, c)
         \/ Serve(h) \/ ParseTrackerList(h)

Spec == Init /\ [][Next]_vars

-----------------------------------------------------------------------------
(* Properties. *)

(* DoneCmd is what the server was started with until it stops, however many *)
(* requests race between Validate and the publishing of their configuration *)
(* ("NOT allowed being changed on runtime", server_api.go 226).             *)
DoneCmdFixed == [][up /\ up' => srv'.done = srv.done /\ eng'.done = eng.done]_vars

(* Outside Configure the engine has a client, or the process is about to    *)
(* exit: no other request finds e.client gone for good (server_api.go       *)
(* 243-252, engine.go 120-150).                                             *)
ClientOrExit ==
    up /\ client = None => lock # None \/ exiting \/ \E h \in Handler : pc[h] = "failed"

(* What the file says is what c uses, but for what the program replaces: an *)
(* empty tracker list, a rate it cannot read, and EngineDebug, which the    *)
(* command line decides at the start.                                       *)
Agree(file, c) ==
    /\ file.port = c.port /\ file.dir = c.dir /\ file.watch = c.watch
    /\ file.done = c.done /\ file.allow = c.allow
    /\ Corrected(file).rate = c.rate
    /\ file.debug = c.debug \/ DebugTorrent = c.debug
    /\ file.trackers \in {c.trackers, {}}

(* If requests came one by one, none was refused and none failed, server,   *)
(* engine, client and file hold the same configuration afterwards, but for  *)
(* what Agree names, although each step of apiConfigure brings only one of  *)
(* them up to date and Configure rewrites some of it after it was saved;    *)
(* and every tracker of the saved list is known, unless a remote list could *)
(* not be fetched or two calls of ParseTrackerList were at work             *)
(* (server_api.go 207-287, engine.go 73-158, engineUtil.go 60-93).          *)
SavedIsUsed ==
    up /\ AtRest /\ trouble \subseteq {"parsing", "unusable", "unfetched"} =>
        /\ srv = eng /\ client = Settings(eng)
        /\ Agree(InitConf, eng)
        /\ \A t \in InitConf.trackers :
             t \in trackers \/ "parsing" \in trouble \/ (t \in Remote /\ "unfetched" \in trouble)

(* A file from which Run does not start is left behind by nothing but the   *)
(* following: Configure refused the port after the file had been written,   *)
(* it took a directory that Run refuses (it never asks detectDiskStat),     *)
(* requests overlapped, or the file was not written to its end              *)
(* (server_api.go 233-252, server.go 179-190).                              *)
StartsAgain ==
    AtRest /\ ~Startable(InitConf) =>
        trouble \cap {"refused", "unusable", "overlap", "unsaved", "crash"} # {}
=============================================================================
