------------------------- MODULE ReconfigureProofs -------------------------
(***************************************************************************)
(* Proofs about Reconfigure, for any number of requests and configurations:*)
(* type correctness, that DoneCmd stays what it was at the start, that the *)
(* engine is not left without a client for good, that what was saved is    *)
(* what is used, and what a file that Run refuses comes from.              *)
(***************************************************************************)
EXTENDS Reconfigure, TLAPS

USE DEF At, Goto, ParseAt

LEMMA ConfigFields ==
    ASSUME NEW c \in Config
    PROVE  /\ c.port \in Port /\ c.dir \in Dir /\ c.rate \in Rate /\ c.debug \in BOOLEAN
           /\ c.watch \in Watch /\ c.trackers \in TrackerLists
           /\ c.done \in Cmd /\ c.allow \in BOOLEAN
<1>1. /\ c.port \in Port /\ c.dir \in Dir /\ c.rate \in Rate
      /\ c.watch \in Watch /\ c.trackers \in TrackerLists /\ c.done \in Cmd
  BY DEF Config
<1>2. c.debug \in BOOLEAN /\ c.allow \in BOOLEAN
  BY DEF Config
<1>. QED  BY <1>1, <1>2

LEMMA SettingsType == ASSUME NEW c \in Config PROVE Settings(c) \in Setting
BY ConfigFields DEF Settings, Setting

(* What two configurations have in common if only trackers differ ...       *)
SameButTrackers(c, d) ==
    /\ c.port = d.port /\ c.dir = d.dir /\ c.rate = d.rate /\ c.debug = d.debug
    /\ c.watch = d.watch /\ c.done = d.done /\ c.allow = d.allow

(* ... and if only rates differ. *)
SameButRate(c, d) ==
    /\ c.port = d.port /\ c.dir = d.dir /\ c.debug = d.debug /\ c.watch = d.watch
    /\ c.trackers = d.trackers /\ c.done = d.done /\ c.allow = d.allow

(* The default list is a list, and nothing else is changed by it. *)
LEMMA DefaultedType ==
    ASSUME NEW c \in Config
    PROVE  /\ Defaulted(c) \in Config
           /\ SameButTrackers(Defaulted(c), c)
           /\ c.trackers \in {Defaulted(c).trackers, {}}
<1>1. CASE c.trackers = {}
  <2>1. Defaulted(c) = [c EXCEPT !.trackers = DefaultList]
    BY <1>1 DEF Defaulted
  <2>2. Defaulted(c) \in Config
    BY <2>1, ListAssumption DEF Config
  <2>3. SameButTrackers(Defaulted(c), c)
    BY <2>1 DEF Config, SameButTrackers
  <2>. QED  BY <1>1, <2>2, <2>3
<1>2. CASE c.trackers # {}
  BY <1>2 DEF Defaulted, SameButTrackers
<1>. QED  BY <1>1, <1>2

(* A corrected rate can be read, and nothing else is changed. *)
LEMMA CorrectedType ==
    ASSUME NEW c \in Config
    PROVE  /\ Corrected(c) \in Config
           /\ SameButRate(Corrected(c), c)
           /\ Corrected(c).rate = IF c.rate \in Unrecognised THEN Unlimited ELSE c.rate
<1>1. CASE c.rate \in Unrecognised
  <2>1. Corrected(c) = [c EXCEPT !.rate = Unlimited]
    BY <1>1 DEF Corrected
  <2>2. Corrected(c) \in Config /\ Corrected(c).rate = Unlimited
    BY <2>1, RateAssumption DEF Config
  <2>3. SameButRate(Corrected(c), c)
    BY <2>1 DEF Config, SameButRate
  <2>. QED  BY <1>1, <2>2, <2>3
<1>2. CASE c.rate \notin Unrecognised
  BY <1>2 DEF Corrected, SameButRate
<1>. QED  BY <1>1, <1>2

(* What Run uses agrees with what it read. *)
LEMMA EffectiveType ==
    ASSUME NEW c \in Config
    PROVE  /\ Effective(c) \in Config
           /\ Agree(c, Effective(c))
           /\ Effective(c).port = c.port /\ Effective(c).dir = c.dir
<1>. DEFINE d == [c EXCEPT !.debug = DebugTorrent]
<1>1. d \in Config
  BY DebugAssumption DEF Config
<1>2. /\ d.port = c.port /\ d.dir = c.dir /\ d.rate = c.rate /\ d.watch = c.watch
      /\ d.trackers = c.trackers /\ d.done = c.done /\ d.allow = c.allow
      /\ d.debug = DebugTorrent
  BY DEF Config
<1>3. Effective(c) = Corrected(Defaulted(d))
  BY DEF Effective
<1>. HIDE DEF d
<1>4. /\ Defaulted(d) \in Config /\ SameButTrackers(Defaulted(d), d)
      /\ d.trackers \in {Defaulted(d).trackers, {}}
  BY <1>1, DefaultedType
<1>5. /\ Effective(c) \in Config /\ SameButRate(Effective(c), Defaulted(d))
      /\ Effective(c).rate = IF Defaulted(d).rate \in Unrecognised THEN Unlimited ELSE Defaulted(d).rate
  BY <1>3, <1>4, CorrectedType
<1>6. Corrected(c).rate = IF c.rate \in Unrecognised THEN Unlimited ELSE c.rate
  BY CorrectedType
<1>. QED  BY <1>2, <1>4, <1>5, <1>6 DEF SameButTrackers, SameButRate, Agree

LEMMA InitConfType == TypeOK => InitConf \in Config
BY DefaultAssumption DEF TypeOK, InitConf

(* Field by field, a merged configuration has values of the three.          *)
LEMMA MergeType ==
    ASSUME NEW v \in Config, NEW old \in Config, NEW new \in Config
    PROVE  Merge(v, old, new) \in Config
<1>1. /\ Merge(v, old, new).port \in Port
      /\ Merge(v, old, new).dir \in Dir
      /\ Merge(v, old, new).rate \in Rate
      /\ Merge(v, old, new).watch \in Watch
      /\ Merge(v, old, new).trackers \in TrackerLists
      /\ Merge(v, old, new).done \in Cmd
  BY ConfigFields DEF Merge
<1>2. Merge(v, old, new).allow \in BOOLEAN
  <2>1. CASE old.allow = new.allow
    BY <2>1, ConfigFields DEF Merge
  <2>2. CASE old.allow # new.allow
    BY <2>2, ConfigFields DEF Merge
  <2>. QED  BY <2>1, <2>2
<1>3. Merge(v, old, new).debug \in BOOLEAN
  <2>1. CASE old.debug = new.debug
    BY <2>1, ConfigFields DEF Merge
  <2>2. CASE old.debug # new.debug
    BY <2>2, ConfigFields DEF Merge
  <2>. QED  BY <2>1, <2>2
<1>4. Merge(v, old, new) = [port |-> Merge(v, old, new).port, dir |-> Merge(v, old, new).dir,
        rate |-> Merge(v, old, new).rate, debug |-> Merge(v, old, new).debug,
        watch |-> Merge(v, old, new).watch, trackers |-> Merge(v, old, new).trackers,
        done |-> Merge(v, old, new).done, allow |-> Merge(v, old, new).allow]
  BY DEF Merge
<1>. QED  BY <1>1, <1>2, <1>3, <1>4 DEF Config

LEMMA TypeInit == Init => TypeOK
<1>. SUFFICES ASSUME Init PROVE TypeOK
  OBVIOUS
<1>1. up \in BOOLEAN /\ exiting \in BOOLEAN
  BY Zenon DEF Init
<1>. QED  BY <1>1, DefaultAssumption, InstalledAssumption DEF Init, TypeOK, PC, Parse

LEMMA TypeNext == TypeOK /\ [Next]_vars => TypeOK'
<1>. SUFFICES ASSUME TypeOK, [Next]_vars PROVE TypeOK'
  OBVIOUS
<1>a. InitConf \in Config /\ Effective(InitConf) \in Config /\ Settings(Effective(InitConf)) \in Setting
  BY InitConfType, EffectiveType, SettingsType
<1>b. Default \in Config /\ None \in {None}
  BY DefaultAssumption
<1>c. Effective(InitConf).trackers \subseteq Tracker /\ eng.trackers \subseteq Tracker
  BY <1>a, ConfigFields, ListAssumption DEF TypeOK
<1>d. Defaulted(srv) \in Config /\ Corrected(srv) \in Config
  BY DefaultedType, CorrectedType DEF TypeOK
<1>e. \A h \in Handler : Merge(viper, srv, req[h]) \in Config
  BY MergeType DEF TypeOK
<1>f. \A h \in Handler : Settings(req[h]) \in Setting /\ Corrected(req[h]) \in Config
  BY SettingsType, CorrectedType DEF TypeOK
<1>g. \A d \in Watch : WatcherOf(d) \in Watch \cup {None}
  BY DEF WatcherOf
<1>h. eng.watch \in Watch /\ InitConf.watch \in Watch
  BY <1>a, ConfigFields DEF TypeOK
<1>. USE DEF TypeOK, PC, Parse, process, parsing, request
<1>1. CASE Start
  <2>1. up' \in BOOLEAN
    BY <1>1, Zenon DEF Start
  <2>2. trackers' \subseteq Tracker /\ trouble' \subseteq Trouble
    BY <1>1, <1>c DEF Start, Unfetched, Trouble
  <2>. QED  BY <1>1, <2>1, <2>2, <1>a, <1>g, <1>h DEF Start
<1>2. CASE Stop
  <2>1. up' \in BOOLEAN /\ exiting' \in BOOLEAN
    BY <1>2, Zenon DEF Stop
  <2>. QED  BY <1>2, <2>1, <1>b DEF Stop, Trouble
<1>3. ASSUME NEW h \in Handler, NEW c \in Config, Ask(h, c) PROVE TypeOK'
  BY <1>3 DEF Ask, Trouble
<1>4. ASSUME NEW h \in Handler, Validate(h) PROVE TypeOK'
  BY <1>4, <1>b DEF Validate, Return, Needs, Need
<1>5. ASSUME NEW h \in Handler, RestartWatch(h) PROVE TypeOK'
  BY <1>5, <1>g, <1>h DEF RestartWatch
<1>6. ASSUME NEW h \in Handler, SyncViper(h) PROVE TypeOK'
  BY <1>6, <1>e DEF SyncViper
<1>7. ASSUME NEW h \in Handler, Publish(h) \/ Truncate(h) \/ Write(h) PROVE TypeOK'
  BY <1>7 DEF Publish, Truncate, Write
<1>8. ASSUME NEW h \in Handler, SaveFails(h) PROVE TypeOK'
  BY <1>8, <1>b DEF SaveFails, Return, Trouble
<1>9. ASSUME NEW h \in Handler, SetConfig(h) \/ OpenFails(h) PROVE TypeOK'
  BY <1>9 DEF SetConfig, OpenFails, Trouble
<1>10. ASSUME NEW h \in Handler, Configure(h) PROVE TypeOK'
  <2>1. CASE pc'[h] = "failed"
    <3>1. /\ pc' = [pc EXCEPT ![h] = "failed"] /\ trouble' = trouble \cup {"refused"}
          /\ UNCHANGED <<srv, req, shared>>
      BY <1>10, <2>1 DEF Configure
    <3>2. trouble' \subseteq Trouble /\ pc' \in [Handler -> PC]
      BY <3>1 DEF Trouble
    <3>3. UNCHANGED <<up, disk, viper, eng, client, lock, watcher, trackers, exiting, need, parse, list, base, asked>>
      BY <1>10 DEF Configure
    <3>. QED  BY <3>1, <3>2, <3>3
  <2>2. CASE pc'[h] # "failed"
    <3>1. /\ srv' = Defaulted(srv) /\ req' = [req EXCEPT ![h] = Defaulted(srv)]
          /\ pc' = [pc EXCEPT ![h] = "close"] /\ shared' = shared \cup {h}
          /\ trouble' = IF srv.dir \in Unusable THEN trouble \cup {"unusable"} ELSE trouble
      BY <1>10, <2>2 DEF Configure
    <3>2. srv' \in Config /\ req' \in [Handler -> Config] /\ pc' \in [Handler -> PC]
      BY <3>1, <1>d
    <3>3. trouble' \subseteq Trouble /\ shared' \subseteq Handler
      BY <3>1 DEF Trouble
    <3>. QED  BY <1>10, <3>2, <3>3 DEF Configure
  <2>. QED  BY <2>1, <2>2
<1>11. ASSUME NEW h \in Handler, CloseClient(h) \/ OpenClient(h) PROVE TypeOK'
  <2>1. CASE CloseClient(h)
    BY <2>1, <1>d, <1>f DEF CloseClient
  <2>2. CASE OpenClient(h)
    BY <2>2, <1>f DEF OpenClient
  <2>. QED  BY <1>11, <2>1, <2>2
<1>12. ASSUME NEW h \in Handler, CheckConfigured(h) PROVE TypeOK'
  <2>1. exiting' \in BOOLEAN
    BY <1>12, Zenon DEF CheckConfigured
  <2>. QED  BY <1>12, <2>1, <1>b DEF CheckConfigured, Return
<1>13. ASSUME NEW h \in Handler, After(h) PROVE TypeOK'
  BY <1>13, <1>b DEF After, Return
<1>14. ASSUME NEW h \in Handler, ParseTrackerList(h) PROVE TypeOK'
  <2>1. CASE ParseRead(h)
    <3>1. list' \in [Handler -> SUBSET Tracker] /\ trouble' \subseteq Trouble
      BY <2>1, <1>c DEF ParseRead, Unfetched, Trouble
    <3>. QED  BY <2>1, <3>1 DEF ParseRead
  <2>2. CASE AppendRead(h)
    BY <2>2 DEF AppendRead
  <2>3. CASE AppendWrite(h)
    <3>1. \A kept \in Survivors(h) : kept \subseteq Tracker
      BY DEF Survivors
    <3>2. list[h] \subseteq Tracker
      OBVIOUS
    <3>3. trackers' \subseteq Tracker
      BY <2>3, <3>1, <3>2 DEF AppendWrite
    <3>. QED  BY <2>3, <3>3 DEF AppendWrite
  <2>4. CASE ParseEnd(h)
    BY <2>4 DEF ParseEnd
  <2>. QED  BY <1>14, <2>1, <2>2, <2>3, <2>4 DEF ParseTrackerList
<1>15. CASE UNCHANGED vars
  BY <1>15 DEF vars
<1>. QED  BY <1>1, <1>2, <1>3, <1>4, <1>5, <1>6, <1>7, <1>8, <1>9, <1>10, <1>11, <1>12, <1>13, <1>14, <1>15 DEF Next, Serve

(* Type correctness of the five places that hold the configuration and of   *)
(* the requests (server_api.go 207-287, engine.go 65-159).                  *)
THEOREM TypeCorrect == Spec => []TypeOK
BY TypeInit, TypeNext, PTL DEF Spec

-----------------------------------------------------------------------------
(* DoneCmd. *)

(* Between its validation and its end a request carries the DoneCmd that    *)
(* server and engine have; a server that is down serves none.               *)
DoneInv ==
    /\ up => eng.done = srv.done
    /\ up => \A h \in Handler : pc[h] \notin {"idle", "validate"} => req[h].done = srv.done
    /\ ~up => \A h \in Handler : pc[h] = "idle"

DoneStep == up /\ up' => srv'.done = srv.done /\ eng'.done = eng.done

LEMMA DoneInvNext == TypeOK /\ DoneInv /\ [Next]_vars => DoneInv' /\ DoneStep
<1>. SUFFICES ASSUME TypeOK, DoneInv, [Next]_vars PROVE DoneInv' /\ DoneStep
  OBVIOUS
<1>a. Defaulted(srv).done = srv.done /\ Corrected(srv).done = srv.done
  BY DefaultedType, CorrectedType DEF TypeOK, SameButTrackers, SameButRate
<1>b. /\ pc \in [Handler -> PC] /\ req \in [Handler -> Config]
      /\ \A h \in Handler : Corrected(req[h]).done = req[h].done
  BY CorrectedType DEF TypeOK, SameButRate
<1>. USE <1>b DEF DoneInv, DoneStep, process, request, parsing
<1>1. CASE Start \/ Stop
  BY <1>1 DEF Start, Stop
<1>2. ASSUME NEW h \in Handler, NEW c \in Config, Ask(h, c) PROVE DoneInv' /\ DoneStep
  BY <1>2 DEF Ask
<1>3. ASSUME NEW h \in Handler, Validate(h) PROVE DoneInv' /\ DoneStep
  BY <1>3 DEF Validate, Return
<1>4. ASSUME NEW h \in Handler, RestartWatch(h) \/ SyncViper(h) PROVE DoneInv' /\ DoneStep
  BY <1>4 DEF RestartWatch, SyncViper
<1>5. ASSUME NEW h \in Handler, Publish(h) \/ Truncate(h) \/ Write(h) \/ SaveFails(h)
      PROVE  DoneInv' /\ DoneStep
  BY <1>5 DEF Publish, Truncate, Write, SaveFails, Return
<1>6. ASSUME NEW h \in Handler, SetConfig(h) \/ OpenClient(h) \/ OpenFails(h)
      PROVE  DoneInv' /\ DoneStep
  BY <1>6 DEF SetConfig, OpenClient, OpenFails
<1>7. ASSUME NEW h \in Handler, Configure(h) \/ CloseClient(h) PROVE DoneInv' /\ DoneStep
  <2>1. CASE Configure(h)
    BY <2>1, <1>a DEF Configure
  <2>2. CASE CloseClient(h)
    BY <2>2, <1>a DEF CloseClient
  <2>. QED  BY <1>7, <2>1, <2>2
<1>8. ASSUME NEW h \in Handler, CheckConfigured(h) \/ After(h) PROVE DoneInv' /\ DoneStep
  BY <1>8 DEF CheckConfigured, After, Return
<1>9. ASSUME NEW h \in Handler, ParseTrackerList(h) PROVE DoneInv' /\ DoneStep
  BY <1>9 DEF ParseTrackerList, ParseRead, AppendRead, AppendWrite, ParseEnd
<1>10. CASE UNCHANGED vars
  BY <1>10 DEF vars
<1>. QED  BY <1>1, <1>2, <1>3, <1>4, <1>5, <1>6, <1>7, <1>8, <1>9, <1>10 DEF Next, Serve

(* However many requests race, the DoneCmd of server and engine is that of  *)
(* the start until the process stops: the check of one request against an   *)
(* s.engineConfig that another replaces afterwards is still good, because   *)
(* all that get through carry the same DoneCmd (server_api.go 221-257).     *)
THEOREM DoneCmdFixedHolds == Spec => DoneCmdFixed
<1>. DEFINE Inv == TypeOK /\ DoneInv
<1>1. Init => Inv
  BY TypeInit DEF Init, DoneInv
<1>2. Inv /\ [Next]_vars => Inv' /\ DoneStep
  BY TypeNext, DoneInvNext
<1>3. Spec => [][DoneStep]_vars
  BY <1>1, <1>2, PTL DEF Spec
<1>. QED  BY <1>3, PTL DEF DoneCmdFixed, DoneStep

-----------------------------------------------------------------------------
(* The client. *)

LEMMA ClientOrExitNext == TypeOK /\ ClientOrExit /\ [Next]_vars => ClientOrExit'
<1>. SUFFICES ASSUME TypeOK, ClientOrExit, [Next]_vars PROVE ClientOrExit'
  OBVIOUS
<1>a. \A h \in Handler : h # None /\ Settings(req[h]) # None
  BY SettingsType, NoneAssumption DEF TypeOK
<1>b. pc \in [Handler -> PC] /\ Settings(Effective(InitConf)) # None
  BY InitConfType, EffectiveType, SettingsType, NoneAssumption DEF TypeOK
<1>. USE <1>b DEF ClientOrExit, process, request, parsing
<1>1. CASE Start \/ Stop
  BY <1>1, <1>a DEF Start, Stop
<1>2. ASSUME NEW h \in Handler, NEW c \in Config, Ask(h, c) PROVE ClientOrExit'
  BY <1>2 DEF Ask
<1>3. ASSUME NEW h \in Handler, Validate(h) \/ RestartWatch(h) \/ SyncViper(h) \/ Publish(h)
      PROVE  ClientOrExit'
  BY <1>3 DEF Validate, RestartWatch, SyncViper, Publish, Return
<1>4. ASSUME NEW h \in Handler, Truncate(h) \/ Write(h) \/ SaveFails(h) \/ SetConfig(h) \/ Configure(h)
      PROVE  ClientOrExit'
  BY <1>4 DEF Truncate, Write, SaveFails, SetConfig, Configure, Return
<1>5. ASSUME NEW h \in Handler, CloseClient(h) \/ OpenClient(h) \/ OpenFails(h) PROVE ClientOrExit'
  BY <1>5, <1>a DEF CloseClient, OpenClient, OpenFails
<1>6. ASSUME NEW h \in Handler, CheckConfigured(h) PROVE ClientOrExit'
  BY <1>6 DEF CheckConfigured, Return
<1>7. ASSUME NEW h \in Handler, After(h) PROVE ClientOrExit'
  BY <1>7 DEF After, Return
<1>8. ASSUME NEW h \in Handler, ParseTrackerList(h) PROVE ClientOrExit'
  BY <1>8 DEF ParseTrackerList, ParseRead, AppendRead, AppendWrite, ParseEnd
<1>9. CASE UNCHANGED vars
  BY <1>9 DEF vars
<1>. QED  BY <1>1, <1>2, <1>3, <1>4, <1>5, <1>6, <1>7, <1>8, <1>9 DEF Next, Serve

(* Outside Configure the engine has a client, or the process is about to    *)
(* exit (server_api.go 243-252, engine.go 120-150).                         *)
THEOREM ClientOrExitHolds == Spec => []ClientOrExit
<1>1. Init => ClientOrExit
  BY DEF Init, ClientOrExit
<1>. QED  BY <1>1, TypeInit, TypeNext, ClientOrExitNext, PTL DEF Spec
-----------------------------------------------------------------------------
(* What was saved is what is used. *)

Harmless == {"parsing", "unusable", "unfetched"}

(* Tracker t has been appended, or some ParseTrackerList is going to, or it *)
(* may have been lost.                                                      *)
Known(t) ==
    \/ t \in trackers
    \/ \E h \in Handler : parse[h] = "spawned" /\ t \in eng.trackers
    \/ \E h \in Handler : parse[h] \in {"read", "append"} /\ t \in list[h]
    \/ "parsing" \in trouble
    \/ t \in Remote /\ "unfetched" \in trouble

AllKnown == viper.trackers = {} \/ (viper.trackers = eng.trackers /\ \A t \in eng.trackers : Known(t))

(* What holds between two requests. *)
Consistent ==
    /\ srv = eng /\ InitConf = viper /\ Agree(viper, eng)
    /\ client = Settings(eng) /\ AllKnown

(* How far request h has carried its configuration: from viper to the       *)
(* server, the file and the engine, in this order.                          *)
Carried(h) ==
    /\ pc[h] # "failed"
    /\ pc[h] \in {"validate", "watch", "sync"} => Consistent
    /\ pc[h] \in {"watch", "sync"} => need[h] = Needs(eng, req[h])
    /\ pc[h] \in {"publish", "save", "write", "set", "configure", "close"} =>
         /\ Agree(viper, Corrected(req[h]))
         /\ "trackers" \notin need[h] => AllKnown
         /\ "engine" \notin need[h] => Settings(eng) = Settings(req[h])
         /\ client = Settings(eng) /\ eng.rate \notin Unrecognised
    /\ pc[h] = "publish" => srv = eng
    /\ pc[h] \in {"save", "write", "set", "configure", "close", "open"} => srv = req[h]
    /\ pc[h] \in {"set", "configure", "close", "open"} => InitConf = viper
    /\ pc[h] = "set" => "engine" \notin need[h]
    /\ pc[h] = "close" => h \in shared
    /\ pc[h] = "open" => Agree(viper, req[h]) /\ ("trackers" \notin need[h] => AllKnown)
    /\ pc[h] = "after" =>
         /\ srv = eng /\ InitConf = viper /\ Agree(viper, eng) /\ client = Settings(eng)
         /\ "trackers" \notin need[h] => AllKnown

OneByOne == \A g, h \in Handler : Busy(g) /\ Busy(h) => g = h

(* A ParseTrackerList that nothing interferes with. *)
ParseAlone ==
    "parsing" \notin trouble =>
      \A g \in Handler : Parsing(g) =>
        /\ \A h \in Handler : ~Busy(h) /\ (Parsing(h) => g = h)
        /\ parse[g] = "append" => base[g] = trackers

SavedInv ==
    /\ ~up => AtRest
    /\ up /\ trouble \subseteq Harmless =>
         /\ OneByOne /\ ParseAlone
         /\ (\A h \in Handler : ~Busy(h)) => Consistent
         /\ \A h \in Handler : Carried(h)

(* Agreement with a configuration whose default list or rate is put in.     *)
LEMMA AgreeDefaulted ==
    ASSUME NEW v, NEW c \in Config, Agree(v, Corrected(c))
    PROVE  Agree(v, Corrected(Defaulted(c)))
<1>1. /\ Defaulted(c) \in Config /\ SameButTrackers(Defaulted(c), c)
      /\ c.trackers \in {Defaulted(c).trackers, {}}
  BY DefaultedType
<1>2. /\ SameButRate(Corrected(c), c)
      /\ Corrected(c).rate = IF c.rate \in Unrecognised THEN Unlimited ELSE c.rate
  BY CorrectedType
<1>3. /\ SameButRate(Corrected(Defaulted(c)), Defaulted(c))
      /\ Corrected(Defaulted(c)).rate
           = IF Defaulted(c).rate \in Unrecognised THEN Unlimited ELSE Defaulted(c).rate
  BY <1>1, CorrectedType
<1>. QED  BY <1>1, <1>2, <1>3 DEF SameButTrackers, SameButRate, Agree

LEMMA AgreeRate ==
    ASSUME NEW v \in Config, NEW c \in Config, Agree(v, c)
    PROVE  c.rate \notin Unrecognised
BY CorrectedType, RateAssumption DEF Agree

(* SyncViper brings viper in line with the new configuration, if it was in  *)
(* line with the one that is compared with it.                              *)
LEMMA AgreeMerge ==
    ASSUME NEW v \in Config, NEW old \in Config, NEW new \in Config, Agree(v, old)
    PROVE  /\ Agree(Merge(v, old, new), Corrected(new))
           /\ old.trackers = new.trackers => Merge(v, old, new).trackers = v.trackers
<1>. DEFINE m == Merge(v, old, new)
<1>1. /\ Corrected(m).rate = IF m.rate \in Unrecognised THEN Unlimited ELSE m.rate
      /\ Corrected(v).rate = IF v.rate \in Unrecognised THEN Unlimited ELSE v.rate
      /\ Corrected(new).rate = IF new.rate \in Unrecognised THEN Unlimited ELSE new.rate
      /\ SameButRate(Corrected(new), new)
  BY MergeType, CorrectedType
<1>2. m.rate = IF old.rate = new.rate THEN v.rate ELSE new.rate
  BY DEF Merge
<1>3. old.rate \notin Unrecognised
  BY AgreeRate
<1>4. Corrected(m).rate = Corrected(new).rate
  <2>1. CASE old.rate = new.rate
    BY <2>1, <1>1, <1>2, <1>3 DEF Agree
  <2>2. CASE old.rate # new.rate
    BY <2>2, <1>1, <1>2
  <2>. QED  BY <2>1, <2>2
<1>5. /\ m.port = new.port /\ m.dir = new.dir /\ m.watch = new.watch
      /\ m.done = new.done /\ m.allow = new.allow
      /\ m.debug = new.debug \/ DebugTorrent = new.debug
      /\ m.trackers \in {new.trackers, {}}
      /\ old.trackers = new.trackers => m.trackers = v.trackers
  BY DEF Merge, Agree
<1>. QED  BY <1>1, <1>4, <1>5 DEF Agree, SameButRate

(* While h alone is served, what is to be shown is what h has carried.      *)
LEMMA ServedAlone ==
    ASSUME NEW h \in Handler, up', Carried(h)', ParseAlone',
           \A g \in Handler \ {h} : pc'[g] = "idle",
           pc'[h] = "idle" => Consistent'
    PROVE  SavedInv'
<1>1. OneByOne'
  BY DEF OneByOne, Busy
<1>2. \A g \in Handler : Carried(g)'
  <2>1. ASSUME NEW g \in Handler \ {h} PROVE Carried(g)'
    <3>1. pc'[g] = "idle"
      OBVIOUS
    <3>. QED  BY <3>1 DEF Carried
  <2>. QED  BY <2>1
<1>. QED  BY <1>1, <1>2 DEF SavedInv, Busy

(* What is known stays known while viper, the engine, the trackers and the  *)
(* calls of ParseTrackerList stay.                                          *)
LEMMA KnownStays ==
    ASSUME AllKnown, viper'.trackers = viper.trackers, eng'.trackers = eng.trackers,
           UNCHANGED <<trackers, parse, list>>, trouble \subseteq trouble'
    PROVE  AllKnown'
BY DEF AllKnown, Known

LEMMA SavedInvNext == TypeOK /\ SavedInv /\ [Next]_vars => SavedInv'
<1>. SUFFICES ASSUME TypeOK, SavedInv, [Next]_vars PROVE SavedInv'
  OBVIOUS
<1>a. /\ pc \in [Handler -> PC] /\ req \in [Handler -> Config]
      /\ need \in [Handler -> SUBSET Need] /\ parse \in [Handler -> Parse]
      /\ list \in [Handler -> SUBSET Tracker] /\ base \in [Handler -> SUBSET Tracker]
      /\ viper \in Config /\ srv \in Config /\ eng \in Config
      /\ \A h \in Handler : req[h] \in Config
  BY DEF TypeOK
<1>c. ASSUME NEW h \in Handler, up, trouble \subseteq Harmless, pc[h] # "idle"
      PROVE  Carried(h) /\ ParseAlone /\ \A g \in Handler \ {h} : pc[g] = "idle"
  BY <1>c DEF SavedInv, OneByOne, Busy
<1>. USE DEF process, parsing, request
<1>1. CASE Start
  <2>1. /\ viper' = InitConf /\ srv' = Effective(InitConf) /\ eng' = Effective(InitConf)
        /\ client' = Settings(Effective(InitConf)) /\ disk' = disk /\ UNCHANGED <<pc, parse>> /\ up'
    BY <1>1 DEF Start
  <2>2. InitConf \in Config /\ Effective(InitConf) \in Config /\ Agree(InitConf, Effective(InitConf))
    BY InitConfType, EffectiveType
  <2>3. InitConf' = viper'
    BY <2>1 DEF InitConf
  <2>4. Agree(viper, eng)' /\ client' = Settings(eng')
    BY <2>1, <2>2 DEF Agree
  <2>5. AllKnown'
    <3>1. viper'.trackers = {} \/ viper'.trackers = eng'.trackers
      BY <2>4 DEF Agree
    <3>2. ASSUME NEW t \in eng'.trackers PROVE Known(t)'
      BY <1>1, <2>1, <3>2 DEF Start, Unfetched, Known
    <3>. QED  BY <3>1, <3>2 DEF AllKnown
  <2>6. Consistent'
    BY <2>1, <2>3, <2>4, <2>5 DEF Consistent
  <2>7. \A h \in Handler : pc'[h] = "idle" /\ parse'[h] = "none"
    BY <1>1, <2>1 DEF Start, SavedInv, AtRest, Busy, Parsing
  <2>. QED  BY <2>1, <2>6, <2>7 DEF SavedInv, OneByOne, Busy, Parsing, ParseAlone, Carried
<1>2. CASE Stop
  BY <1>2 DEF Stop, SavedInv, AtRest, Busy, Parsing
<1>3. ASSUME NEW h \in Handler, NEW c \in Config, Ask(h, c) PROVE SavedInv'
  <2>. SUFFICES ASSUME trouble' \subseteq Harmless PROVE SavedInv'
    BY <1>3 DEF Ask, SavedInv
  <2>1. /\ up /\ up' /\ trouble \subseteq trouble' /\ trouble \subseteq Harmless
        /\ \A g \in Handler : ~Busy(g)
        /\ "parsing" \notin trouble' => \A g \in Handler : ~Parsing(g)
    BY <1>3 DEF Ask, Harmless
  <2>2. Consistent
    BY <2>1 DEF SavedInv
  <2>3. UNCHANGED <<disk, viper, srv, eng, client, trackers, parse, list, base>> /\ pc' = [pc EXCEPT ![h] = "validate"]
    BY <1>3 DEF Ask
  <2>4. Consistent'
    BY <2>1, <2>2, <2>3, KnownStays DEF Consistent, InitConf, Agree
  <2>5. Carried(h)' /\ \A g \in Handler \ {h} : pc'[g] = "idle"
    BY <1>a, <2>1, <2>3, <2>4 DEF Carried, Busy
  <2>6. ParseAlone'
    BY <2>1, <2>3 DEF ParseAlone, Parsing
  <2>. QED  BY <1>a, <2>1, <2>3, <2>4, <2>5, <2>6, ServedAlone
<1>4. ASSUME NEW h \in Handler, Serve(h) PROVE SavedInv'
  <2>1. /\ up /\ up' /\ trouble \subseteq trouble' /\ pc[h] # "idle" /\ \A g \in Handler \ {h} : pc'[g] = pc[g]
        /\ \A g \in Handler \ {h} : parse'[g] = parse[g]
        /\ UNCHANGED <<trackers, list, base>>
        /\ parse'[h] # parse[h] => pc'[h] = "idle" /\ parse'[h] = "spawned"
    BY <1>4, <1>a DEF Serve, Validate, RestartWatch, SyncViper, Publish, Truncate, Write, SaveFails,
         SetConfig, Configure, CloseClient, OpenClient, OpenFails, CheckConfigured, After, Return
  <2>. SUFFICES ASSUME trouble' \subseteq Harmless PROVE SavedInv'
    BY <2>1 DEF SavedInv
  <2>2. Carried(h) /\ ParseAlone /\ \A g \in Handler \ {h} : pc[g] = "idle" /\ pc'[g] = "idle"
    BY <1>c, <2>1
  <2>a. ParseAlone'
    <3>. SUFFICES ASSUME "parsing" \notin trouble', NEW g \in Handler, Parsing(g)'
                  PROVE  /\ \A f \in Handler : ~Busy(f)' /\ (Parsing(f)' => g = f)
                         /\ parse'[g] = "append" => base'[g] = trackers'
      BY DEF ParseAlone
    <3>1. \A f \in Handler : ~Parsing(f)
      BY <2>1, <2>2 DEF ParseAlone, Busy
    <3>2. g = h /\ parse'[h] # parse[h]
      BY <2>1, <3>1 DEF Parsing
    <3>. QED  BY <2>1, <2>2, <3>1, <3>2 DEF Parsing, Busy
  <2>. SUFFICES Carried(h)' /\ (pc'[h] = "idle" => Consistent')
    BY <2>1, <2>2, <2>a, ServedAlone
  <2>. USE <1>a, <2>1, <2>2
  <2>3. ASSUME UNCHANGED <<disk, viper, srv, eng, client, trackers, parse, list>>, Consistent
        PROVE  Consistent'
    BY <2>3, KnownStays DEF Consistent, InitConf, Agree
  <2>4. CASE Validate(h)
    <3>1. UNCHANGED <<disk, viper, srv, eng, client, trackers, parse, list>> /\ Consistent
      BY <2>4 DEF Validate, Carried
    <3>2. Consistent'
      BY <3>1, <2>3
    <3>3. srv = eng
      BY <3>1 DEF Consistent
    <3>. QED  BY <2>4, <3>1, <3>2, <3>3 DEF Validate, Return, Carried, Needs
  <2>5. CASE RestartWatch(h)
    <3>1. UNCHANGED <<disk, viper, srv, eng, client, trackers, parse, list>> /\ Consistent
      BY <2>5 DEF RestartWatch, Carried
    <3>. QED  BY <2>5, <3>1, <2>3 DEF RestartWatch, Carried, Needs
  <2>6. CASE SyncViper(h)
    <3>1. /\ UNCHANGED <<disk, srv, eng, client, trackers, parse, list, req, need>>
          /\ viper' = Merge(viper, srv, req[h]) /\ pc'[h] = "publish"
      BY <2>6 DEF SyncViper
    <3>2. Consistent /\ need[h] = Needs(eng, req[h])
      BY <2>6 DEF SyncViper, Carried
    <3>3. srv = eng /\ Agree(viper, srv) /\ client = Settings(eng) /\ AllKnown
      BY <3>2 DEF Consistent
    <3>4. /\ Agree(viper', Corrected(req'[h]))
          /\ srv.trackers = req[h].trackers => viper'.trackers = viper.trackers
      BY <3>1, <3>3, AgreeMerge
    <3>5. "trackers" \notin need[h] => AllKnown'
      BY <3>1, <3>2, <3>3, <3>4, KnownStays DEF Needs, Need
    <3>6. "engine" \notin need[h] => Settings(eng) = Settings(req[h])
      BY <3>2 DEF Needs, Need
    <3>7. eng.rate \notin Unrecognised
      BY <3>3, AgreeRate
    <3>. QED  BY <3>1, <3>3, <3>4, <3>5, <3>6, <3>7 DEF Carried
  <2>7. CASE Publish(h) \/ Truncate(h) \/ Write(h)
    <3>1. UNCHANGED <<viper, eng, client, trackers, parse, list, req, need>>
      BY <2>7 DEF Publish, Truncate, Write
    <3>2. AllKnown => AllKnown'
      BY <3>1, KnownStays
    <3>3. CASE Publish(h) \/ Truncate(h)
      BY <3>1, <3>2, <3>3 DEF Publish, Truncate, Carried
    <3>4. CASE Write(h)
      <4>1. InitConf' = viper'
        BY <3>4, NoneAssumption DEF Write, InitConf
      <4>. QED  BY <3>1, <3>2, <3>4, <4>1 DEF Write, Carried
    <3>. QED  BY <2>7, <3>3, <3>4
  <2>8. CASE SaveFails(h) \/ OpenFails(h) \/ CheckConfigured(h)
    BY <2>8 DEF SaveFails, OpenFails, CheckConfigured, Carried, Harmless
  <2>9. CASE SetConfig(h)
    <3>1. /\ UNCHANGED <<disk, viper, srv, client, trackers, parse, list, req, need>>
          /\ eng' = srv /\ pc[h] = "set" /\ pc'[h] = "after"
      BY <2>9 DEF SetConfig
    <3>2. /\ srv = req[h] /\ Agree(viper, Corrected(req[h])) /\ InitConf = viper
          /\ Settings(eng) = Settings(req[h]) /\ eng.rate \notin Unrecognised
          /\ client = Settings(eng) /\ ("trackers" \notin need[h] => AllKnown)
      BY <3>1 DEF Carried
    <3>3. req[h].rate \notin Unrecognised
      BY <3>2 DEF Settings
    <3>4. Corrected(req[h]) = req[h]
      BY <3>3 DEF Corrected
    <3>5. "trackers" \notin need[h] => AllKnown'
      <4>1. CASE viper.trackers = {}
        BY <3>1, <4>1 DEF AllKnown
      <4>2. CASE viper.trackers # {}
        BY <3>1, <3>2, <3>4, <4>2, KnownStays DEF Agree, AllKnown
      <4>. QED  BY <4>1, <4>2
    <3>6. InitConf' = viper' /\ Agree(viper', eng') /\ client' = Settings(eng')
      BY <3>1, <3>2, <3>4 DEF InitConf
    <3>. QED  BY <3>1, <3>5, <3>6 DEF Carried
  <2>10. CASE Configure(h)
    <3>1. /\ UNCHANGED <<disk, viper, eng, client, trackers, parse, list, need>>
          /\ srv' = Defaulted(srv) /\ req'[h] = Defaulted(srv) /\ h \in shared'
          /\ pc[h] = "configure" /\ pc'[h] = "close"
      BY <2>10 DEF Configure, Harmless
    <3>2. AllKnown => AllKnown'
      BY <3>1, KnownStays
    <3>3. srv = req[h] /\ Agree(viper', Corrected(req'[h]))
      BY <3>1, AgreeDefaulted DEF Carried
    <3>4. Settings(req'[h]) = Settings(req[h])
      BY <3>1, <3>3, DefaultedType DEF SameButTrackers, Settings
    <3>5. InitConf' = viper'
      BY <3>1 DEF Carried, InitConf
    <3>. QED  BY <3>1, <3>2, <3>3, <3>4, <3>5 DEF Carried
  <2>11. CASE CloseClient(h)
    <3>1. /\ UNCHANGED <<disk, viper, eng, trackers, parse, list, need>>
          /\ req'[h] = Corrected(req[h]) /\ pc[h] = "close" /\ pc'[h] = "open"
          /\ srv' = IF h \in shared THEN Corrected(srv) ELSE srv
      BY <2>11 DEF CloseClient
    <3>2. (AllKnown => AllKnown') /\ InitConf' = InitConf
      BY <3>1, KnownStays DEF InitConf
    <3>3. /\ srv = req[h] /\ h \in shared /\ InitConf = viper
          /\ Agree(viper, Corrected(req[h])) /\ ("trackers" \notin need[h] => AllKnown)
      BY <3>1 DEF Carried
    <3>4. srv' = req'[h] /\ Agree(viper', req'[h]) /\ InitConf' = viper'
      BY <3>1, <3>2, <3>3
    <3>. QED  BY <3>1, <3>2, <3>3, <3>4 DEF Carried
  <2>12. CASE OpenClient(h)
    <3>1. /\ UNCHANGED <<disk, viper, srv, trackers, parse, list, req, need>>
          /\ eng' = req[h] /\ client' = Settings(req[h]) /\ pc[h] = "open" /\ pc'[h] = "after"
      BY <2>12 DEF OpenClient
    <3>2. /\ srv = req[h] /\ Agree(viper, req[h]) /\ InitConf = viper
          /\ ("trackers" \notin need[h] => AllKnown)
      BY <3>1 DEF Carried
    <3>3. "trackers" \notin need[h] => AllKnown'
      <4>1. CASE viper.trackers = {}
        BY <3>1, <4>1 DEF AllKnown
      <4>2. CASE viper.trackers # {}
        BY <3>1, <3>2, <4>2, KnownStays DEF Agree, AllKnown
      <4>. QED  BY <4>1, <4>2
    <3>4. InitConf' = viper' /\ Agree(viper', eng') /\ client' = Settings(eng')
      BY <3>1, <3>2 DEF InitConf
    <3>. QED  BY <3>1, <3>2, <3>3, <3>4 DEF Carried
  <2>13. CASE After(h)
    <3>1. /\ UNCHANGED <<disk, viper, srv, eng, client, trackers, list>> /\ pc[h] = "after" /\ pc'[h] = "idle"
          /\ parse' = IF "trackers" \in need[h] THEN [parse EXCEPT ![h] = "spawned"] ELSE parse
      BY <2>13 DEF After, Return
    <3>2. /\ srv = eng /\ InitConf = viper /\ Agree(viper, eng) /\ client = Settings(eng)
          /\ "trackers" \notin need[h] => AllKnown
      BY <3>1 DEF Carried
    <3>3. AllKnown'
      <4>1. CASE "trackers" \notin need[h]
        BY <3>1, <3>2, <4>1, KnownStays
      <4>2. CASE "trackers" \in need[h]
        BY <3>1, <3>2, <4>2 DEF AllKnown, Known, Agree
      <4>. QED  BY <4>1, <4>2
    <3>4. Consistent'
      BY <3>1, <3>2, <3>3 DEF Consistent, InitConf
    <3>. QED  BY <3>1, <3>4 DEF Carried
  <2>. QED  BY <1>4, <2>4, <2>5, <2>6, <2>7, <2>8, <2>9, <2>10, <2>11, <2>12, <2>13 DEF Serve
<1>5. ASSUME NEW g \in Handler, ParseTrackerList(g) PROVE SavedInv'
  <2>1. /\ up /\ up' /\ UNCHANGED <<disk, viper, srv, eng, client, pc, req, need, shared>>
        /\ trouble \subseteq trouble' /\ trouble' \subseteq trouble \cup {"unfetched"}
    BY <1>5 DEF ParseTrackerList, ParseRead, AppendRead, AppendWrite, ParseEnd, Unfetched
  <2>. SUFFICES ASSUME trouble' \subseteq Harmless PROVE SavedInv'
    BY <2>1 DEF SavedInv
  <2>2. /\ OneByOne /\ ParseAlone
        /\ (\A h \in Handler : ~Busy(h)) => Consistent
        /\ \A h \in Handler : Carried(h)
    BY <2>1 DEF SavedInv
  <2>3. Parsing(g) /\ (parse[g] = "append" /\ "parsing" \notin trouble => base[g] = trackers)
    BY <1>5, <2>2 DEF ParseTrackerList, ParseRead, AppendRead, AppendWrite, ParseEnd, Parsing, ParseAlone
  <2>4. ASSUME NEW t, Known(t), t \in eng.trackers PROVE Known(t)'
    <3>1. CASE ParseRead(g)
      <4>1. PICK lost \in SUBSET (eng.trackers \cap Remote) :
              list' = [list EXCEPT ![g] = eng.trackers \ lost] /\ trouble' = trouble \cup Unfetched(lost)
        BY <3>1 DEF ParseRead
      <4>2. parse'[g] = "read" /\ list'[g] = eng.trackers \ lost
        BY <1>a, <3>1, <4>1 DEF ParseRead
      <4>3. CASE t \in lost
        BY <4>1, <4>3 DEF Known, Unfetched
      <4>4. CASE t \notin lost
        BY <2>4, <4>2, <4>4 DEF Known
      <4>. QED  BY <4>3, <4>4
    <3>2. CASE AppendRead(g)
      BY <1>a, <2>4, <3>2 DEF AppendRead, Known
    <3>3. CASE AppendWrite(g)
      <4>1. PICK u \in list[g], kept \in Survivors(g) :
              trackers' = kept \cup {u} /\ list' = [list EXCEPT ![g] = @ \ {u}]
        BY <3>3 DEF AppendWrite
      <4>2. /\ parse' = [parse EXCEPT ![g] = "read"] /\ parse[g] = "append"
            /\ UNCHANGED <<eng, trouble>>
        BY <3>3 DEF AppendWrite
      <4>3. CASE "parsing" \in trouble
        BY <4>2, <4>3 DEF Known
      <4>4. CASE "parsing" \notin trouble
        <5>1. kept = trackers
          BY <2>3, <4>1, <4>2, <4>4 DEF Survivors
        <5>2. t \in trackers \/ t = u => Known(t)'
          BY <4>1, <5>1 DEF Known
        <5>3. ASSUME NEW h \in Handler, parse[h] \in {"read", "append"}, t \in list[h], t # u PROVE Known(t)'
          BY <1>a, <4>1, <4>2, <5>3 DEF Known
        <5>4. ASSUME NEW h \in Handler, parse[h] = "spawned" PROVE Known(t)'
          BY <1>a, <2>4, <4>2, <5>4 DEF Known
        <5>. QED  BY <2>4, <4>2, <5>2, <5>3, <5>4 DEF Known
      <4>. QED  BY <4>3, <4>4
    <3>4. CASE ParseEnd(g)
      BY <1>a, <2>4, <3>4 DEF ParseEnd, Known
    <3>. QED  BY <1>5, <3>1, <3>2, <3>3, <3>4 DEF ParseTrackerList
  <2>5. AllKnown => AllKnown'
    BY <2>1, <2>4 DEF AllKnown
  <2>6. Consistent => Consistent'
    BY <2>1, <2>5 DEF Consistent, InitConf
  <2>7. ParseAlone'
    <3>. SUFFICES ASSUME "parsing" \notin trouble', NEW f \in Handler, Parsing(f)'
                  PROVE  /\ \A h \in Handler : ~Busy(h)' /\ (Parsing(h)' => f = h)
                         /\ parse'[f] = "append" => base'[f] = trackers'
      BY DEF ParseAlone
    <3>1. \A h \in Handler : ~Busy(h) /\ (Parsing(h) => g = h)
      BY <2>1, <2>2, <2>3 DEF ParseAlone
    <3>2. \A h \in Handler : Parsing(h)' => g = h
      BY <1>5, <1>a, <3>1 DEF ParseTrackerList, ParseRead, AppendRead, AppendWrite, ParseEnd, Parsing
    <3>3. parse'[g] = "append" => base'[g] = trackers'
      BY <1>5, <1>a DEF ParseTrackerList, ParseRead, AppendRead, AppendWrite, ParseEnd
    <3>. QED  BY <2>1, <3>1, <3>2, <3>3 DEF Busy
  <2>8. ASSUME NEW h \in Handler, Carried(h) PROVE Carried(h)'
    BY <2>1, <2>5, <2>6, <2>8 DEF Carried, InitConf
  <2>. QED  BY <2>1, <2>2, <2>6, <2>7, <2>8 DEF SavedInv, OneByOne, Busy
<1>6. CASE UNCHANGED vars
  <2>1. UNCHANGED <<up, disk, viper, srv, eng, client, trackers, pc, req, need, shared, parse, list, base, trouble>>
    BY <1>6 DEF vars
  <2>2. AllKnown => AllKnown'
    BY <2>1, KnownStays
  <2>3. Consistent => Consistent'
    BY <2>1, <2>2 DEF Consistent, InitConf
  <2>4. ASSUME NEW h \in Handler, Carried(h) PROVE Carried(h)'
    BY <2>1, <2>2, <2>3, <2>4 DEF Carried, InitConf
  <2>5. ParseAlone => ParseAlone'
    BY <2>1 DEF ParseAlone, Parsing, Busy
  <2>. QED  BY <2>1, <2>3, <2>4, <2>5 DEF SavedInv, OneByOne, Busy, Parsing, AtRest
<1>. QED  BY <1>1, <1>2, <1>3, <1>4, <1>5, <1>6 DEF Next

(* After requests that came one by one, were not refused and did not fail,  *)
(* file, server, engine and client agree, for any configurations, any       *)
(* number of requests and any fetching of tracker lists (apiConfigure,      *)
(* server_api.go 207-287).                                                  *)
THEOREM SavedIsUsedHolds == Spec => []SavedIsUsed
<1>1. Init => SavedInv
  BY DEF Init, SavedInv, AtRest, Busy, Parsing
<1>2. SavedInv => SavedIsUsed
  <2>. SUFFICES ASSUME SavedInv, up, AtRest, trouble \subseteq Harmless
                PROVE  /\ srv = eng /\ client = Settings(eng)
                       /\ Agree(InitConf, eng)
                       /\ \A t \in InitConf.trackers :
                            t \in trackers \/ "parsing" \in trouble \/ (t \in Remote /\ "unfetched" \in trouble)
    BY DEF SavedIsUsed, Harmless
  <2>1. Consistent
    BY DEF SavedInv, AtRest
  <2>2. ASSUME NEW t \in InitConf.trackers
        PROVE  t \in trackers \/ "parsing" \in trouble \/ (t \in Remote /\ "unfetched" \in trouble)
    BY <2>1 DEF Consistent, AllKnown, Known, AtRest, Parsing
  <2>. QED  BY <2>1, <2>2 DEF Consistent
<1>. QED  BY <1>1, <1>2, TypeInit, TypeNext, SavedInvNext, PTL DEF Spec
-----------------------------------------------------------------------------
(* What a file that Run refuses comes from. *)

Faults == {"refused", "unusable", "overlap", "unsaved", "crash"}

(* How far a configuration that Run refuses gets: Validate has seen that it *)
(* needs a new client, and Configure, which comes next after the file is    *)
(* written, refuses it or takes it with a directory it should not.          *)
BadCarried(h) ==
    /\ pc[h] \in {"watch", "sync", "publish", "save", "write", "configure"} =>
         (~Startable(req[h]) => "engine" \in need[h])
    /\ ~Startable(viper) => pc[h] \in {"publish", "save", "write", "configure"} /\ ~Startable(req[h])
    /\ ~Startable(srv) => pc[h] \in {"save", "write", "configure"}
    /\ ~Startable(InitConf) =>
         (pc[h] = "write" /\ disk = Torn) \/ (pc[h] = "configure" /\ ~Startable(req[h]))
    /\ pc[h] \in {"save", "write", "configure"} => srv = req[h]

AllStartable == Startable(viper) /\ Startable(srv) /\ Startable(InitConf)

BadInv ==
    /\ ~up => AtRest
    /\ ~up /\ trouble \cap Faults = {} => Startable(InitConf)
    /\ up /\ trouble \cap Faults = {} =>
         /\ OneByOne
         /\ (\A h \in Handler : ~Busy(h)) => AllStartable
         /\ \A h \in Handler : Busy(h) => BadCarried(h)

(* Neither the default list nor a corrected rate matters to Run.            *)
LEMMA StartableStays ==
    ASSUME NEW c \in Config
    PROVE  /\ Startable(Defaulted(c)) <=> Startable(c)
           /\ Startable(Corrected(c)) <=> Startable(c)
           /\ Startable(Effective(c)) <=> Startable(c)
BY DefaultedType, CorrectedType, EffectiveType DEF SameButTrackers, SameButRate, Startable

(* Values that one configuration has from the file and from a request.      *)
LEMMA StartableMerge ==
    ASSUME NEW v, NEW old, NEW new, Startable(v), Startable(new)
    PROVE  Startable(Merge(v, old, new))
BY DEF Startable, Merge

LEMMA NeedsEngine ==
    ASSUME NEW old, NEW new, Startable(old), ~Startable(new)
    PROVE  "engine" \in Needs(old, new)
<1>1. old.port # new.port \/ old.dir # new.dir
  BY DEF Startable
<1>2. Settings(old) # Settings(new)
  BY <1>1 DEF Settings
<1>. QED  BY <1>2 DEF Needs, Need

LEMMA BadInvNext == TypeOK /\ BadInv /\ [Next]_vars => BadInv'
<1>. SUFFICES ASSUME TypeOK, BadInv, [Next]_vars PROVE BadInv'
  OBVIOUS
<1>a. /\ pc \in [Handler -> PC] /\ req \in [Handler -> Config] /\ need \in [Handler -> SUBSET Need]
      /\ viper \in Config /\ srv \in Config /\ InitConf \in Config
      /\ \A h \in Handler : req[h] \in Config
      /\ viper # Torn /\ (disk' = disk => InitConf' = InitConf)
      /\ disk' = viper => InitConf' = viper
  BY InitConfType, NoneAssumption DEF TypeOK, InitConf
<1>c. ASSUME NEW h \in Handler, up, trouble \cap Faults = {}, pc[h] # "idle"
      PROVE  BadCarried(h) /\ \A g \in Handler \ {h} : pc[g] = "idle"
  BY <1>c DEF BadInv, OneByOne, Busy
(* While h alone is served. *)
<1>d. ASSUME NEW h \in Handler, up', \A g \in Handler \ {h} : pc'[g] = "idle",
             pc'[h] = "idle" => AllStartable', pc'[h] # "idle" => BadCarried(h)'
      PROVE  BadInv'
  BY <1>d DEF BadInv, OneByOne, Busy
<1>1. CASE Start
  <2>1. up' /\ InitConf' = InitConf /\ viper' = InitConf /\ srv' = Effective(InitConf) /\ Startable(InitConf)
        /\ pc' = pc
    BY <1>1, <1>a DEF Start, request
  <2>2. trouble' \cap Faults = {} /\ \A h \in Handler : pc'[h] = "idle"
    BY <1>1, <2>1 DEF Start, Unfetched, Faults, BadInv, AtRest, Busy
  <2>. QED  BY <1>1, <1>a, <2>1, <2>2, StartableStays DEF BadInv, OneByOne, Busy, AllStartable
<1>2. CASE Stop
  <2>1. ~up' /\ AtRest'
    BY <1>2 DEF Stop, AtRest, Busy, Parsing
  <2>2. trouble' \cap Faults = {} => AtRest /\ trouble \cap Faults = {} /\ up
    BY <1>2 DEF Stop, Faults
  <2>3. InitConf' = InitConf
    BY <1>2, <1>a DEF Stop
  <2>. QED  BY <2>1, <2>2, <2>3 DEF BadInv, AtRest, AllStartable
<1>3. ASSUME NEW h \in Handler, NEW c \in Config, Ask(h, c) PROVE BadInv'
  <2>1. /\ up /\ up' /\ trouble \subseteq trouble' /\ pc' = [pc EXCEPT ![h] = "validate"]
        /\ UNCHANGED <<viper, srv>> /\ InitConf' = InitConf
    BY <1>3, <1>a DEF Ask, process
  <2>. SUFFICES ASSUME trouble' \cap Faults = {} PROVE BadInv'
    BY <2>1 DEF BadInv
  <2>2. trouble \cap Faults = {} /\ \A g \in Handler : ~Busy(g)
    BY <1>3, <2>1 DEF Ask, Faults
  <2>3. AllStartable /\ AllStartable'
    BY <2>1, <2>2 DEF BadInv, AllStartable
  <2>. QED  BY <1>a, <1>d, <2>1, <2>2, <2>3 DEF BadCarried, AllStartable, Busy
<1>4. ASSUME NEW h \in Handler, Serve(h) PROVE BadInv'
  <2>1. up /\ up' /\ trouble \subseteq trouble' /\ pc[h] # "idle" /\ \A g \in Handler \ {h} : pc'[g] = pc[g]
    BY <1>4, <1>a DEF Serve, Validate, RestartWatch, SyncViper, Publish, Truncate, Write, SaveFails,
         SetConfig, Configure, CloseClient, OpenClient, OpenFails, CheckConfigured, After, Return
  <2>. SUFFICES ASSUME trouble' \cap Faults = {} PROVE BadInv'
    BY <2>1 DEF BadInv
  <2>2. BadCarried(h) /\ \A g \in Handler \ {h} : pc'[g] = "idle"
    BY <1>c, <2>1
  <2>. SUFFICES (pc'[h] = "idle" => AllStartable') /\ (pc'[h] # "idle" => BadCarried(h)')
    BY <1>d, <2>1, <2>2
  <2>. USE <1>a, <2>1, <2>2 DEF BadCarried, AllStartable, process, request, parsing
  <2>3. CASE Validate(h)
    BY <2>3, NeedsEngine DEF Validate, Return
  <2>4. CASE RestartWatch(h)
    BY <2>4 DEF RestartWatch
  <2>5. CASE SyncViper(h)
    BY <2>5, StartableMerge DEF SyncViper
  <2>6. CASE Publish(h)
    BY <2>6 DEF Publish
  <2>7. CASE Truncate(h)
    BY <2>7 DEF Truncate
  <2>8. CASE Write(h)
    BY <2>8 DEF Write
  <2>9. CASE SaveFails(h)
    BY <2>9 DEF SaveFails, Faults
  <2>10. CASE SetConfig(h)
    BY <2>10 DEF SetConfig
  <2>11. CASE Configure(h)
    <3>1. /\ srv.port > 0 /\ srv.dir \notin Unusable /\ srv' = Defaulted(srv)
          /\ pc[h] = "configure" /\ pc'[h] = "close"
          /\ UNCHANGED <<viper, need>> /\ InitConf' = InitConf
      BY <2>11, <1>a DEF Configure, Faults
    <3>2. Startable(srv) /\ Startable(srv') /\ srv = req[h]
      BY <3>1, StartableStays DEF Startable
    <3>. QED  BY <3>1, <3>2
  <2>12. CASE CloseClient(h)
    <3>1. Startable(srv) => Startable(srv')
      BY <2>12, StartableStays DEF CloseClient
    <3>. QED  BY <2>12, <3>1 DEF CloseClient
  <2>13. CASE OpenClient(h) \/ OpenFails(h)
    BY <2>13 DEF OpenClient, OpenFails
  <2>14. CASE CheckConfigured(h) \/ After(h)
    BY <2>14 DEF CheckConfigured, After, Return
  <2>. QED  BY <1>4, <2>3, <2>4, <2>5, <2>6, <2>7, <2>8, <2>9, <2>10, <2>11, <2>12, <2>13, <2>14 DEF Serve
<1>5. ASSUME NEW h \in Handler, ParseTrackerList(h) PROVE BadInv'
  <2>1. up /\ up' /\ UNCHANGED <<disk, viper, srv, pc, req, need>> /\ trouble \subseteq trouble'
        /\ InitConf' = InitConf
    BY <1>5, <1>a DEF ParseTrackerList, ParseRead, AppendRead, AppendWrite, ParseEnd, process
  <2>2. trouble' \cap Faults = {} => trouble \cap Faults = {}
    BY <2>1
  <2>. QED  BY <2>1, <2>2 DEF BadInv, OneByOne, Busy, BadCarried, AllStartable
<1>6. CASE UNCHANGED vars
  BY <1>6, <1>a DEF vars, process, request, parsing, BadInv, AtRest, OneByOne, Busy, Parsing, BadCarried, AllStartable
<1>. QED  BY <1>1, <1>2, <1>3, <1>4, <1>5, <1>6 DEF Next

(* A file from which the server cannot start comes only of a port that was  *)
(* refused after it had been saved, of a directory that Run would refuse    *)
(* and Configure took, or of requests that overlapped or broke off          *)
(* (server_api.go 233-252, server.go 179-190).                              *)
THEOREM StartsAgainHolds == Spec => []StartsAgain
<1>1. Init => BadInv
  BY InstalledAssumption, NoneAssumption DEF Init, BadInv, AtRest, Busy, Parsing, InitConf
<1>2. BadInv => StartsAgain
  <2>. SUFFICES ASSUME BadInv, AtRest, trouble \cap Faults = {} PROVE Startable(InitConf)
    BY DEF StartsAgain, Faults
  <2>. QED  BY DEF BadInv, AtRest, AllStartable
<1>. QED  BY <1>1, <1>2, TypeInit, TypeNext, BadInvNext, PTL DEF Spec
=============================================================================
