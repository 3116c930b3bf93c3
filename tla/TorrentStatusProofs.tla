------------------------ MODULE TorrentStatusProofs ------------------------
(***************************************************************************)
(* Proofs about TorrentStatus: type correctness; DoneCmd is called at most *)
(* once per processor and is not missed; and, for users who act on what    *)
(* the page shows, what is started is what the library fetches.            *)
(***************************************************************************)
EXTENDS TorrentStatus, FiniteSetTheorems, TLAPS

USE DEF At, Goto

LEMMA TypeInit == Init => TypeOK
<1>. SUFFICES ASSUME Init PROVE TypeOK
  OBVIOUS
<1>1. {listed, loaded, started, manual, done, allFilesDone, marking} \subseteq BOOLEAN
  BY Zenon DEF Init
<1>2. /\ reports \in [Subject -> Nat] /\ pc \in [Processor -> PC]
      /\ todo \in [Processor -> SUBSET File] /\ subject \in [Processor -> Subject]
  BY DEF Init, PC, Subject
<1>. QED  BY <1>1, <1>2 DEF Init, TypeOK

LEMMA TypeNext == TypeOK /\ [Next]_vars => TypeOK'
<1>. SUFFICES ASSUME TypeOK, [Next]_vars PROVE TypeOK'
  OBVIOUS
<1>. USE DEF TypeOK, PC, Subject, flags, status, local
<1>1. ASSUME NEW p \in Processor, AddSpec(p) \/ GotInfo(p) \/ DropTask(p) PROVE TypeOK'
  BY <1>1 DEF AddSpec, GotInfo, DropTask
<1>2. ASSUME NEW p \in Processor, AutoStartTorrent(p) PROVE TypeOK'
  BY <1>2 DEF AutoStartTorrent, StartTorrent
<1>3. ASSUME NEW p \in Processor, Load(p) \/ BeginRound(p) PROVE TypeOK'
  BY <1>3 DEF Load, BeginRound
<1>4. ASSUME NEW p \in Processor, NEW f \in File, LookFile(p, f) PROVE TypeOK'
  BY <1>4 DEF LookFile
<1>5. ASSUME NEW p \in Processor, EndFiles(p) PROVE TypeOK'
  BY <1>5 DEF EndFiles
<1>6. ASSUME NEW p \in Processor, LookTorrent(p) PROVE TypeOK'
  BY <1>6 DEF LookTorrent, AfterStatus
<1>7. ASSUME NEW p \in Processor, Report(p) PROVE TypeOK'
  BY <1>7 DEF Report, AfterReport, AfterStatus
<1>8. ASSUME NEW p \in Processor, SpawnAutoStart(p) \/ TaskRoutine(p) PROVE TypeOK'
  BY <1>8 DEF SpawnAutoStart, TaskRoutine
<1>9. CASE ManualStart \/ MarkManual
  BY <1>9 DEF ManualStart, MarkManual, StartTorrent
<1>10. CASE ApiStop \/ RemoverStop
  BY <1>10 DEF ApiStop, RemoverStop, StopTorrent
<1>11. ASSUME NEW f \in File, StartFile(f) \/ StopFile(f) PROVE TypeOK'
  BY <1>11 DEF StartFile, StopFile
<1>12. CASE ApiDelete \/ RemoverDelete
  BY <1>12 DEF ApiDelete, RemoverDelete
<1>13. ASSUME NEW f \in File, Download(f) PROVE TypeOK'
  BY <1>13 DEF Download
<1>14. CASE UNCHANGED vars
  BY <1>14 DEF vars
<1>. QED  BY <1>1, <1>2, <1>3, <1>4, <1>5, <1>6, <1>7, <1>8, <1>9, <1>10, <1>11, <1>12, <1>13, <1>14 DEF Next, Update, Request

(* Every variable of a task and its processors keeps its type, and only     *)
(* files that are made are started (torrent.go 13-60).                      *)
THEOREM TypeCorrect == Spec => []TypeOK
BY TypeInit, TypeNext, PTL DEF Spec

-----------------------------------------------------------------------------
(* DoneCmd. *)

(* A flag is set with the first report; the processors that are about to    *)
(* report are among those that have not yet done so.                        *)
ReportInv ==
    \A s \in Subject :
        /\ s \notin called <=> reports[s] = 0
        /\ reports[s] + Cardinality(Reporting(s)) <= Cardinality(Active)

(* A processor in a round that found no unfinished file has seen to it that *)
(* the files it has looked at are reported.                                 *)
CleanInv ==
    \A p \in clean :
        \/ pc[p] = "files" /\ File \ todo[p] \subseteq called
        \/ pc[p] = "report" /\ subject[p] \in File /\ File \ todo[p] \subseteq called \cup {subject[p]}

MissInv ==
    /\ allFilesDone => File \subseteq called
    /\ done => Whole \in called \/ Reporting(Whole) # {}

DoneInv == TypeOK /\ ReportInv /\ CleanInv /\ MissInv

LEMMA Finite ==
    ASSUME TypeOK
    PROVE  /\ IsFiniteSet(Active) /\ Cardinality(Active) \in Nat
           /\ \A s \in Subject : /\ IsFiniteSet(Reporting(s)) /\ Cardinality(Reporting(s)) \in Nat
                                 /\ Cardinality(Reporting(s)) <= Cardinality(Active)
                                 /\ reports[s] \in Nat
<1>1. IsFiniteSet(Active) /\ Cardinality(Active) \in Nat
  BY FiniteAssumption, FS_Subset, FS_CardinalityType DEF Active
<1>2. ASSUME NEW s \in Subject PROVE Reporting(s) \subseteq Active
  BY DEF Reporting, Active
<1>. QED  BY <1>1, <1>2, FS_Subset, FS_CardinalityType DEF TypeOK

(* Steps that neither report nor turn to a report. *)
LEMMA QuietStep ==
    ASSUME TypeOK, TypeOK', ReportInv, UNCHANGED <<called, reports>>,
           Active \subseteq Active', \A s \in Subject : Reporting(s)' = Reporting(s)
    PROVE  ReportInv'
<1>1. Cardinality(Active) <= Cardinality(Active')
  BY Finite, FiniteAssumption, FS_Subset DEF Active
<1>2. Cardinality(Active') \in Nat /\ Cardinality(Active) \in Nat
  BY FiniteAssumption, FS_Subset, FS_CardinalityType DEF Active
<1>. QED  BY <1>1, <1>2, Finite DEF ReportInv

(* A step that turns to the report of something unreported. *)
LEMMA TurnStep ==
    ASSUME TypeOK, TypeOK', ReportInv, UNCHANGED <<called, reports>>, Active' = Active,
           NEW s \in Subject, s \notin called,
           \A r \in Subject \ {s} : Reporting(r)' = Reporting(r)
    PROVE  ReportInv'
<1>1. ASSUME NEW r \in Subject, r # s
      PROVE reports[r]' + Cardinality(Reporting(r)') <= Cardinality(Active')
  BY <1>1 DEF ReportInv
<1>2. reports[s]' = 0
  BY DEF ReportInv
<1>3. Reporting(s)' \subseteq Active' /\ IsFiniteSet(Active')
  BY FiniteAssumption, FS_Subset DEF Reporting, Active
<1>4. /\ Cardinality(Reporting(s)') <= Cardinality(Active')
      /\ Cardinality(Reporting(s)') \in Nat
  BY <1>3, FS_Subset, FS_CardinalityType
<1>5. reports[s]' + Cardinality(Reporting(s)') <= Cardinality(Active')
  BY <1>2, <1>4
<1>. QED  BY <1>1, <1>5 DEF ReportInv

(* Steps of requests, AutoStart, stopRemoveTask and the library. *)
Other ==
    \/ \E p \in Processor : AutoStartTorrent(p)
    \/ Request \/ MarkManual \/ RemoverStop \/ RemoverDelete
    \/ \E f \in File : Download(f)
    \/ UNCHANGED vars

LEMMA OtherStep ==
    Other => UNCHANGED <<loaded, done, allFilesDone, called, reports, local>>
BY DEF Other, Request, AutoStartTorrent, StartTorrent, ManualStart, ApiStop, StopTorrent,
       ApiDelete, StartFile, StopFile, MarkManual, RemoverStop, RemoverDelete, Download,
       vars, status, local, flags

LEMMA DoneInvInit == Init => DoneInv
<1>. SUFFICES ASSUME Init PROVE DoneInv
  OBVIOUS
<1>. USE TypeInit DEF Init
<1>1. \A s \in Subject : Reporting(s) = {}
  BY DEF Reporting
<1>2. ReportInv
  BY <1>1, Finite, FS_EmptySet DEF ReportInv
<1>. QED  BY <1>2 DEF DoneInv, CleanInv, MissInv

LEMMA DoneInvNext == DoneInv /\ [Next]_vars => DoneInv'
<1>. SUFFICES ASSUME DoneInv, [Next]_vars PROVE DoneInv'
  OBVIOUS
<1>. TypeOK /\ TypeOK'
  BY TypeNext DEF DoneInv
<1>. USE DEF DoneInv
<1>0. ASSUME NEW p \in Processor,
             AddSpec(p) \/ GotInfo(p) \/ DropTask(p) \/ Load(p) \/ BeginRound(p)
             \/ SpawnAutoStart(p) \/ TaskRoutine(p) \/ EndFiles(p)
      PROVE  /\ UNCHANGED <<called, reports>> /\ Active \subseteq Active'
             /\ \A s \in Subject : Reporting(s)' = Reporting(s)
  BY <1>0 DEF AddSpec, GotInfo, DropTask, Load, BeginRound, SpawnAutoStart, TaskRoutine, EndFiles,
              Active, Reporting, TypeOK, PC, status
<1>1. ASSUME NEW p \in Processor, AddSpec(p) \/ GotInfo(p) \/ DropTask(p) \/ Load(p)
             \/ SpawnAutoStart(p) \/ TaskRoutine(p)
      PROVE DoneInv'
  <2>1. ReportInv'
    BY <1>0, <1>1, QuietStep
  <2>2. CleanInv'
    BY <1>1 DEF CleanInv, AddSpec, GotInfo, DropTask, Load, SpawnAutoStart, TaskRoutine, TypeOK, PC, status
  <2>3. UNCHANGED <<done, allFilesDone>>
    BY <1>1 DEF AddSpec, GotInfo, DropTask, Load, SpawnAutoStart, TaskRoutine, status
  <2>4. MissInv'
    BY <1>0, <1>1, <2>3 DEF MissInv, Subject
  <2>. QED  BY <2>1, <2>2, <2>4
<1>2. ASSUME NEW p \in Processor, BeginRound(p) PROVE DoneInv'
  <2>1. ReportInv'
    BY <1>0, <1>2, QuietStep
  <2>2. CleanInv'
    BY <1>2 DEF CleanInv, BeginRound, TypeOK, PC, status
  <2>3. MissInv'
    BY <1>0, <1>2 DEF MissInv, Subject, BeginRound, status
  <2>. QED  BY <2>1, <2>2, <2>3
<1>3. ASSUME NEW p \in Processor, EndFiles(p) PROVE DoneInv'
  <2>1. ReportInv'
    BY <1>0, <1>3, QuietStep
  <2>2. CleanInv'
    BY <1>3 DEF CleanInv, EndFiles, TypeOK, PC
  <2>3. allFilesDone' => File \subseteq called
    BY <1>3 DEF CleanInv, EndFiles, TypeOK
  <2>4. UNCHANGED <<done, called>>
    BY <1>3 DEF EndFiles
  <2>5. MissInv'
    BY <1>0, <1>3, <2>3, <2>4 DEF MissInv, Subject
  <2>. QED  BY <2>1, <2>2, <2>5
<1>4. ASSUME NEW p \in Processor, NEW f \in File, LookFile(p, f) PROVE DoneInv'
  <2>1. Active' = Active /\ UNCHANGED <<called, reports, done, allFilesDone>>
    BY <1>4 DEF LookFile, Active, TypeOK, PC
  <2>2. \A s \in Subject \ {f} : Reporting(s)' = Reporting(s)
    BY <1>4 DEF LookFile, Reporting, TypeOK, PC
  <2>3. f \in called => Reporting(f)' = Reporting(f)
    BY <1>4 DEF LookFile, Reporting, TypeOK, PC
  <2>4. ReportInv'
    <3>1. CASE f \in called
      BY <2>1, <2>2, <2>3, <3>1, QuietStep
    <3>2. CASE f \notin called
      BY <2>1, <2>2, <3>2, TurnStep DEF Subject
    <3>. QED  BY <3>1, <3>2
  <2>5. CleanInv'
    <3>. SUFFICES ASSUME NEW q \in clean'
                  PROVE \/ pc'[q] = "files" /\ File \ todo'[q] \subseteq called
                        \/ /\ pc'[q] = "report" /\ subject'[q] \in File
                           /\ File \ todo'[q] \subseteq called \cup {subject'[q]}
      BY <2>1 DEF CleanInv
    <3>1. q \in clean /\ q \in Processor
      BY <1>4 DEF LookFile, TypeOK
    <3>2. CASE q # p
      BY <1>4, <3>1, <3>2 DEF CleanInv, LookFile, TypeOK
    <3>3. CASE q = p
      <4>1. f \in have
        BY <1>4, <3>3 DEF LookFile
      <4>2. File \ todo[p] \subseteq called /\ todo'[p] = todo[p] \ {f}
        BY <1>4, <3>1, <3>3 DEF CleanInv, LookFile, TypeOK
      <4>. QED  BY <1>4, <3>3, <4>1, <4>2 DEF LookFile, TypeOK
    <3>. QED  BY <3>2, <3>3
  <2>6. MissInv'
    <3>1. Reporting(Whole)' = Reporting(Whole)
      BY <2>2, FileAssumption DEF Subject
    <3>. QED  BY <2>1, <3>1 DEF MissInv
  <2>. QED  BY <2>4, <2>5, <2>6
<1>5. ASSUME NEW p \in Processor, LookTorrent(p) PROVE DoneInv'
  <2>1. Active' = Active /\ UNCHANGED <<called, reports, allFilesDone, clean, todo>>
    BY <1>5 DEF LookTorrent, AfterStatus, Active, TypeOK, PC
  <2>2. \A s \in Subject \ {Whole} : Reporting(s)' = Reporting(s)
    BY <1>5 DEF LookTorrent, AfterStatus, Reporting, TypeOK, PC
  <2>3. Whole \in called => Reporting(Whole)' = Reporting(Whole)
    BY <1>5 DEF LookTorrent, AfterStatus, Reporting, TypeOK, PC
  <2>4. ReportInv'
    <3>1. CASE Whole \in called
      BY <2>1, <2>2, <2>3, <3>1, QuietStep
    <3>2. CASE Whole \notin called
      BY <2>1, <2>2, <3>2, TurnStep DEF Subject
    <3>. QED  BY <3>1, <3>2
  <2>5. CleanInv'
    <3>1. \A q \in clean : q # p /\ q \in Processor
      BY <1>5 DEF CleanInv, LookTorrent, TypeOK
    <3>2. \A q \in Processor \ {p} : pc'[q] = pc[q] /\ subject'[q] = subject[q]
      BY <1>5 DEF LookTorrent, TypeOK
    <3>. QED  BY <2>1, <3>1, <3>2 DEF CleanInv
  <2>6. MissInv'
    <3>1. Reporting(Whole) \subseteq Reporting(Whole)'
      BY <1>5 DEF LookTorrent, Reporting, TypeOK
    <3>2. CASE done
      BY <2>1, <3>1, <3>2 DEF MissInv
    <3>3. CASE ~done /\ have = File /\ Whole \notin called
      <4>1. pc'[p] = "report" /\ subject'[p] = Whole
        BY <1>5, <3>3 DEF LookTorrent, TypeOK
      <4>2. p \in Reporting(Whole)'
        BY <4>1 DEF Reporting
      <4>. QED  BY <2>1, <4>2 DEF MissInv
    <3>4. CASE ~done /\ ~(have = File /\ Whole \notin called)
      <4>1. done' = (done \/ have = File)
        BY <1>5 DEF LookTorrent
      <4>2. done' => Whole \in called'
        BY <2>1, <3>4, <4>1, Zenon
      <4>. QED  BY <2>1, <4>2 DEF MissInv
    <3>. QED  BY <3>2, <3>3, <3>4
  <2>. QED  BY <2>4, <2>5, <2>6
<1>6. ASSUME NEW p \in Processor, Report(p) PROVE DoneInv'
  <2>0. PICK s \in Subject : s = subject[p]
    BY DEF TypeOK
  <2>1. p \in Reporting(s)
    BY <1>6, <2>0 DEF Report, Reporting
  <2>2. Active' = Active /\ called' = called \cup {s} /\ UNCHANGED <<done, allFilesDone>>
    BY <1>6, <2>0 DEF Report, AfterReport, AfterStatus, Active, TypeOK, PC
  <2>3. Reporting(s)' = Reporting(s) \ {p}
    BY <1>6, <2>0 DEF Report, AfterReport, AfterStatus, Reporting, TypeOK, PC
  <2>4. \A r \in Subject \ {s} : Reporting(r)' = Reporting(r) /\ reports'[r] = reports[r]
    BY <1>6, <2>0 DEF Report, AfterReport, AfterStatus, Reporting, TypeOK, PC
  <2>5. reports'[s] = reports[s] + 1
    BY <1>6, <2>0 DEF Report, TypeOK
  <2>6. Cardinality(Reporting(s)') = Cardinality(Reporting(s)) - 1
    BY <2>1, <2>3, Finite, FS_RemoveElement
  <2>7. ReportInv'
    <3>. SUFFICES ASSUME NEW r \in Subject
                  PROVE /\ r \notin called' <=> reports'[r] = 0
                        /\ reports'[r] + Cardinality(Reporting(r)') <= Cardinality(Active')
      BY DEF ReportInv
    <3>1. CASE r = s
      BY <2>2, <2>5, <2>6, <3>1, Finite DEF ReportInv
    <3>2. CASE r # s
      BY <2>2, <2>4, <3>2 DEF ReportInv
    <3>. QED  BY <3>1, <3>2
  <2>8. CleanInv'
    <3>. SUFFICES ASSUME NEW q \in clean
                  PROVE \/ pc'[q] = "files" /\ File \ todo[q] \subseteq called'
                        \/ /\ pc'[q] = "report" /\ subject'[q] \in File
                           /\ File \ todo[q] \subseteq called' \cup {subject'[q]}
      BY <1>6 DEF CleanInv, Report
    <3>1. CASE q = p
      BY <1>6, <2>0, <2>2, <3>1, FileAssumption DEF CleanInv, Report, AfterReport, TypeOK
    <3>2. CASE q # p
      BY <1>6, <2>0, <2>2, <3>2 DEF CleanInv, Report, TypeOK
    <3>. QED  BY <3>1, <3>2
  <2>9. MissInv'
    <3>1. CASE s = Whole
      BY <2>2, <3>1 DEF MissInv
    <3>2. CASE s # Whole
      BY <2>2, <2>4, <3>2 DEF MissInv, Subject
    <3>. QED  BY <3>1, <3>2
  <2>. QED  BY <2>7, <2>8, <2>9
<1>7. CASE Other
  <2>1. UNCHANGED <<done, allFilesDone, called, reports, pc, boot, todo, clean, subject>>
    BY <1>7, OtherStep DEF local
  <2>. QED  BY <2>1 DEF ReportInv, CleanInv, MissInv, Reporting, Active
<1>. QED  BY <1>1, <1>2, <1>3, <1>4, <1>5, <1>6, <1>7 DEF Next, Update, Other

LEMMA DoneInvAlways == Spec => []DoneInv
BY DoneInvInit, DoneInvNext, PTL DEF Spec

(* DoneCmd is called at most once per processor of the task, for the        *)
(* torrent and for each file (torrent.go 155-158, 174-178).                 *)
THEOREM ReportedOnceHolds == Spec => []ReportedOnce
<1>1. DoneInv => ReportedOnce
  BY Finite DEF DoneInv, ReportInv, ReportedOnce
<1>. QED  BY <1>1, DoneInvAlways, PTL

(* What no processor looks at any more has been reported (engine.go         *)
(* 287-292, torrent.go 131-180).                                            *)
THEOREM CompletionNotMissedHolds == Spec => []CompletionNotMissed
<1>1. DoneInv => CompletionNotMissed
  <2>. SUFFICES ASSUME DoneInv PROVE CompletionNotMissed
    OBVIOUS
  <2>1. \A s \in called : s \in Subject => reports[s] > 0
    BY Finite DEF DoneInv, ReportInv
  <2>. QED  BY <2>1 DEF DoneInv, MissInv, CompletionNotMissed, Subject
<1>. QED  BY <1>1, DoneInvAlways, PTL

-----------------------------------------------------------------------------
(* Users who act on what the page shows. *)

ActingOnPage == Calm = TRUE

(* What a processor has looked at is made, and it leaves a round only when  *)
(* it has looked at all files.                                              *)
MadeInv ==
    /\ made # {} \/ auto # {} => loaded
    /\ allFilesDone \/ remover # "off" => made = File
    /\ \A p \in Processor :
         /\ pc[p] \notin {"off", "wait", "load", "end"} => loaded
         /\ pc[p] \in {"files", "report", "status", "routine"} => File \ todo[p] \subseteq made
         /\ pc[p] \in {"status", "routine"} => todo[p] = {}
         /\ pc[p] = "report" /\ subject[p] = Whole => todo[p] = {}

(* While a file is still to be made, a started torrent fetches everything.  *)
ShownInv ==
    /\ fileStarted \subseteq wanted
    /\ started /\ made # File => wanted = File
    /\ ~started => fileStarted = {}

PageInv == TypeOK /\ MadeInv /\ ShownInv

LEMMA PageInvInit == Init => PageInv
BY TypeInit, FileAssumption DEF Init, PageInv, MadeInv, ShownInv

(* Under Calm the requests find all files made. *)
LEMMA CalmRequest ==
    ASSUME ActingOnPage, MadeInv, NEW op, Admit(op) PROVE made = File /\ loaded
BY FileAssumption DEF ActingOnPage, Admit, MadeInv

LEMMA MadeInvNext == ActingOnPage /\ PageInv /\ [Next]_vars => MadeInv'
<1>. SUFFICES ASSUME ActingOnPage, PageInv, [Next]_vars PROVE MadeInv'
  OBVIOUS
<1>. USE FileAssumption DEF PageInv, MadeInv, TypeOK, PC, Subject, flags, status
<1>1. ASSUME NEW p \in Processor, AddSpec(p) \/ GotInfo(p) \/ DropTask(p) \/ Load(p) PROVE MadeInv'
  BY <1>1 DEF AddSpec, GotInfo, DropTask, Load
<1>2. ASSUME NEW p \in Processor, BeginRound(p) PROVE MadeInv'
  BY <1>2 DEF BeginRound
<1>3. ASSUME NEW p \in Processor, NEW f \in File, LookFile(p, f) PROVE MadeInv'
  <2>1. /\ made' = made \cup {f} /\ todo' = [todo EXCEPT ![p] = @ \ {f}] /\ loaded
        /\ UNCHANGED <<loaded, auto, allFilesDone, remover>>
    BY <1>3 DEF LookFile
  <2>2. pc'[p] = "files" \/ (pc'[p] = "report" /\ subject'[p] = f)
    BY <1>3 DEF LookFile
  <2>3. \A q \in Processor \ {p} : pc'[q] = pc[q] /\ subject'[q] = subject[q]
    BY <1>3 DEF LookFile
  <2>4. /\ made' # {} \/ auto' # {} => loaded'
        /\ allFilesDone' \/ remover' # "off" => made' = File
    BY <2>1
  <2>5. ASSUME NEW q \in Processor
        PROVE  /\ pc'[q] \notin {"off", "wait", "load", "end"} => loaded'
               /\ pc'[q] \in {"files", "report", "status", "routine"} => File \ todo'[q] \subseteq made'
               /\ pc'[q] \in {"status", "routine"} => todo'[q] = {}
               /\ pc'[q] = "report" /\ subject'[q] = Whole => todo'[q] = {}
    <3>1. CASE q = p
      <4>1. File \ todo[p] \subseteq made
        BY <1>3 DEF LookFile
      <4>. QED  BY <2>1, <2>2, <3>1, <4>1
    <3>2. CASE q # p
      BY <2>1, <2>3, <3>2
    <3>. QED  BY <3>1, <3>2
  <2>. QED  BY <2>4, <2>5
<1>4. ASSUME NEW p \in Processor, EndFiles(p) PROVE MadeInv'
  BY <1>4 DEF EndFiles
<1>5. ASSUME NEW p \in Processor, LookTorrent(p) PROVE MadeInv'
  BY <1>5 DEF LookTorrent, AfterStatus
<1>6. ASSUME NEW p \in Processor, Report(p) PROVE MadeInv'
  BY <1>6 DEF Report, AfterReport, AfterStatus
<1>7. ASSUME NEW p \in Processor, SpawnAutoStart(p) \/ TaskRoutine(p) PROVE MadeInv'
  <2>1. loaded /\ UNCHANGED <<loaded, made, allFilesDone, todo, subject>>
    BY <1>7 DEF SpawnAutoStart, TaskRoutine
  <2>2. pc' = [pc EXCEPT ![p] = "tick"]
    BY <1>7 DEF SpawnAutoStart, TaskRoutine
  <2>3. remover' # "off" => remover # "off" \/ made = File
    BY <1>7 DEF SpawnAutoStart, TaskRoutine
  <2>. QED  BY <2>1, <2>2, <2>3
<1>8. CASE Other
  <2>1. UNCHANGED <<loaded, allFilesDone, local>>
    BY <1>8, OtherStep
  <2>2. /\ UNCHANGED made /\ auto' \subseteq auto
        /\ remover' # "off" => remover # "off"
    BY <1>8 DEF Other, Request, AutoStartTorrent, ManualStart, ApiStop, ApiDelete, StartFile, StopFile,
                MarkManual, RemoverStop, RemoverDelete, Download, vars
  <2>3. /\ made' # {} \/ auto' # {} => loaded'
        /\ allFilesDone' \/ remover' # "off" => made' = File
    BY <2>1, <2>2
  <2>4. UNCHANGED <<pc, todo, subject>>
    BY <2>1 DEF local
  <2>. QED  BY <2>1, <2>2, <2>3, <2>4
<1>. QED  BY <1>1, <1>2, <1>3, <1>4, <1>5, <1>6, <1>7, <1>8 DEF Next, Update, Other

LEMMA ShownInvNext == ActingOnPage /\ PageInv /\ [Next]_vars => ShownInv'
<1>. SUFFICES ASSUME ActingOnPage, PageInv, [Next]_vars PROVE ShownInv'
  OBVIOUS
<1>. USE DEF PageInv, ShownInv
<1>1. ASSUME NEW p \in Processor,
             AddSpec(p) \/ GotInfo(p) \/ DropTask(p) \/ Load(p) \/ BeginRound(p) \/ EndFiles(p)
             \/ LookTorrent(p) \/ Report(p) \/ SpawnAutoStart(p) \/ TaskRoutine(p)
      PROVE ShownInv'
  BY <1>1 DEF AddSpec, GotInfo, DropTask, Load, BeginRound, EndFiles, LookTorrent, Report,
              SpawnAutoStart, TaskRoutine, flags, status
<1>2. ASSUME NEW p \in Processor, NEW f \in File, LookFile(p, f) PROVE ShownInv'
  BY <1>2 DEF LookFile, TypeOK
<1>3. ASSUME NEW p \in Processor, AutoStartTorrent(p) PROVE ShownInv'
  <2>1. loaded
    BY <1>3 DEF AutoStartTorrent, MadeInv
  <2>. QED  BY <1>3, <2>1 DEF AutoStartTorrent, StartTorrent, status, TypeOK
<1>4. CASE ManualStart
  BY <1>4, CalmRequest DEF ManualStart, StartTorrent, status, TypeOK
<1>5. CASE ApiStop
  BY <1>5, CalmRequest DEF ApiStop, StopTorrent
<1>6. ASSUME NEW f \in File, StartFile(f) \/ StopFile(f) PROVE ShownInv'
  BY <1>6, CalmRequest DEF StartFile, StopFile, status, TypeOK
<1>7. CASE RemoverStop
  <2>1. made = File
    BY <1>7 DEF RemoverStop, MadeInv
  <2>. QED  BY <1>7, <2>1 DEF RemoverStop, StopTorrent, status
<1>8. CASE ApiDelete \/ MarkManual \/ RemoverDelete \/ (\E f \in File : Download(f)) \/ UNCHANGED vars
  BY <1>8 DEF ApiDelete, MarkManual, RemoverDelete, Download, vars, flags, status
<1>. QED  BY <1>1, <1>2, <1>3, <1>4, <1>5, <1>6, <1>7, <1>8 DEF Next, Update, Request

LEMMA PageInvAlways == ActingOnPage => (Spec => []PageInv)
<1>1. ActingOnPage /\ PageInv /\ [Next]_vars => PageInv'
  BY TypeNext, MadeInvNext, ShownInvNext DEF PageInv
<1>2. SUFFICES ASSUME ActingOnPage PROVE Spec => []PageInv
  OBVIOUS
<1>3. PageInv /\ [Next]_vars => PageInv'
  BY <1>1, <1>2
<1>. QED  BY <1>3, PageInvInit, PTL DEF Spec

(* For users who act on what the page shows, files shown as started are     *)
(* those the library fetches (engine.go 276-278, 316-489).                  *)
THEOREM StartedWantedHolds == ActingOnPage => (Spec => []StartedWanted)
<1>1. SUFFICES ASSUME ActingOnPage PROVE Spec => []StartedWanted
  OBVIOUS
<1>2. PageInv => StartedWanted
  BY DEF PageInv, ShownInv, StartedWanted
<1>. QED  BY <1>1, <1>2, PageInvAlways, PTL

(* For the same users a stopped torrent has no started file (engine.go      *)
(* 381-489).                                                                *)
THEOREM StoppedStopsFilesHolds == ActingOnPage => (Spec => []StoppedStopsFiles)
<1>1. SUFFICES ASSUME ActingOnPage PROVE Spec => []StoppedStopsFiles
  OBVIOUS
<1>2. PageInv => StoppedStopsFiles
  BY DEF PageInv, ShownInv, StoppedStopsFiles
<1>. QED  BY <1>1, <1>2, PageInvAlways, PTL

=============================================================================
