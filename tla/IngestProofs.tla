---------------------------- MODULE IngestProofs ----------------------------
(***************************************************************************)
(* Type correctness of Ingest, that nothing is sent on the channel after   *)
(* it is closed nor stored in the case after Run has returned, and that    *)
(* what Run returns is true and complete, for any number of files, volumes *)
(* and plugins and any channel capacity.                                   *)
(***************************************************************************)
EXTENDS Ingest, FiniteSetTheorems, SequenceTheorems, TLAPS

LEMMA EventTypes ==
    ASSUME NEW u \in Units
    PROVE  /\ Done(u) \in Event /\ Err(u) \in Event /\ Tick(u) \in Event
           /\ <<Done(u)>> \in Seq(Event) /\ <<Err(u)>> \in Seq(Event)
           /\ <<Tick(u)>> \in Seq(Event) /\ <<Err(u), Err(u)>> \in Seq(Event)
           /\ <<Done(u), Err(u)>> \in Seq(Event)
<1>1. Done(u) \in Event /\ Err(u) \in Event /\ Tick(u) \in Event
  BY DEF Done, Err, Tick, Event
<1> QED BY <1>1

LEMMA FileErrsType ==
    ASSUME NEW f \in Seq(ParserUnits)
    PROVE  FileErrs(f) \in Seq(Event)
<1>1. \A i \in 1 .. Len(f) : Err(f[i]) \in Event
  BY EventTypes DEF Units
<1>2. FileErrs(f) = [i \in 1 .. Len(f) |-> Err(f[i])]
  BY DEF FileErrs
<1> QED BY <1>1, <1>2

LEMMA ProducersFinite ==
    /\ IsFiniteSet(Producers)
    /\ \A ws \in SUBSET Producers : IsFiniteSet(ws) /\ Cardinality(ws) \in Nat
<1>1. IsFiniteSet({"triage"} \cup {"disk"})
  BY FS_Singleton, FS_AddElement
<1>2. IsFiniteSet(({"triage"} \cup {"disk"}) \cup {"ram"})
  BY <1>1, FS_AddElement
<1>3. Producers = ({"triage"} \cup {"disk"}) \cup {"ram"}
  BY DEF Producers
<1> QED BY <1>2, <1>3, FS_Subset, FS_CardinalityType

LEMMA UnitSets ==
    /\ ParserUnits \subseteq Units /\ PhaseUnits \subseteq Units
    /\ Plugins \subseteq Units /\ SourceUnits \subseteq Units
    /\ \A v \in DiskVolumes : v.amcache \in ParserUnits
    /\ \A i \in DOMAIN Phases : Phases[i] \in PhaseUnits
BY DEF Units, ParserUnits, DiskUnits, VolumeUnits, PhaseUnits, SeqElems

\* A non-blocking send keeps the channel within its capacity.
LEMMA TrySendType ==
    ASSUME TypeOK, NEW e \in Event, TrySend(e)
    PROVE  /\ ch' \in Seq(Event) /\ Len(ch') <= Cap
           /\ panicked' \in BOOLEAN /\ dropped' \subseteq Units
<1>1. e.unit \in Units
  BY DEF Event
<1>2. ch' \in Seq(Event) /\ Len(ch') <= Cap
  BY IngestAssumption DEF TypeOK, TrySend
<1>3. dropped' \subseteq Units
  BY <1>1 DEF TypeOK, TrySend
<1>4. panicked' \in BOOLEAN
  BY DEF TrySend
<1> QED BY <1>2, <1>3, <1>4

LEMMA TypeInit == Init => TypeOK
<1> SUFFICES ASSUME Init PROVE TypeOK
  OBVIOUS
<1>1. pc \in [Workers -> Labels]
  BY DEF Init, Labels
<1>2. ch \in Seq(Event) /\ Len(ch) <= Cap
  BY IngestAssumption DEF Init
<1>3. wg \in Int
  BY IngestAssumption, ProducersFinite DEF Init
<1>4. /\ out \in [Producers -> Seq(Event)]
      /\ files \in [{"triage", "disk"} -> SUBSET Seq(ParserUnits)]
      /\ cur \in [{"triage", "disk"} -> Seq(ParserUnits)]
  BY DEF Init
<1>5. /\ outcome \in [Units -> {"pending", "ok", "failed"}]
      /\ stored \in [Units -> {"none", "some", "all"}]
      /\ tally \in [Units -> Nat] /\ errs \in [Units -> Nat]
  BY DEF Init
<1>6. /\ closed \in BOOLEAN /\ panicked \in BOOLEAN /\ anyOK \in BOOLEAN
      /\ returned \in BOOLEAN /\ dropped \subseteq Units /\ vols \subseteq DiskVolumes
  BY DEF Init
<1>7. hive \in ParserUnits \cup {"none"} /\ subWg \in Int
  BY DEF Init
<1> QED BY <1>1, <1>2, <1>3, <1>4, <1>5, <1>6, <1>7 DEF TypeOK

LEMMA TypeStep ==
    ASSUME TypeOK, [Next]_vars
    PROVE  TypeOK'
<1> USE IngestAssumption, UnitSets
        DEF TypeOK, Labels, Workers, Producers, Ready, Goto, Report, Fail, GiveUp, walkVars, caseVars, resultVars, Local
<1>1. CASE TriageUnreadable
  BY <1>1, EventTypes DEF TriageUnreadable, SourceUnits
<1>2. CASE TriageOpen
  BY <1>2 DEF TriageOpen
<1>3. CASE TriageEnd
  BY <1>3 DEF TriageEnd
<1>4. CASE DiskUnreadable
  BY <1>4, EventTypes DEF DiskUnreadable, SourceUnits
<1>5. CASE DiskOpen
  BY <1>5 DEF DiskOpen
<1>6. CASE VolumeSkip
  BY <1>6 DEF VolumeSkip
<1>7. CASE VolumeOpen
  BY <1>7 DEF VolumeOpen
<1>8. CASE VolumeEmpty
  BY <1>8, EventTypes DEF VolumeEmpty, SourceUnits
<1>9. CASE VolumeHive
  BY <1>9 DEF VolumeHive
<1>10. CASE VolumeEnd
  BY <1>10 DEF VolumeEnd
<1>11. CASE DiskEnd
  BY <1>11 DEF DiskEnd
<1>12. CASE NativeOpen
  <2>1. pc' \in [Workers -> Labels]
    BY <1>12 DEF NativeOpen
  <2> QED BY <1>12, <2>1 DEF NativeOpen
<1>13. CASE NativePhase
  BY <1>13, EventTypes, TrySendType DEF NativePhase
<1>14. CASE NativeEnd
  BY <1>14 DEF NativeEnd
<1>15. CASE VolatilityMissing
  BY <1>15, EventTypes DEF VolatilityMissing, SourceUnits
<1>16. CASE VolatilityStart
  <2>1. pc' \in [Workers -> Labels]
    BY <1>16 DEF VolatilityStart
  <2>2. subWg' \in Int
    BY <1>16, FS_CardinalityType DEF VolatilityStart
  <2> QED BY <1>16, <2>1, <2>2 DEF VolatilityStart
<1>17. CASE RamJoin
  BY <1>17 DEF RamJoin
<1>18. CASE Close
  BY <1>18 DEF Close
<1>19. CASE Receive
  <2>1. Head(ch) \in Event /\ Tail(ch) \in Seq(Event) /\ Len(Tail(ch)) <= Cap
    BY <1>19 DEF Receive
  <2> DEFINE e == Head(ch)
  <2>2. e.unit \in Units
    BY <2>1 DEF Event
  <2>3. tally' = [tally EXCEPT ![e.unit] = IF e.type = "done" THEN @ + 1 ELSE @]
    BY <1>19 DEF Receive
  <2>4. errs' = [errs EXCEPT ![e.unit] = IF e.type = "err" THEN @ + 1 ELSE @]
    BY <1>19 DEF Receive
  <2>5. tally' \in [Units -> Nat] /\ errs' \in [Units -> Nat]
    <3> HIDE DEF e
    <3> QED BY <2>2, <2>3, <2>4
  <2> QED BY <1>19, <2>1, <2>5 DEF Receive
<1>20. CASE Return
  BY <1>20 DEF Return
<1>21. CASE Returned
  BY <1>21 DEF Returned, vars
<1>22. ASSUME NEW w \in {"triage", "disk"}, SkipFile(w) PROVE TypeOK'
  <2>1. PICK f \in files[w] : Report(w, FileErrs(f)) /\ Fail(SeqElems(f))
                             /\ files' = [files EXCEPT ![w] = @ \ {f}]
    BY <1>22 DEF SkipFile
  <2>2. FileErrs(f) \in Seq(Event)
    BY <2>1, FileErrsType
  <2>3. out' \in [Producers -> Seq(Event)]
    BY <2>1, <2>2
  <2>4. outcome' \in [Units -> {"pending", "ok", "failed"}]
    BY <2>1
  <2> QED BY <1>22, <2>1, <2>3, <2>4 DEF SkipFile
<1>23. ASSUME NEW w \in {"triage", "disk"}, OpenFile(w) PROVE TypeOK'
  BY <1>23 DEF OpenFile
<1>24. ASSUME NEW w \in {"triage", "disk"}, ParserTick(w) PROVE TypeOK'
  <2> DEFINE u == Head(cur[w])
  <2>1. u \in Units
    BY <1>24 DEF ParserTick
  <2>2. CASE Report(w, <<Tick(u)>>) /\ UNCHANGED <<ch, panicked, dropped>>
    BY <1>24, <2>1, <2>2, EventTypes DEF ParserTick
  <2>3. CASE TrySend(Tick(u)) /\ UNCHANGED out
    BY <1>24, <2>1, <2>3, EventTypes, TrySendType DEF ParserTick
  <2> QED BY <1>24, <2>2, <2>3 DEF ParserTick
<1>25. ASSUME NEW w \in {"triage", "disk"}, ParseOK(w) PROVE TypeOK'
  <2> DEFINE u == Head(cur[w])
  <2>1. u \in Units /\ Tail(cur[w]) \in Seq(ParserUnits)
    BY <1>25 DEF ParseOK, Parsing
  <2>2. out' \in [Producers -> Seq(Event)]
    BY <1>25, <2>1, EventTypes DEF ParseOK
  <2>3. pc' \in [Workers -> Labels] /\ cur' \in [{"triage", "disk"} -> Seq(ParserUnits)]
    BY <1>25, <2>1 DEF ParseOK, Parsing
  <2> QED BY <1>25, <2>1, <2>2, <2>3 DEF ParseOK
<1>26. ASSUME NEW w \in {"triage", "disk"}, ParseFail(w) PROVE TypeOK'
  <2> DEFINE u == Head(cur[w])
  <2>1. u \in Units /\ Tail(cur[w]) \in Seq(ParserUnits)
    BY <1>26 DEF ParseFail, Parsing
  <2>2. out' \in [Producers -> Seq(Event)]
    BY <1>26, <2>1, EventTypes DEF ParseFail
  <2>3. pc' \in [Workers -> Labels] /\ cur' \in [{"triage", "disk"} -> Seq(ParserUnits)]
    BY <1>26, <2>1 DEF ParseFail, Parsing
  <2>4. /\ outcome' \in [Units -> {"pending", "ok", "failed"}]
        /\ stored' \in [Units -> {"none", "some", "all"}]
    BY <1>26, <2>1 DEF ParseFail
  <2> QED BY <1>26, <2>2, <2>3, <2>4 DEF ParseFail
<1>27. ASSUME NEW w \in {"triage", "disk"}, EndFile(w) PROVE TypeOK'
  BY <1>27 DEF EndFile
<1>28. ASSUME NEW w \in Producers, Send(w) PROVE TypeOK'
  <2>1. CASE closed
    BY <1>28, <2>1 DEF Send
  <2>2. CASE ~closed
    <3>1. Head(out[w]) \in Event /\ Tail(out[w]) \in Seq(Event)
      BY <1>28 DEF Send
    <3> DEFINE e == Head(out[w])
    <3>2. ch' = Append(ch, e) /\ Len(ch) < Cap
      BY <1>28, <2>2 DEF Send
    <3>4. ch' \in Seq(Event) /\ Len(ch') <= Cap
      <4> HIDE DEF e
      <4> QED BY <3>1, <3>2 DEF e
    <3>3. out' \in [Producers -> Seq(Event)]
      BY <1>28, <2>2, <3>1 DEF Send
    <3> QED BY <1>28, <2>2, <3>4, <3>3 DEF Send
  <2> QED BY <2>1, <2>2
<1>29. ASSUME NEW w \in Producers, Exit(w) PROVE TypeOK'
  BY <1>29 DEF Exit
<1>30. ASSUME NEW p \in Plugins, PluginFail(p) PROVE TypeOK'
  BY <1>30 DEF PluginFail
<1>31. ASSUME NEW p \in Plugins, PluginOK(p) PROVE TypeOK'
  BY <1>31, EventTypes, TrySendType DEF PluginOK
<1>32. ASSUME NEW p \in Plugins, PluginSpin(p) PROVE TypeOK'
  BY <1>32 DEF PluginSpin
<1>33. ASSUME NEW p \in Plugins, PluginSpinning(p) PROVE TypeOK'
  BY <1>33 DEF PluginSpinning, vars
<1>34. CASE UNCHANGED vars
  BY <1>34 DEF vars
<1> QED
  BY <1>1, <1>2, <1>3, <1>4, <1>5, <1>6, <1>7, <1>8, <1>9, <1>10, <1>11, <1>12, <1>13, <1>14, <1>15, <1>16, <1>17, <1>18, <1>19, <1>20, <1>21, <1>22, <1>23, <1>24, <1>25, <1>26, <1>27, <1>28, <1>29, <1>30, <1>31, <1>32, <1>33, <1>34 DEF Next, Goroutine, Triage, Disk, Ram, Plugin, Walk

\* Type correctness.
THEOREM TypeCorrect == Spec => []TypeOK
BY TypeInit, TypeStep, PTL DEF Spec


-----------------------------------------------------------------------------
(***************************************************************************)
(* The channel is closed only when every goroutine that can send is gone.  *)
(* WaitGroups is the heart of it: the closer waits for the producers, and  *)
(* the RAM producer, while plugins run, waits for them.                    *)
(***************************************************************************)
SafeClose ==
    /\ TypeOK /\ WaitGroups
    /\ closed => wg = 0
    /\ returned => closed
    /\ ~panicked
    /\ \A w \in Producers : pc[w] = "gone" => out[w] = <<>>

\* While a goroutine runs the channel is open and Run has not returned.
LEMMA RunningMeansOpen ==
    ASSUME SafeClose, NEW w \in Workers, pc[w] # "gone"
    PROVE  ~closed /\ ~returned
<1>1. CASE w \in Producers
  <2>1. w \in Running(Producers)
    BY <1>1 DEF Running
  <2>2. IsFiniteSet(Running(Producers))
    BY ProducersFinite DEF Running
  <2>3. wg # 0
    BY <2>1, <2>2, FS_EmptySet DEF SafeClose, WaitGroups
  <2> QED BY <2>3 DEF SafeClose
<1>2. CASE w \in Plugins
  <2>1. pc["ram"] = "join"
    BY <1>2 DEF SafeClose, WaitGroups, Running
  <2>2. "ram" \in Running(Producers) /\ IsFiniteSet(Running(Producers))
    BY <2>1, ProducersFinite DEF Running, Producers
  <2>3. wg # 0
    BY <2>2, FS_EmptySet DEF SafeClose, WaitGroups
  <2> QED BY <2>3 DEF SafeClose
<1> QED BY <1>1, <1>2 DEF Workers

\* A producer that moves on without finishing leaves the counters right.
LEMMA MoveOn ==
    ASSUME TypeOK, WaitGroups, NEW w \in Producers, NEW l \in Labels \ {"gone"},
           pc[w] \notin {"gone", "join"}, Goto(w, l), UNCHANGED <<wg, subWg>>
    PROVE  WaitGroups'
<1>1. Running(Producers)' = Running(Producers)
  BY DEF Running, Goto, TypeOK, Workers
<1>2. Running(Plugins)' = Running(Plugins)
  BY IngestAssumption DEF Running, Goto, TypeOK, Workers
<1>3. Running(Plugins) # {} => pc'["ram"] = "join"
  BY DEF WaitGroups, Goto, TypeOK, Workers, Producers
<1> QED BY <1>1, <1>2, <1>3 DEF WaitGroups

\* A plugin that finishes is taken off the RAM producer's WaitGroup.
LEMMA PluginLeaves ==
    ASSUME TypeOK, WaitGroups, NEW p \in Plugins, pc[p] # "gone", Goto(p, "gone"),
           subWg' = subWg - 1, wg' = wg
    PROVE  WaitGroups'
<1>1. Running(Producers)' = Running(Producers)
  BY IngestAssumption DEF Running, Goto, TypeOK, Workers
<1>2. Running(Plugins)' = Running(Plugins) \ {p}
  BY DEF Running, Goto, TypeOK, Workers
<1>3. IsFiniteSet(Running(Plugins)) /\ p \in Running(Plugins)
  BY IngestAssumption, FS_Subset DEF Running
<1>4. Cardinality(Running(Plugins)') = Cardinality(Running(Plugins)) - 1
  BY <1>2, <1>3, FS_RemoveElement
<1>5. pc'["ram"] = "join"
  BY <1>3, IngestAssumption DEF WaitGroups, Goto, TypeOK, Workers, Producers
<1> QED BY <1>1, <1>4, <1>5 DEF WaitGroups

LEMMA WaitGroupsInductive ==
    ASSUME SafeClose, [Next]_vars
    PROVE  WaitGroups'
<1> USE DEF SafeClose, Local
<1>0. ASSUME UNCHANGED <<wg, subWg, pc>> PROVE WaitGroups'
  BY <1>0 DEF WaitGroups, Running
<1>1. CASE Close
  BY <1>1, <1>0 DEF Close, vars
<1>2. CASE Receive
  BY <1>2, <1>0 DEF Receive, vars
<1>3. CASE Return
  BY <1>3, <1>0 DEF Return, vars
<1>4. CASE Returned
  BY <1>4, <1>0 DEF Returned, vars
<1>5. CASE VolumeSkip
  BY <1>5, <1>0 DEF VolumeSkip, vars
<1>6. CASE VolumeEmpty
  BY <1>6, <1>0 DEF VolumeEmpty, vars
<1>7. CASE NativePhase
  BY <1>7, <1>0 DEF NativePhase, vars
<1>8. CASE TriageUnreadable
  BY <1>8, MoveOn DEF TriageUnreadable, Ready, Labels, Producers, GiveUp
<1>9. CASE TriageOpen
  BY <1>9, MoveOn DEF TriageOpen, Ready, Labels, Producers
<1>10. CASE TriageEnd
  BY <1>10, MoveOn DEF TriageEnd, Ready, Labels, Producers
<1>11. CASE DiskUnreadable
  BY <1>11, MoveOn DEF DiskUnreadable, Ready, Labels, Producers, GiveUp
<1>12. CASE DiskOpen
  BY <1>12, MoveOn DEF DiskOpen, Ready, Labels, Producers
<1>13. CASE VolumeOpen
  BY <1>13, MoveOn DEF VolumeOpen, Ready, Labels, Producers
<1>14. CASE VolumeHive
  BY <1>14, MoveOn DEF VolumeHive, Ready, Labels, Producers
<1>15. CASE VolumeEnd
  BY <1>15, MoveOn DEF VolumeEnd, Ready, Labels, Producers
<1>16. CASE DiskEnd
  BY <1>16, MoveOn DEF DiskEnd, Ready, Labels, Producers
<1>17. CASE NativeOpen
  BY <1>17, MoveOn DEF NativeOpen, Ready, Labels, Producers
<1>18. CASE NativeEnd
  BY <1>18, MoveOn DEF NativeEnd, Ready, Labels, Producers
<1>19. CASE VolatilityMissing
  BY <1>19, MoveOn DEF VolatilityMissing, Ready, Labels, Producers, GiveUp
<1>20. CASE VolatilityStart
  <2>1. Running(Plugins)' = Plugins
    BY <1>20, IngestAssumption DEF VolatilityStart, Running, Workers, Producers
  <2>2. Running(Producers)' = Running(Producers)
    BY <1>20, IngestAssumption DEF VolatilityStart, Ready, Running, Workers, Producers
  <2>3. pc'["ram"] = "join"
    BY <1>20 DEF VolatilityStart, Workers, Producers
  <2> QED BY <1>20, <2>1, <2>2, <2>3 DEF VolatilityStart, WaitGroups
<1>21. CASE RamJoin
  <2>1. Running(Plugins) = {}
    BY <1>21, IngestAssumption, FS_EmptySet, FS_Subset DEF RamJoin, WaitGroups, Running
  <2>2. Running(Plugins)' = {} /\ Running(Producers)' = Running(Producers)
    BY <1>21, <2>1, IngestAssumption
    DEF RamJoin, Ready, Goto, Running, TypeOK, Workers, Producers
  <2> QED BY <1>21, <2>1, <2>2 DEF RamJoin, WaitGroups
<1>22. ASSUME NEW w \in {"triage", "disk"}, SkipFile(w) PROVE WaitGroups'
  BY <1>22, <1>0 DEF SkipFile
<1>23. ASSUME NEW w \in {"triage", "disk"}, OpenFile(w) PROVE WaitGroups'
  BY <1>23, MoveOn DEF OpenFile, Ready, Labels, Producers
<1>24. ASSUME NEW w \in {"triage", "disk"}, ParserTick(w) PROVE WaitGroups'
  BY <1>24, MoveOn DEF ParserTick, Ready, Labels, Producers
<1>25. ASSUME NEW w \in {"triage", "disk"}, ParseOK(w) PROVE WaitGroups'
  BY <1>25, MoveOn DEF ParseOK, Parsing, Ready, Labels, Producers
<1>26. ASSUME NEW w \in {"triage", "disk"}, ParseFail(w) PROVE WaitGroups'
  BY <1>26, MoveOn DEF ParseFail, Parsing, Ready, Labels, Producers
<1>27. ASSUME NEW w \in {"triage", "disk"}, EndFile(w) PROVE WaitGroups'
  BY <1>27, MoveOn DEF EndFile, Ready, Labels, Producers
<1>28. ASSUME NEW w \in Producers, Send(w) PROVE WaitGroups'
  BY <1>28, <1>0 DEF Send
<1>29. ASSUME NEW w \in Producers, Exit(w) PROVE WaitGroups'
  <2>1. Running(Producers)' = Running(Producers) \ {w} /\ w \in Running(Producers)
    BY <1>29 DEF Exit, Ready, Goto, Running, TypeOK, Workers
  <2>2. Cardinality(Running(Producers)') = Cardinality(Running(Producers)) - 1
    BY <2>1, ProducersFinite, FS_RemoveElement DEF Running
  <2>3. Running(Plugins)' = Running(Plugins)
    BY <1>29, IngestAssumption DEF Exit, Goto, Running, TypeOK, Workers
  <2>4. Running(Plugins) # {} => pc'["ram"] = "join"
    BY <1>29 DEF Exit, Ready, Goto, WaitGroups, TypeOK, Workers
  <2> QED BY <1>29, <2>2, <2>3, <2>4 DEF Exit, WaitGroups
<1>30. ASSUME NEW p \in Plugins, PluginFail(p) PROVE WaitGroups'
  BY <1>30, PluginLeaves DEF PluginFail
<1>31. ASSUME NEW p \in Plugins, PluginOK(p) PROVE WaitGroups'
  BY <1>31, PluginLeaves DEF PluginOK
<1>32. ASSUME NEW p \in Plugins, PluginSpin(p) PROVE WaitGroups'
  <2>1. /\ Running(Producers)' = Running(Producers) /\ Running(Plugins)' = Running(Plugins)
        /\ pc'["ram"] = pc["ram"]
    BY <1>32, IngestAssumption
    DEF PluginSpin, Goto, Running, TypeOK, Workers, Producers
  <2> QED BY <1>32, <2>1 DEF PluginSpin, WaitGroups
<1>33. ASSUME NEW p \in Plugins, PluginSpinning(p) PROVE WaitGroups'
  BY <1>33, <1>0 DEF PluginSpinning, vars
<1>34. CASE UNCHANGED vars
  BY <1>34, <1>0 DEF vars
<1> QED
  BY <1>1, <1>2, <1>3, <1>4, <1>5, <1>6, <1>7, <1>8, <1>9, <1>10, <1>11, <1>12, <1>13, <1>14, <1>15, <1>16, <1>17, <1>18, <1>19, <1>20, <1>21, <1>22, <1>23, <1>24, <1>25, <1>26, <1>27, <1>28, <1>29, <1>30, <1>31, <1>32, <1>33, <1>34
  DEF Next, Goroutine, Triage, Disk, Ram, Plugin, Walk

\* A running goroutine does not send on the closed channel.
LEMMA TrySendSafe ==
    ASSUME SafeClose, NEW w \in Workers, pc[w] # "gone", NEW e, TrySend(e)
    PROVE  ~panicked'
BY RunningMeansOpen DEF TrySend, SafeClose

LEMMA SafeCloseInductive ==
    ASSUME SafeClose, [Next]_vars
    PROVE  SafeClose'
<1>a. TypeOK'
  BY TypeStep DEF SafeClose
<1>b. WaitGroups'
  BY WaitGroupsInductive
<1> DEFINE Rest == /\ closed => wg = 0
                   /\ returned => closed
                   /\ ~panicked
                   /\ \A w \in Producers : pc[w] = "gone" => out[w] = <<>>
<1> SUFFICES Rest'
  BY <1>a, <1>b DEF SafeClose
<1> USE DEF SafeClose
<1>0. ASSUME UNCHANGED <<closed, wg, returned, panicked, pc, out>> PROVE Rest'
  BY <1>0
<1>1. CASE TriageUnreadable
  BY <1>1, RunningMeansOpen, IngestAssumption DEF TriageUnreadable, Ready, Goto, Report, GiveUp, Local, resultVars, TypeOK, Workers, Producers
<1>2. CASE TriageOpen
  BY <1>2, RunningMeansOpen, IngestAssumption DEF TriageOpen, Ready, Goto, Report, GiveUp, Local, resultVars, TypeOK, Workers, Producers
<1>3. CASE TriageEnd
  BY <1>3, RunningMeansOpen, IngestAssumption DEF TriageEnd, Ready, Goto, Report, GiveUp, Local, resultVars, TypeOK, Workers, Producers
<1>4. CASE DiskUnreadable
  BY <1>4, RunningMeansOpen, IngestAssumption DEF DiskUnreadable, Ready, Goto, Report, GiveUp, Local, resultVars, TypeOK, Workers, Producers
<1>5. CASE DiskOpen
  BY <1>5, RunningMeansOpen, IngestAssumption DEF DiskOpen, Ready, Goto, Report, GiveUp, Local, resultVars, TypeOK, Workers, Producers
<1>6. CASE VolumeSkip
  BY <1>6, RunningMeansOpen, IngestAssumption DEF VolumeSkip, Ready, Goto, Report, GiveUp, Local, resultVars, TypeOK, Workers, Producers
<1>7. CASE VolumeOpen
  BY <1>7, RunningMeansOpen, IngestAssumption DEF VolumeOpen, Ready, Goto, Report, GiveUp, Local, resultVars, TypeOK, Workers, Producers
<1>8. CASE VolumeEmpty
  BY <1>8, RunningMeansOpen, IngestAssumption DEF VolumeEmpty, Ready, Goto, Report, GiveUp, Local, resultVars, TypeOK, Workers, Producers
<1>9. CASE VolumeHive
  BY <1>9, RunningMeansOpen, IngestAssumption DEF VolumeHive, Ready, Goto, Report, GiveUp, Local, resultVars, TypeOK, Workers, Producers
<1>10. CASE VolumeEnd
  BY <1>10, RunningMeansOpen, IngestAssumption DEF VolumeEnd, Ready, Goto, Report, GiveUp, Local, resultVars, TypeOK, Workers, Producers
<1>11. CASE DiskEnd
  BY <1>11, RunningMeansOpen, IngestAssumption DEF DiskEnd, Ready, Goto, Report, GiveUp, Local, resultVars, TypeOK, Workers, Producers
<1>12. CASE NativeOpen
  BY <1>12, RunningMeansOpen, IngestAssumption DEF NativeOpen, Ready, Goto, Report, GiveUp, Local, resultVars, TypeOK, Workers, Producers
<1>13. CASE NativePhase
  BY <1>13, RunningMeansOpen, TrySendSafe, IngestAssumption DEF NativePhase, Ready, Goto, Report, GiveUp, Local, resultVars, TypeOK, Workers, Producers
<1>14. CASE NativeEnd
  BY <1>14, RunningMeansOpen, IngestAssumption DEF NativeEnd, Ready, Goto, Report, GiveUp, Local, resultVars, TypeOK, Workers, Producers
<1>15. CASE VolatilityMissing
  BY <1>15, RunningMeansOpen, IngestAssumption DEF VolatilityMissing, Ready, Goto, Report, GiveUp, Local, resultVars, TypeOK, Workers, Producers
<1>16. CASE VolatilityStart
  BY <1>16, RunningMeansOpen, IngestAssumption DEF VolatilityStart, Ready, Goto, Report, GiveUp, Local, resultVars, TypeOK, Workers, Producers
<1>17. CASE RamJoin
  BY <1>17, RunningMeansOpen, IngestAssumption DEF RamJoin, Ready, Goto, Report, GiveUp, Local, resultVars, TypeOK, Workers, Producers
<1>18. ASSUME NEW w \in {"triage", "disk"}, SkipFile(w) PROVE Rest'
  BY <1>18, RunningMeansOpen DEF SkipFile, Parsing, Ready, Goto, Report, GiveUp, Local, resultVars, TypeOK, Workers, Producers
<1>19. ASSUME NEW w \in {"triage", "disk"}, OpenFile(w) PROVE Rest'
  BY <1>19, RunningMeansOpen DEF OpenFile, Parsing, Ready, Goto, Report, GiveUp, Local, resultVars, TypeOK, Workers, Producers
<1>20. ASSUME NEW w \in {"triage", "disk"}, ParserTick(w) PROVE Rest'
  BY <1>20, RunningMeansOpen, TrySendSafe DEF ParserTick, Parsing, Ready, Goto, Report, GiveUp, Local, resultVars, TypeOK, Workers, Producers
<1>21. ASSUME NEW w \in {"triage", "disk"}, ParseOK(w) PROVE Rest'
  BY <1>21, RunningMeansOpen DEF ParseOK, Parsing, Ready, Goto, Report, GiveUp, Local, resultVars, TypeOK, Workers, Producers
<1>22. ASSUME NEW w \in {"triage", "disk"}, ParseFail(w) PROVE Rest'
  BY <1>22, RunningMeansOpen DEF ParseFail, Parsing, Ready, Goto, Report, GiveUp, Local, resultVars, TypeOK, Workers, Producers
<1>23. ASSUME NEW w \in {"triage", "disk"}, EndFile(w) PROVE Rest'
  BY <1>23, RunningMeansOpen DEF EndFile, Parsing, Ready, Goto, Report, GiveUp, Local, resultVars, TypeOK, Workers, Producers
<1>24. ASSUME NEW w \in Producers, Send(w) PROVE Rest'
  BY <1>24, RunningMeansOpen DEF Send, Ready, Goto, Report, GiveUp, Local, resultVars, TypeOK, Workers, Producers
<1>25. ASSUME NEW w \in Producers, Exit(w) PROVE Rest'
  BY <1>25, RunningMeansOpen DEF Exit, Ready, Goto, Report, GiveUp, Local, resultVars, TypeOK, Workers, Producers
<1>26. ASSUME NEW p \in Plugins, PluginFail(p) PROVE Rest'
  BY <1>26, RunningMeansOpen, IngestAssumption DEF PluginFail, Ready, Goto, Report, GiveUp, Local, resultVars, TypeOK, Workers, Producers
<1>27. ASSUME NEW p \in Plugins, PluginOK(p) PROVE Rest'
  BY <1>27, RunningMeansOpen, TrySendSafe, IngestAssumption DEF PluginOK, Ready, Goto, Report, GiveUp, Local, resultVars, TypeOK, Workers, Producers
<1>28. ASSUME NEW p \in Plugins, PluginSpin(p) PROVE Rest'
  BY <1>28, RunningMeansOpen, IngestAssumption DEF PluginSpin, Ready, Goto, Report, GiveUp, Local, resultVars, TypeOK, Workers, Producers
<1>29. ASSUME NEW p \in Plugins, PluginSpinning(p) PROVE Rest'
  BY <1>29, <1>0 DEF PluginSpinning, vars, resultVars
<1>30. CASE Close
  BY <1>30 DEF Close, resultVars
<1>31. CASE Receive
  BY <1>31 DEF Receive, resultVars
<1>32. CASE Return
  BY <1>32 DEF Return, resultVars
<1>33. CASE Returned
  BY <1>0, <1>33 DEF Returned, vars, resultVars
<1>34. CASE UNCHANGED vars
  BY <1>34, <1>0 DEF vars, resultVars
<1> QED
  BY <1>1, <1>2, <1>3, <1>4, <1>5, <1>6, <1>7, <1>8, <1>9, <1>10, <1>11, <1>12, <1>13, <1>14, <1>15, <1>16, <1>17, <1>18, <1>19, <1>20, <1>21, <1>22, <1>23, <1>24, <1>25, <1>26, <1>27, <1>28, <1>29, <1>30, <1>31, <1>32, <1>33, <1>34
  DEF Next, Goroutine, Triage, Disk, Ram, Plugin, Walk

LEMMA SafeCloseInit == Init => SafeClose
<1> SUFFICES ASSUME Init PROVE SafeClose
  OBVIOUS
<1>1. TypeOK
  BY TypeInit
<1>2. Running(Producers) = Inputs
  BY IngestAssumption DEF Init, Running, Workers
<1>3. Running(Plugins) = {}
  BY IngestAssumption DEF Init, Running, Workers
<1>4. WaitGroups
  BY <1>2, <1>3, FS_EmptySet DEF Init, WaitGroups
<1> QED BY <1>1, <1>4 DEF Init, SafeClose

THEOREM SafeCloseHolds == Spec => []SafeClose
BY SafeCloseInit, SafeCloseInductive, PTL DEF Spec

\* No goroutine sends on the channel after it has been closed, so Run never
\* panics on it.
THEOREM SendsBeforeClose == Spec => []NoSendOnClosed
<1>1. SafeClose => NoSendOnClosed
  BY DEF SafeClose, NoSendOnClosed
<1> QED BY <1>1, SafeCloseHolds, PTL

\* The WaitGroups never miscount.
THEOREM WaitGroupsHold == Spec => []WaitGroups
<1>1. SafeClose => WaitGroups
  BY DEF SafeClose
<1> QED BY <1>1, SafeCloseHolds, PTL

\* After Run has returned no goroutine of its own stores anything.
THEOREM QuietAfterReturn == Spec => CaseIsQuiet
<1> DEFINE Quiet == returned => UNCHANGED caseVars
<1>1. ASSUME SafeClose, [Next]_vars PROVE Quiet
  <2> SUFFICES ASSUME returned PROVE UNCHANGED caseVars
    OBVIOUS
  <2>1. \A w \in Workers : pc[w] = "gone"
    BY <1>1, RunningMeansOpen
  <2>2. CASE Triage
    BY <2>1, <2>2 DEF Triage, TriageUnreadable, TriageOpen, TriageEnd, Walk, SkipFile,
       OpenFile, ParserTick, ParseOK, ParseFail, Parsing, EndFile, Ready, Workers, Producers
  <2>3. CASE Disk
    BY <2>1, <2>3 DEF Disk, DiskUnreadable, DiskOpen, VolumeSkip, VolumeOpen, VolumeEmpty,
       VolumeHive, VolumeEnd, DiskEnd, Walk, SkipFile, OpenFile, ParserTick, ParseOK,
       ParseFail, Parsing, EndFile, Ready, Workers, Producers
  <2>4. CASE Ram
    BY <2>1, <2>4 DEF Ram, NativeOpen, NativePhase, NativeEnd, VolatilityMissing,
       VolatilityStart, RamJoin, Ready, Workers, Producers
  <2>5. ASSUME NEW p \in Plugins, Plugin(p) PROVE UNCHANGED caseVars
    BY <2>1, <2>5 DEF Plugin, PluginFail, PluginOK, PluginSpin, PluginSpinning, Workers
  <2>6. ASSUME NEW w \in Producers, Send(w) \/ Exit(w) PROVE UNCHANGED caseVars
    BY <2>6 DEF Send, Exit
  <2>7. CASE Close \/ Receive \/ Return \/ Returned
    BY <2>7 DEF Close, Receive, Return, Returned, vars
  <2>8. CASE UNCHANGED vars
    BY <2>8 DEF vars
  <2> QED BY <1>1, <2>2, <2>3, <2>4, <2>5, <2>6, <2>7, <2>8 DEF Next, Goroutine
<1> QED BY <1>1, SafeCloseHolds, PTL DEF Spec, CaseIsQuiet

-----------------------------------------------------------------------------
(***************************************************************************)
(* What Run returns is true and complete: every report is followed from    *)
(* the goroutine that sends it through the channel into RunResult.  With   *)
(* it Run is shown to keep the contract of RunContract.                    *)
(***************************************************************************)

(* Events in a sequence. *)

Has(s, e)  == \E i \in DOMAIN s : s[i] = e
Once(s, e) == \A i, j \in DOMAIN s : s[i] = e /\ s[j] = e => i = j

LEMMA HasNone == \A e : ~Has(<<>>, e) /\ Once(<<>>, e)
BY DEF Has, Once

LEMMA HasOne ==
    ASSUME NEW x, NEW e
    PROVE  (Has(<<x>>, e) <=> x = e) /\ Once(<<x>>, e)
BY DEF Has, Once

LEMMA HasTwo ==
    ASSUME NEW x, NEW y, NEW e
    PROVE  /\ Has(<<x, y>>, e) <=> x = e \/ y = e
           /\ ~(x = e /\ y = e) => Once(<<x, y>>, e)
<1> DEFINE s == <<x, y>>
<1>1. DOMAIN s = {1, 2} /\ s[1] = x /\ s[2] = y
  OBVIOUS
<1> HIDE DEF s
<1>2. /\ Has(s, e) <=> x = e \/ y = e
      /\ ~(x = e /\ y = e) => Once(s, e)
  BY <1>1 DEF Has, Once
<1> QED BY <1>2 DEF s

LEMMA HasAppend ==
    ASSUME NEW S, NEW s \in Seq(S), NEW x \in S, NEW e
    PROVE  /\ Has(Append(s, x), e) <=> Has(s, e) \/ x = e
           /\ Once(s, e) /\ (x = e => ~Has(s, e)) => Once(Append(s, x), e)
<1> DEFINE t == Append(s, x)
<1>1. /\ DOMAIN s = 1 .. Len(s) /\ DOMAIN t = 1 .. Len(s) + 1 /\ Len(s) \in Nat
      /\ \A i \in 1 .. Len(s) : t[i] = s[i]
      /\ t[Len(s) + 1] = x
  OBVIOUS
<1> HIDE DEF t
<1>2. Has(t, e) <=> Has(s, e) \/ x = e
  BY <1>1 DEF Has
<1>3. Once(s, e) /\ (x = e => ~Has(s, e)) => Once(t, e)
  BY <1>1 DEF Has, Once
<1> QED BY <1>2, <1>3 DEF t

LEMMA HasHead ==
    ASSUME NEW S, NEW s \in Seq(S), s # <<>>, NEW e
    PROVE  /\ Has(s, e) <=> Has(Tail(s), e) \/ Head(s) = e
           /\ Once(s, e) => Once(Tail(s), e) /\ (Head(s) = e => ~Has(Tail(s), e))
<1> DEFINE t == Tail(s)
           n == Len(s)
<1>1. /\ n \in Nat /\ n > 0 /\ DOMAIN s = 1 .. n /\ DOMAIN t = 1 .. n - 1
      /\ \A i \in 1 .. n - 1 : t[i] = s[i + 1]
      /\ Head(s) = s[1]
  OBVIOUS
<1> HIDE DEF t, n
<1>2. ASSUME NEW i \in DOMAIN s, i # 1 PROVE i - 1 \in DOMAIN t /\ t[i - 1] = s[i]
  <2>1. i - 1 \in 1 .. n - 1 /\ (i - 1) + 1 = i
    BY <1>1, <1>2
  <2> QED BY <1>1, <2>1
<1>3. Has(s, e) <=> Has(t, e) \/ Head(s) = e
  <2>1. ASSUME Has(s, e) PROVE Has(t, e) \/ Head(s) = e
    BY <1>1, <1>2, <2>1 DEF Has
  <2>2. ASSUME Has(t, e) PROVE Has(s, e)
    BY <1>1, <2>2 DEF Has
  <2>3. ASSUME Head(s) = e PROVE Has(s, e)
    BY <1>1, <2>3 DEF Has
  <2> QED BY <2>1, <2>2, <2>3
<1>4. ASSUME Once(s, e) PROVE Once(t, e)
  BY <1>1, <1>4 DEF Once
<1>5. ASSUME Once(s, e), Head(s) = e PROVE ~Has(t, e)
  BY <1>1, <1>5 DEF Once, Has
<1> QED BY <1>3, <1>4, <1>5 DEF t

\* The same of the channel.
LEMMA ChannelAppend ==
    ASSUME TypeOK, NEW x \in Event
    PROVE  \A e : /\ Has(Append(ch, x), e) <=> Has(ch, e) \/ x = e
                  /\ Once(ch, e) /\ (x = e => ~Has(ch, e)) => Once(Append(ch, x), e)
<1>1. ch \in Seq(Event)
  BY DEF TypeOK
<1> QED BY <1>1, HasAppend

LEMMA ChannelHead ==
    ASSUME TypeOK, ch # <<>>
    PROVE  \A e : /\ Has(ch, e) <=> Has(Tail(ch), e) \/ Head(ch) = e
                  /\ Once(ch, e) => Once(Tail(ch), e) /\ (Head(ch) = e => ~Has(Tail(ch), e))
<1>1. ch \in Seq(Event)
  BY DEF TypeOK
<1> QED BY <1>1, HasHead

LEMMA DistinctReports ==
    ASSUME NEW u, NEW x
    PROVE  /\ Done(u) = Done(x) <=> u = x
           /\ Err(u) = Err(x) <=> u = x
           /\ Done(u) # Err(x) /\ Done(u) # Tick(x) /\ Err(u) # Tick(x)
BY DEF Done, Err, Tick

LEMMA HasFileErrs ==
    ASSUME NEW f \in Seq(ParserUnits), NEW u
    PROVE  /\ Has(FileErrs(f), Err(u)) <=> u \in SeqElems(f)
           /\ ~Has(FileErrs(f), Done(u)) /\ Once(FileErrs(f), Done(u))
BY DistinctReports DEF Has, Once, FileErrs, SeqElems

-----------------------------------------------------------------------------
(* The inductive invariant: where a unit's report is, which units are still *)
(* to come, and which parser the RAM dump was given to.                     *)

Sent(e) == Has(ch, e) \/ \E w \in Producers : Has(out[w], e)
Counted(u) == tally[u] = 1 \/ Sent(Done(u))
Blamed(u) == errs[u] > 0 \/ Sent(Err(u))
Reliable == ParserUnits \cup SourceUnits

\* A Done report is in one place: with its producer, in the channel or in tally.
OnePlace(u) ==
    /\ Once(ch, Done(u)) /\ (Has(ch, Done(u)) => tally[u] = 0)
    /\ \A w \in Producers :
         /\ Once(out[w], Done(u))
         /\ Has(out[w], Done(u)) =>
              /\ tally[u] = 0 /\ ~Has(ch, Done(u))
              /\ \A x \in Producers : Has(out[x], Done(u)) => x = w

\* Reports follow what they report, and it is reported.
Reported(u) ==
    /\ tally[u] <= 1
    /\ Counted(u) => outcome[u] = "ok" \/ (Kind[u] = "both" /\ outcome[u] = "failed")
    /\ Blamed(u) => outcome[u] = "failed"
    /\ outcome[u] = "ok" => Counted(u) \/ u \in dropped
    /\ outcome[u] = "failed" /\ u \in Reliable => Blamed(u)

ReportInv ==
    /\ \A u \in Units : OnePlace(u) /\ Reported(u)
    /\ dropped \cap Reliable = {}
    /\ \A u \in SourceUnits : outcome[u] # "ok"
    /\ returned => ch = <<>>

\* The parser units a walk may yet run: none of them has.
InFiles(w) == UNION {SeqElems(f) : f \in files[w]}
InCur(w) == SeqElems(cur[w])
Held(w) == InFiles(w) \cup InCur(w)
Fresh(us) == \A u \in us : outcome[u] = "pending"
NoneTwice(w) ==
    /\ Apart(files[w]) /\ InCur(w) \cap InFiles(w) = {}
    /\ \A i, j \in DOMAIN cur[w] : cur[w][i] = cur[w][j] => i = j

TriageWork ==
    /\ NoneTwice("triage")
    /\ files["triage"] \subseteq TriageFiles
    /\ InCur("triage") \subseteq TriageUnits
    /\ pc["triage"] \in {"start", "walk"} => cur["triage"] = <<>>
    /\ pc["triage"] = "start" => Fresh(TriageUnits)
    /\ Fresh(Held("triage"))

\* What the walk holds belongs to a volume that is no longer in vols.
OfVolume(us) == us = {} \/ \E v \in DiskVolumes \ vols : us \subseteq VolumeUnits(v)
InHive == {hive} \ {"none"}
DiskWork ==
    /\ NoneTwice("disk") /\ InHive \cap Held("disk") = {}
    /\ OfVolume(Held("disk") \cup InHive)
    /\ pc["disk"] \in {"start", "volume"} => files["disk"] = {} /\ cur["disk"] = <<>> /\ hive = "none"
    /\ pc["disk"] = "walk" => cur["disk"] = <<>>
    /\ pc["disk"] = "start" => vols = {} /\ Fresh(DiskUnits)
    /\ \A v \in vols : Fresh(VolumeUnits(v))
    /\ Fresh(Held("disk") \cup InHive)

\* The dump goes to Volatility before the first phase or not at all.
RamWork ==
    /\ pc["ram"] \in {"start", "fallback"} => Fresh(PhaseUnits)
    /\ pc["ram"] \in {"start", "native", "fallback"} => Fresh(Plugins)
    /\ pc["ram"] = "join" => Fresh(PhaseUnits)
    /\ \A p \in Plugins : pc[p] # "gone" => Fresh({p})
    /\ Fresh(PhaseUnits) \/ Fresh(Plugins)
    /\ \A u \in PhaseUnits \cup Plugins : stored[u] # "none" => outcome[u] # "pending"

RunInv == SafeClose /\ ReportInv /\ TriageWork /\ DiskWork /\ RamWork

-----------------------------------------------------------------------------
(* The few ways in which a step can touch the reports. *)

reportVars == <<ch, out, outcome, dropped, tally, errs, returned>>

\* The outcomes that the events es, sent by w, tell of the units us.
Tells(es, us) ==
    /\ us \subseteq Units
    /\ \A u \in Units \ us : outcome'[u] = outcome[u]
    /\ \A u \in us :
         /\ outcome[u] = "pending" \/ (outcome[u] = "failed" /\ outcome'[u] = "failed")
         /\ outcome'[u] = "ok" => Has(es, Done(u))
         /\ outcome'[u] = "failed" => Has(es, Err(u))
         /\ outcome'[u] # "pending"
         /\ u \in SourceUnits => outcome'[u] = "failed"
    /\ \A u \in Units :
         /\ Once(es, Done(u))
         /\ Has(es, Done(u)) => /\ u \in us /\ outcome[u] = "pending"
                                /\ outcome'[u] = "ok" \/ Kind[u] = "both"
         /\ Has(es, Err(u)) => u \in us /\ outcome'[u] = "failed"

\* A producer has units ended and their events still to send.
Reporting(w, us, es) ==
    /\ out[w] = <<>> /\ out' = [out EXCEPT ![w] = es] /\ Tells(es, us)
    /\ UNCHANGED <<ch, dropped, tally, errs, returned>>

\* A unit that is not reliable ends, and its report may find no room.
Announcing(u) ==
    /\ u \in Units \ Reliable /\ outcome[u] = "pending"
    /\ outcome' = [outcome EXCEPT ![u] = "ok"] /\ TrySend(Done(u))
    /\ UNCHANGED <<out, tally, errs, returned>>

Ticking(u) == u \in Units /\ TrySend(Tick(u)) /\ UNCHANGED <<out, outcome, tally, errs, returned>>

Dying(u) ==
    /\ u \in Units \ Reliable /\ outcome[u] = "pending"
    /\ outcome' = [outcome EXCEPT ![u] = "failed"]
    /\ UNCHANGED <<ch, out, dropped, tally, errs, returned>>

LEMMA QuietKeeps ==
    ASSUME ReportInv, UNCHANGED reportVars
    PROVE  ReportInv'
BY DEF ReportInv, OnePlace, Reported, Counted, Blamed, Sent, reportVars

LEMMA ReportingKeeps ==
    ASSUME TypeOK, TypeOK', ReportInv, NEW w \in Producers, NEW us, NEW es, Reporting(w, us, es)
    PROVE  ReportInv'
<1>0. Tells(es, us) /\ \A u \in Units : OnePlace(u) /\ Reported(u)
  BY DEF Reporting, ReportInv
<1>1. /\ ch' = ch /\ tally' = tally /\ errs' = errs /\ dropped' = dropped /\ out'[w] = es
      /\ \A x \in Producers \ {w} : out'[x] = out[x]
  BY DEF TypeOK, Reporting
<1>2. \A e : ~Has(out[w], e)
  BY HasNone DEF Reporting
<1>3. ASSUME NEW u \in Units PROVE OnePlace(u)' /\ Reported(u)'
  <2>1. OnePlace(u) /\ Reported(u)
    BY <1>0
  <2>a. u \in us => /\ outcome[u] = "pending" \/ (outcome[u] = "failed" /\ outcome'[u] = "failed")
                    /\ outcome'[u] = "ok" => Has(es, Done(u))
                    /\ outcome'[u] = "failed" => Has(es, Err(u))
    BY <1>0 DEF Tells
  <2>b. /\ u \notin us => outcome'[u] = outcome[u]
        /\ Has(es, Done(u)) => outcome[u] = "pending" /\ (outcome'[u] = "ok" \/ (outcome'[u] = "failed" /\ Kind[u] = "both"))
        /\ Has(es, Err(u)) => outcome'[u] = "failed"
    <3>1. outcome'[u] \in {"pending", "ok", "failed"}
      BY DEF TypeOK
    <3> QED BY <1>0, <3>1 DEF Tells
  <2>2. Has(es, Done(u)) => tally[u] = 0 /\ ~Sent(Done(u))
    BY <2>1, <2>b DEF Reported, Counted, TypeOK
  <2>3. OnePlace(u)'
    <3>1. \A x \in Producers : Once(out'[x], Done(u))
      BY <1>0, <1>1, <2>1 DEF OnePlace, Tells
    <3>2. ASSUME NEW x \in Producers, Has(out'[x], Done(u)), NEW y \in Producers, Has(out'[y], Done(u))
          PROVE  tally[u] = 0 /\ ~Has(ch, Done(u)) /\ x = y
      BY <1>1, <2>1, <2>2, <3>2 DEF OnePlace, Sent
    <3> QED BY <1>1, <2>1, <3>1, <3>2 DEF OnePlace
  <2>4. \A e : Sent(e)' <=> Sent(e) \/ Has(es, e)
    BY <1>1, <1>2 DEF Sent
  <2>5. outcome[u] # "pending" => outcome'[u] = outcome[u]
    BY <2>a, <2>b
  <2>6. Counted(u)' <=> Counted(u) \/ Has(es, Done(u))
    BY <1>1, <2>4 DEF Counted
  <2>7. Blamed(u)' <=> Blamed(u) \/ Has(es, Err(u))
    BY <1>1, <2>4 DEF Blamed
  <2>8. outcome'[u] \in {"pending", "ok", "failed"}
    BY DEF TypeOK
  <2>9. Reported(u)'
    <3>1. Counted(u)' => outcome'[u] = "ok" \/ (Kind[u] = "both" /\ outcome'[u] = "failed")
      BY <2>1, <2>5, <2>6, <2>8, <2>b DEF Reported
    <3>2. Blamed(u)' => outcome'[u] = "failed"
      BY <2>1, <2>5, <2>7, <2>b DEF Reported
    <3>3. outcome'[u] = "ok" => Counted(u)' \/ u \in dropped
      BY <2>1, <2>6, <2>a, <2>b DEF Reported
    <3>4. outcome'[u] = "failed" /\ u \in Reliable => Blamed(u)'
      BY <2>1, <2>7, <2>a, <2>b DEF Reported
    <3> QED BY <1>1, <2>1, <3>1, <3>2, <3>3, <3>4 DEF Reported
  <2> QED BY <2>3, <2>9
<1>4. returned' = returned
  BY DEF Reporting
<1>5. ASSUME NEW u \in SourceUnits PROVE outcome'[u] # "ok"
  BY <1>0, UnitSets DEF Tells, ReportInv
<1> QED BY <1>1, <1>3, <1>4, <1>5 DEF ReportInv

\* The channel after a non-blocking send: with the event or without it.
LEMMA TrySent ==
    ASSUME TypeOK, ~closed, NEW e \in Event, TrySend(e)
    PROVE  \/ ch' = Append(ch, e) /\ dropped' = dropped
           \/ /\ ch' = ch
              /\ dropped' = IF e.type = "done" THEN dropped \cup {e.unit} ELSE dropped
BY IngestAssumption DEF TrySend, TypeOK

LEMMA AnnouncingKeeps ==
    ASSUME TypeOK, TypeOK', ReportInv, ~closed, ~returned, NEW u, Announcing(u)
    PROVE  ReportInv'
<1> USE DEF Announcing, ReportInv
<1>1. u \in Units /\ Done(u) \in Event /\ Done(u).type = "done" /\ Done(u).unit = u
  BY EventTypes DEF Done
<1>2. \/ ch' = Append(ch, Done(u)) /\ dropped' = dropped
      \/ ch' = ch /\ dropped' = dropped \cup {u}
  BY <1>1, TrySent
<1>3. tally[u] = 0 /\ ~Sent(Done(u)) /\ ~Blamed(u)
  <2>1. ~Counted(u) /\ ~Blamed(u) /\ tally[u] <= 1
    BY <1>1 DEF Reported
  <2>2. tally[u] \in Nat
    BY <1>1 DEF TypeOK
  <2> QED BY <2>1, <2>2 DEF Counted
<1>4. \A e : /\ Has(Append(ch, Done(u)), e) <=> Has(ch, e) \/ Done(u) = e
             /\ Once(ch, e) /\ (Done(u) = e => ~Has(ch, e)) => Once(Append(ch, Done(u)), e)
  BY <1>1, ChannelAppend
<1>5. \A e : Has(ch', e) => Has(ch, e) \/ e = Done(u)
  BY <1>2, <1>4
<1>6. \A e : Has(ch, e) => Has(ch', e)
  BY <1>2, <1>4
<1>7. \A e : Sent(e)' => Sent(e) \/ e = Done(u)
  BY <1>5 DEF Sent
<1>8. \A e : Sent(e) => Sent(e)'
  BY <1>6 DEF Sent
<1>9. ASSUME NEW x \in Units, x # u PROVE OnePlace(x)' /\ Reported(x)'
  <2>0. outcome'[x] = outcome[x]
    BY <1>9 DEF TypeOK
  <2>1. Done(x) # Done(u) /\ Err(x) # Done(u) /\ outcome'[x] = outcome[x]
    BY <1>9, <2>0, DistinctReports
  <2>2. Once(ch', Done(x))
    BY <1>2, <1>4, <2>1 DEF OnePlace
  <2>3. OnePlace(x)'
    BY <1>5, <2>1, <2>2 DEF OnePlace
  <2>4. (Counted(x)' <=> Counted(x)) /\ (Blamed(x)' <=> Blamed(x))
    BY <1>7, <1>8, <2>1 DEF Counted, Blamed
  <2>5. Reported(x)'
    BY <1>2, <1>9, <2>1, <2>4 DEF Reported
  <2> QED BY <2>3, <2>5
<1>10. OnePlace(u)' /\ Reported(u)'
  <2>1. outcome'[u] = "ok" /\ Err(u) # Done(u)
    BY <1>1, DistinctReports DEF TypeOK
  <2>2. ~Has(ch, Done(u)) /\ \A w \in Producers : ~Has(out[w], Done(u))
    BY <1>3 DEF Sent
  <2>3. Once(ch', Done(u))
    BY <1>2, <1>4, <2>2 DEF OnePlace
  <2>4. OnePlace(u)'
    BY <1>1, <1>3, <2>2, <2>3 DEF OnePlace
  <2>5. ~Blamed(u)'
    BY <1>3, <1>7, <2>1 DEF Blamed
  <2>6. Counted(u)' \/ u \in dropped'
    BY <1>2, <1>4 DEF Counted, Sent
  <2>7. Reported(u)'
    BY <1>3, <2>1, <2>5, <2>6 DEF Reported
  <2> QED BY <2>4, <2>7
<1>11. dropped' \cap Reliable = {}
  BY <1>2
<1>12. ASSUME NEW x \in SourceUnits PROVE outcome'[x] # "ok"
  BY UnitSets DEF Reliable, TypeOK
<1> QED BY <1>9, <1>10, <1>11, <1>12

LEMMA TickingKeeps ==
    ASSUME TypeOK, ReportInv, ~closed, ~returned, NEW u, Ticking(u)
    PROVE  ReportInv'
<1> USE DEF Ticking, ReportInv
<1>1. Tick(u) \in Event /\ Tick(u).type # "done"
  BY EventTypes DEF Tick
<1>2. (ch' = Append(ch, Tick(u)) \/ ch' = ch) /\ dropped' = dropped
  BY <1>1, TrySent
<1>3. ASSUME NEW x \in Units, NEW e \in {Done(x), Err(x)}
      PROVE  (Has(ch', e) <=> Has(ch, e)) /\ (Once(ch, e) => Once(ch', e))
  <2>1. /\ Has(Append(ch, Tick(u)), e) <=> Has(ch, e) \/ Tick(u) = e
        /\ Once(ch, e) /\ (Tick(u) = e => ~Has(ch, e)) => Once(Append(ch, Tick(u)), e)
    BY <1>1, ChannelAppend
  <2>2. Tick(u) # e
    BY <1>3, DistinctReports
  <2> QED BY <1>2, <2>1, <2>2
<1>4. ASSUME NEW x \in Units PROVE OnePlace(x)' /\ Reported(x)'
  <2>1. OnePlace(x)'
    BY <1>3, <1>4 DEF OnePlace
  <2>2. (Counted(x)' <=> Counted(x)) /\ (Blamed(x)' <=> Blamed(x))
    BY <1>3, <1>4 DEF Counted, Blamed, Sent
  <2>3. Reported(x)'
    BY <1>2, <1>4, <2>2 DEF Reported
  <2> QED BY <2>1, <2>3
<1> QED BY <1>2, <1>4

LEMMA DyingKeeps ==
    ASSUME TypeOK, ReportInv, NEW u, Dying(u)
    PROVE  ReportInv'
<1> USE DEF Dying, ReportInv
<1>1. ASSUME NEW x \in Units PROVE OnePlace(x)' /\ Reported(x)'
  <2>1. OnePlace(x)'
    BY <1>1 DEF OnePlace
  <2>2. (Counted(x)' <=> Counted(x)) /\ (Blamed(x)' <=> Blamed(x))
    BY DEF Counted, Blamed, Sent
  <2>3. Reported(x)'
    BY <1>1, <2>2 DEF Reported, TypeOK
  <2> QED BY <2>1, <2>3
<1>2. ASSUME NEW x \in SourceUnits PROVE outcome'[x] # "ok"
  BY UnitSets DEF Reliable, TypeOK
<1> QED BY <1>1, <1>2

LEMMA SendKeeps ==
    ASSUME TypeOK, ReportInv, ~closed, ~returned, NEW w \in Producers, Send(w)
    PROVE  ReportInv'
<1> DEFINE h == Head(out[w])
<1>1. /\ out[w] \in Seq(Event) /\ out[w] # <<>> /\ h \in Event
      /\ ch' = Append(ch, h) /\ out'[w] = Tail(out[w])
      /\ \A x \in Producers \ {w} : out'[x] = out[x]
  BY DEF Send, TypeOK
<1>2. UNCHANGED <<outcome, dropped, tally, errs, returned>>
  BY DEF Send, caseVars, resultVars
<1> HIDE DEF h
<1>3. ASSUME NEW e
      PROVE  /\ Has(ch', e) <=> Has(ch, e) \/ h = e
             /\ Once(ch, e) /\ (h = e => ~Has(ch, e)) => Once(ch', e)
  BY <1>1, ChannelAppend
<1>4. ASSUME NEW e
      PROVE  /\ Has(out[w], e) <=> Has(out'[w], e) \/ h = e
             /\ Once(out[w], e) => Once(out'[w], e) /\ (h = e => ~Has(out'[w], e))
  BY <1>1, HasHead DEF h
<1>5. ASSUME NEW e PROVE Sent(e)' <=> Sent(e)
  BY <1>1, <1>3, <1>4 DEF Sent
<1>6. ASSUME NEW u \in Units PROVE OnePlace(u)' /\ Reported(u)'
  <2>1. OnePlace(u) /\ Reported(u)
    BY DEF ReportInv
  <2>2. /\ Once(ch', Done(u))
        /\ Has(ch', Done(u)) => tally[u] = 0
    BY <1>3, <1>4, <2>1 DEF OnePlace
  <2>3. ASSUME NEW x \in Producers, Has(out'[x], Done(u))
        PROVE  /\ Has(out[x], Done(u)) /\ h # Done(u)
    <3>1. CASE x = w
      BY <1>4, <2>1, <2>3, <3>1 DEF OnePlace
    <3>2. CASE x # w
      BY <1>1, <1>4, <2>1, <2>3, <3>2 DEF OnePlace
    <3> QED BY <3>1, <3>2
  <2>4. ASSUME NEW x \in Producers PROVE Once(out'[x], Done(u))
    BY <1>1, <1>4, <2>1 DEF OnePlace
  <2>5. OnePlace(u)'
    BY <1>2, <1>3, <2>1, <2>2, <2>3, <2>4 DEF OnePlace
  <2>6. (Counted(u)' <=> Counted(u)) /\ (Blamed(u)' <=> Blamed(u))
    BY <1>2, <1>5 DEF Counted, Blamed
  <2>7. Reported(u)'
    BY <1>2, <2>1, <2>6 DEF Reported
  <2> QED BY <2>5, <2>7
<1> QED BY <1>2, <1>6 DEF ReportInv

LEMMA ReceiveKeeps ==
    ASSUME TypeOK, ReportInv, Receive
    PROVE  ReportInv'
<1> DEFINE h == Head(ch)
<1>1. h \in Event /\ ch # <<>> /\ ch' = Tail(ch) /\ ~returned
  BY DEF Receive, TypeOK, ReportInv
<1>2. UNCHANGED <<out, outcome, dropped, returned>>
  BY DEF Receive, caseVars
<1> DEFINE v == h.unit
<1>3. /\ tally' = [tally EXCEPT ![v] = IF h.type = "done" THEN @ + 1 ELSE @]
      /\ errs'  = [errs EXCEPT ![v] = IF h.type = "err" THEN @ + 1 ELSE @]
  BY DEF Receive
<1>4. /\ v \in Units
      /\ h.type = "done" <=> h = Done(v)
      /\ h.type = "err" <=> h = Err(v)
      /\ \A x : h = Done(x) \/ h = Err(x) => x = v
  BY <1>1 DEF Event, Done, Err
<1> HIDE DEF h, v
<1>5. ASSUME NEW e
      PROVE  /\ Has(ch, e) <=> Has(ch', e) \/ h = e
             /\ Once(ch, e) => Once(ch', e) /\ (h = e => ~Has(ch', e))
  BY <1>1, ChannelHead DEF h
<1>6. ASSUME NEW u \in Units PROVE OnePlace(u)' /\ Reported(u)'
  <2>1. OnePlace(u) /\ Reported(u)
    BY DEF ReportInv
  <2>2. tally'[u] = IF h = Done(u) THEN tally[u] + 1 ELSE tally[u]
    BY <1>3, <1>4 DEF TypeOK
  <2>3. errs'[u] = IF h = Err(u) THEN errs[u] + 1 ELSE errs[u]
    BY <1>3, <1>4 DEF TypeOK
  <2>4. tally[u] \in Nat /\ errs[u] \in Nat
    BY DEF TypeOK
  <2>5. h = Done(u) => tally'[u] = 1 /\ ~Has(ch', Done(u)) /\ \A x \in Producers : ~Has(out[x], Done(u))
    BY <1>5, <2>1, <2>2 DEF OnePlace
  <2>6. OnePlace(u)'
    BY <1>2, <1>5, <2>1, <2>2, <2>5 DEF OnePlace
  <2>7. Counted(u)' <=> Counted(u)
    BY <1>2, <1>5, <2>2, <2>5 DEF Counted, Sent
  <2>8. Blamed(u)' <=> Blamed(u)
    BY <1>2, <1>5, <2>3, <2>4 DEF Blamed, Sent
  <2>9. Reported(u)'
    BY <1>2, <2>1, <2>2, <2>5, <2>7, <2>8 DEF Reported
  <2> QED BY <2>6, <2>9
<1> QED BY <1>1, <1>2, <1>6 DEF ReportInv

LEMMA ReturnKeeps ==
    ASSUME ReportInv, Return
    PROVE  ReportInv'
BY DEF Return, ReportInv, OnePlace, Reported, Counted, Blamed, Sent, caseVars

-----------------------------------------------------------------------------
(* Every action is one of them. *)

LEMMA GiveUpReports ==
    ASSUME TypeOK, ReportInv, NEW w \in Producers, NEW s \in SourceUnits,
           out[w] = <<>>, Report(w, <<Err(s)>>), Fail({s}),
           UNCHANGED <<ch, dropped, tally, errs, returned>>
    PROVE  Reporting(w, {s}, <<Err(s)>>)
<1> DEFINE es == <<Err(s)>>
<1>1. s \in Units /\ outcome[s] \in {"pending", "failed"}
  BY UnitSets DEF ReportInv, TypeOK
<1>2. outcome'[s] = "failed" /\ \A u \in Units \ {s} : outcome'[u] = outcome[u]
  BY <1>1 DEF Fail
<1>3. \A u : (Has(es, Err(u)) <=> u = s) /\ ~Has(es, Done(u)) /\ Once(es, Done(u))
  BY HasOne, DistinctReports
<1> HIDE DEF es
<1>4. Tells(es, {s})
  BY <1>1, <1>2, <1>3 DEF Tells
<1> QED BY <1>4 DEF Reporting, Report, es

\* A walk's units have not been run.
LEMMA WalkIsFresh ==
    ASSUME TypeOK, TriageWork, DiskWork, NEW w \in {"triage", "disk"}
    PROVE  /\ Fresh(InFiles(w)) /\ Fresh(InCur(w))
           /\ InFiles(w) \subseteq ParserUnits /\ InCur(w) \subseteq ParserUnits
<1>1. InFiles(w) \subseteq ParserUnits
  BY DEF InFiles, SeqElems, TypeOK
<1>2. InCur(w) \subseteq ParserUnits
  BY DEF InCur, SeqElems, TypeOK
<1> QED BY <1>1, <1>2 DEF TriageWork, DiskWork, Held, Fresh

LEMMA SkipFileReports ==
    ASSUME TypeOK, TriageWork, DiskWork, NEW w \in {"triage", "disk"}, SkipFile(w)
    PROVE  \E us, es : Reporting(w, us, es)
<1>1. PICK f \in files[w] : Report(w, FileErrs(f)) /\ Fail(SeqElems(f))
  BY DEF SkipFile
<1> DEFINE us == SeqElems(f)
           es == FileErrs(f)
<1>2. f \in Seq(ParserUnits) /\ us \subseteq InFiles(w)
  BY DEF TypeOK, InFiles
<1>3. us \subseteq ParserUnits /\ us \subseteq Units /\ Fresh(us)
  BY <1>2, WalkIsFresh, UnitSets DEF Fresh
<1>4. \A u : (Has(es, Err(u)) <=> u \in us) /\ ~Has(es, Done(u)) /\ Once(es, Done(u))
  BY <1>2, HasFileErrs
<1>5. /\ \A u \in us : outcome'[u] = "failed"
      /\ \A u \in Units \ us : outcome'[u] = outcome[u]
  BY <1>1, <1>3 DEF Fail
<1> HIDE DEF us, es
<1>6. Tells(es, us)
  BY <1>3, <1>4, <1>5 DEF Tells, Fresh
<1>7. out[w] = <<>> /\ UNCHANGED <<ch, dropped, tally, errs, returned>>
  BY DEF SkipFile, Ready, Local, resultVars
<1> QED BY <1>1, <1>6, <1>7 DEF Reporting, Report, us, es

LEMMA ParserTickReports ==
    ASSUME TypeOK, NEW w \in {"triage", "disk"}, ParserTick(w)
    PROVE  \/ \E us, es : Reporting(w, us, es)
           \/ \E u : Ticking(u)
<1> DEFINE u == Head(cur[w])
           es == <<Tick(u)>>
<1>1. u \in Units
  BY DEF ParserTick, TypeOK, Units
<1>2. out[w] = <<>> /\ UNCHANGED <<outcome, tally, errs, returned>>
  BY DEF ParserTick, Ready, caseVars, resultVars
<1>3. CASE Report(w, es) /\ UNCHANGED <<ch, panicked, dropped>>
  <2>1. \A x : ~Has(es, Err(x)) /\ ~Has(es, Done(x)) /\ Once(es, Done(x))
    BY HasOne, DistinctReports
  <2> HIDE DEF es
  <2>2. Tells(es, {})
    BY <1>2, <2>1 DEF Tells
  <2> QED BY <1>2, <1>3, <2>2 DEF Reporting, Report
<1>4. CASE TrySend(Tick(u)) /\ UNCHANGED out
  BY <1>1, <1>2, <1>4 DEF Ticking
<1> QED BY <1>3, <1>4 DEF ParserTick

\* The unit a walk is about to run.
LEMMA HeadIsFresh ==
    ASSUME TypeOK, TriageWork, DiskWork, NEW w \in {"triage", "disk"}, cur[w] # <<>>
    PROVE  /\ Head(cur[w]) \in ParserUnits /\ Head(cur[w]) \in Units
           /\ Head(cur[w]) \in InCur(w) /\ outcome[Head(cur[w])] = "pending"
<1>1. cur[w] \in Seq(ParserUnits)
  BY DEF TypeOK
<1>2. Head(cur[w]) \in InCur(w) /\ Head(cur[w]) \in ParserUnits
  BY <1>1 DEF InCur, SeqElems
<1> QED BY <1>2, WalkIsFresh, UnitSets DEF Fresh

LEMMA ParseOKReports ==
    ASSUME TypeOK, TriageWork, DiskWork, NEW w \in {"triage", "disk"}, ParseOK(w)
    PROVE  \E us, es : Reporting(w, us, es)
<1> DEFINE u == Head(cur[w])
           es == <<Done(u)>>
<1>1. u \in Units /\ u \in ParserUnits /\ outcome[u] = "pending"
  BY HeadIsFresh DEF ParseOK, Parsing
<1>2. out[w] = <<>> /\ UNCHANGED <<ch, dropped, tally, errs, returned>>
  BY DEF ParseOK, Parsing, Ready, Local, resultVars
<1>3. \A x : (Has(es, Done(x)) <=> x = u) /\ ~Has(es, Err(x)) /\ Once(es, Done(x))
  BY HasOne, DistinctReports
<1>4. outcome'[u] = "ok" /\ \A x \in Units \ {u} : outcome'[x] = outcome[x]
  BY <1>1 DEF ParseOK, TypeOK
<1>5. Report(w, es)
  BY DEF ParseOK
<1>6. u \notin SourceUnits
  BY <1>1, UnitsAreCalls
<1> HIDE DEF u, es
<1>7. Tells(es, {u})
  BY <1>1, <1>3, <1>4, <1>6 DEF Tells
<1> QED BY <1>2, <1>5, <1>7 DEF Reporting, Report

LEMMA ParseFailReports ==
    ASSUME TypeOK, TriageWork, DiskWork, NEW w \in {"triage", "disk"}, ParseFail(w)
    PROVE  \E us, es : Reporting(w, us, es)
<1> DEFINE u == Head(cur[w])
           es == IF Kind[u] = "selfreport" THEN <<Err(u), Err(u)>>
                 ELSE IF Kind[u] = "both" THEN <<Done(u), Err(u)>>
                 ELSE <<Err(u)>>
<1>1. u \in Units /\ u \in ParserUnits /\ outcome[u] = "pending"
  BY HeadIsFresh DEF ParseFail, Parsing
<1>2. out[w] = <<>> /\ UNCHANGED <<ch, dropped, tally, errs, returned>>
  BY DEF ParseFail, Parsing, Ready, Local, resultVars
<1>3. ASSUME NEW x
      PROVE  /\ Has(es, Err(x)) <=> x = u
             /\ Has(es, Done(x)) <=> x = u /\ Kind[u] = "both"
             /\ Once(es, Done(x))
  BY HasOne, HasTwo, DistinctReports
<1>4. outcome'[u] = "failed" /\ \A x \in Units \ {u} : outcome'[x] = outcome[x]
  BY <1>1 DEF ParseFail, TypeOK
<1>5. Report(w, es)
  BY DEF ParseFail
<1> HIDE DEF u, es
<1>6. Tells(es, {u})
  BY <1>1, <1>3, <1>4 DEF Tells
<1> QED BY <1>2, <1>5, <1>6 DEF Reporting, Report

LEMMA RamAnnounces ==
    ASSUME TypeOK, RamWork, NativePhase
    PROVE  \E u : Announcing(u)
<1>1. PICK i \in DOMAIN Phases :
        /\ outcome[Phases[i]] = "pending"
        /\ outcome' = [outcome EXCEPT ![Phases[i]] = "ok"]
        /\ TrySend(Done(Phases[i]))
  BY DEF NativePhase
<1> DEFINE u == Phases[i]
<1>2. u \in Units /\ u \notin Reliable
  BY UnitSets, UnitsAreCalls DEF Reliable
<1>3. UNCHANGED <<out, tally, errs, returned>>
  BY DEF NativePhase, resultVars
<1> QED BY <1>1, <1>2, <1>3 DEF Announcing

LEMMA PluginIsNotReliable ==
    ASSUME RamWork, NEW p \in Plugins, pc[p] # "gone"
    PROVE  p \in Units \ Reliable /\ outcome[p] = "pending"
BY UnitSets, UnitsAreCalls DEF RamWork, Fresh, Reliable

\* What a step can do to the reports.
Effect ==
    \/ UNCHANGED reportVars
    \/ /\ ~closed /\ ~returned
       /\ \/ \E w \in Producers : Send(w) \/ \E us, es : Reporting(w, us, es)
          \/ \E u : Announcing(u) \/ Ticking(u) \/ Dying(u)
    \/ Receive \/ Return

LEMMA StepEffect ==
    ASSUME RunInv, [Next]_vars
    PROVE  Effect
<1> USE DEF RunInv
<1>a. TypeOK /\ TypeOK'
  BY TypeStep DEF SafeClose
<1>b. ASSUME NEW w \in Workers, pc[w] # "gone" PROVE ~closed /\ ~returned
  BY <1>b, RunningMeansOpen
<1>c. ASSUME NEW w \in Producers, pc[w] # "gone", \E us, es : Reporting(w, us, es) PROVE Effect
  BY <1>b, <1>c DEF Effect, Workers
<1>0. ASSUME UNCHANGED reportVars PROVE Effect
  BY <1>0 DEF Effect
<1>1. CASE TriageUnreadable
  BY <1>1, <1>a, <1>c, GiveUpReports DEF TriageUnreadable, Ready, GiveUp, Local, resultVars, Producers, SourceUnits
<1>2. CASE DiskUnreadable
  BY <1>2, <1>a, <1>c, GiveUpReports DEF DiskUnreadable, Ready, GiveUp, Local, resultVars, Producers, SourceUnits
<1>3. CASE VolumeEmpty
  BY <1>3, <1>a, <1>c, GiveUpReports DEF VolumeEmpty, Ready, Local, resultVars, Producers, SourceUnits
<1>4. CASE VolatilityMissing
  BY <1>4, <1>a, <1>c, GiveUpReports DEF VolatilityMissing, Ready, GiveUp, Local, resultVars, Producers, SourceUnits
<1>5. CASE TriageOpen \/ TriageEnd
  BY <1>5, <1>0 DEF TriageOpen, TriageEnd, Local, resultVars, caseVars, reportVars
<1>6. CASE DiskOpen \/ VolumeSkip \/ VolumeOpen \/ VolumeHive \/ VolumeEnd \/ DiskEnd
  BY <1>6, <1>0 DEF DiskOpen, VolumeSkip, VolumeOpen, VolumeHive, VolumeEnd, DiskEnd, Local,
     resultVars, caseVars, reportVars
<1>7. CASE NativeOpen \/ NativeEnd \/ RamJoin
  BY <1>7, <1>0 DEF NativeOpen, NativeEnd, RamJoin, Local, resultVars, caseVars, reportVars
<1>8. CASE VolatilityStart
  BY <1>8, <1>0 DEF VolatilityStart, resultVars, caseVars, reportVars
<1>9. CASE NativePhase
  <2>1. pc["ram"] # "gone" /\ "ram" \in Workers
    BY <1>9 DEF NativePhase, Ready, Workers, Producers
  <2> QED BY <1>9, <1>a, <1>b, <2>1, RamAnnounces DEF Effect
<1>10. ASSUME NEW w \in {"triage", "disk"}, Walk(w) PROVE Effect
  <2>1. w \in Producers /\ w \in Workers
    BY DEF Producers, Workers
  <2>2. CASE OpenFile(w) \/ EndFile(w)
    BY <2>2, <1>0 DEF OpenFile, EndFile, Local, resultVars, caseVars, reportVars
  <2>3. CASE SkipFile(w) \/ ParserTick(w) \/ ParseOK(w) \/ ParseFail(w)
    <3>1. pc[w] # "gone"
      BY <2>3 DEF SkipFile, ParserTick, ParseOK, ParseFail, Parsing, Ready
    <3>2. (\E us, es : Reporting(w, us, es)) \/ \E u : Ticking(u)
      BY <1>a, <2>3, SkipFileReports, ParserTickReports, ParseOKReports, ParseFailReports
    <3> QED BY <1>b, <2>1, <3>1, <3>2 DEF Effect
  <2> QED BY <1>10, <2>2, <2>3 DEF Walk
<1>11. ASSUME NEW w \in Producers, Send(w) PROVE Effect
  <2>1. pc[w] # "gone" /\ w \in Workers
    BY <1>11 DEF Send, SafeClose, Workers
  <2> QED BY <1>11, <1>b, <2>1 DEF Effect
<1>12. ASSUME NEW w \in Producers, Exit(w) PROVE Effect
  BY <1>12, <1>0 DEF Exit, resultVars, caseVars, reportVars
<1>13. ASSUME NEW p \in Plugins, Plugin(p) PROVE Effect
  <2>1. CASE PluginFail(p) \/ PluginOK(p)
    <3>1. p \in Units \ Reliable /\ outcome[p] = "pending" /\ p \in Workers /\ pc[p] # "gone"
      BY <2>1, PluginIsNotReliable DEF PluginFail, PluginOK, Workers
    <3>2. (PluginFail(p) => Dying(p)) /\ (PluginOK(p) => Announcing(p))
      BY <1>a, <3>1 DEF PluginFail, PluginOK, Dying, Announcing, Fail, resultVars, TypeOK
    <3> QED BY <1>b, <2>1, <3>1, <3>2 DEF Effect
  <2>2. CASE PluginSpin(p) \/ PluginSpinning(p)
    BY <2>2, <1>0 DEF PluginSpin, PluginSpinning, vars, Local, resultVars, caseVars, reportVars
  <2> QED BY <1>13, <2>1, <2>2 DEF Plugin
<1>14. CASE Close
  BY <1>14, <1>0 DEF Close, resultVars, caseVars, reportVars
<1>15. CASE Receive \/ Return
  BY <1>15 DEF Effect
<1>16. CASE Returned \/ UNCHANGED vars
  BY <1>16, <1>0 DEF Returned, vars, resultVars, caseVars, reportVars
<1> QED
  BY <1>1, <1>2, <1>3, <1>4, <1>5, <1>6, <1>7, <1>8, <1>9, <1>10, <1>11, <1>12, <1>13, <1>14,
     <1>15, <1>16 DEF Next, Goroutine, Triage, Disk, Ram

LEMMA ReportStep ==
    ASSUME RunInv, [Next]_vars
    PROVE  ReportInv'
<1>1. TypeOK /\ TypeOK' /\ ReportInv
  BY TypeStep DEF SafeClose, RunInv
<1> QED BY <1>1, StepEffect, QuietKeeps, ReportingKeeps, AnnouncingKeeps, TickingKeeps, DyingKeeps,
           SendKeeps, ReceiveKeeps, ReturnKeeps DEF Effect

-----------------------------------------------------------------------------
(* A walk runs the units it holds, each once, and touches no other.         *)

LEMMA TailElems ==
    ASSUME NEW S, NEW s \in Seq(S), s # <<>>, \A i, j \in DOMAIN s : s[i] = s[j] => i = j
    PROVE  /\ SeqElems(Tail(s)) \subseteq SeqElems(s) \ {Head(s)}
           /\ \A i, j \in DOMAIN Tail(s) : Tail(s)[i] = Tail(s)[j] => i = j
<1> DEFINE t == Tail(s)
           n == Len(s)
<1>1. /\ n \in Nat /\ n > 0 /\ DOMAIN s = 1 .. n /\ DOMAIN t = 1 .. n - 1
      /\ \A i \in 1 .. n - 1 : t[i] = s[i + 1]
      /\ Head(s) = s[1]
  OBVIOUS
<1> HIDE DEF t, n
<1>2. \A i, j \in DOMAIN t : t[i] = t[j] => i = j
  BY <1>1
<1>3. SeqElems(t) \subseteq SeqElems(s) \ {Head(s)}
  BY <1>1 DEF SeqElems
<1> QED BY <1>2, <1>3 DEF t

LEMMA TakeFile ==
    ASSUME TypeOK, NEW w \in {"triage", "disk"}, NoneTwice(w), NEW f \in files[w],
           files' = [files EXCEPT ![w] = @ \ {f}]
    PROVE  /\ Apart(files'[w]) /\ files'[w] \subseteq files[w]
           /\ InFiles(w)' \subseteq InFiles(w) \ SeqElems(f)
           /\ SeqElems(f) \subseteq InFiles(w)
<1>1. files'[w] = files[w] \ {f}
  BY DEF TypeOK
<1>2. Apart(files'[w])
  BY <1>1 DEF NoneTwice, Apart
<1>3. SeqElems(f) \subseteq InFiles(w)
  BY DEF InFiles
<1>4. ASSUME NEW u \in InFiles(w)' PROVE u \in InFiles(w) \ SeqElems(f)
  <2>1. PICK g \in files[w] \ {f} : u \in SeqElems(g)
    BY <1>1, <1>4 DEF InFiles
  <2>2. SeqElems(f) \cap SeqElems(g) = {}
    BY <2>1 DEF NoneTwice, Apart
  <2> QED BY <2>1, <2>2 DEF InFiles
<1> QED BY <1>1, <1>2, <1>3, <1>4

LEMMA WalkStep ==
    ASSUME TypeOK, NEW w \in {"triage", "disk"}, Walk(w), NoneTwice(w), Fresh(Held(w)),
           Held(w) \subseteq Units, pc[w] = "walk" => cur[w] = <<>>
    PROVE  /\ NoneTwice(w)' /\ Fresh(Held(w))'
           /\ files'[w] \subseteq files[w] /\ Held(w)' \subseteq Held(w)
           /\ \A u \in Units \ Held(w) : outcome'[u] = outcome[u]
           /\ pc'[w] \notin {"start", "volume"} /\ (pc'[w] = "walk" => cur'[w] = <<>>)
<1> DEFINE Goal == /\ NoneTwice(w)' /\ Fresh(Held(w))'
                   /\ files'[w] \subseteq files[w] /\ Held(w)' \subseteq Held(w)
                   /\ \A u \in Units \ Held(w) : outcome'[u] = outcome[u]
<1>0. pc'[w] \notin {"start", "volume"} /\ (pc'[w] = "walk" => cur'[w] = <<>>)
  BY DEF Walk, SkipFile, OpenFile, ParserTick, ParseOK, ParseFail, Parsing, EndFile, Ready, Goto,
     walkVars, TypeOK, Workers, Producers
<1>1. CASE SkipFile(w)
  <2>1. PICK f \in files[w] : files' = [files EXCEPT ![w] = @ \ {f}] /\ Fail(SeqElems(f))
    BY <1>1 DEF SkipFile
  <2>2. cur' = cur
    BY <1>1 DEF SkipFile
  <2>3. NoneTwice(w)' /\ Held(w)' \subseteq Held(w) \ SeqElems(f) /\ SeqElems(f) \subseteq Held(w)
    BY <2>1, <2>2, TakeFile DEF NoneTwice, Held, InCur
  <2>4. \A u \in Units \ SeqElems(f) : outcome'[u] = outcome[u]
    BY <2>1 DEF Fail
  <2>5. Fresh(Held(w))'
    BY <2>3, <2>4 DEF Fresh
  <2> QED BY <1>0, <2>1, <2>3, <2>4, <2>5, TakeFile
<1>2. CASE OpenFile(w)
  <2>1. PICK f \in files[w] : /\ files' = [files EXCEPT ![w] = @ \ {f}]
                             /\ cur' = [cur EXCEPT ![w] = f]
    BY <1>2 DEF OpenFile
  <2>2. cur'[w] = f /\ outcome' = outcome
    BY <1>2, <2>1 DEF OpenFile, TypeOK, caseVars
  <2>3. InCur(w)' = SeqElems(f) /\ \A i, j \in DOMAIN f : f[i] = f[j] => i = j
    BY <2>2 DEF InCur, NoneTwice, Apart
  <2>a. /\ Apart(files'[w]) /\ InFiles(w)' \subseteq InFiles(w) \ SeqElems(f)
        /\ SeqElems(f) \subseteq InFiles(w)
    BY <2>1, TakeFile
  <2>b. \A i, j \in DOMAIN cur'[w] : cur'[w][i] = cur'[w][j] => i = j
    BY <2>2, <2>3
  <2>4. NoneTwice(w)' /\ Held(w)' \subseteq Held(w)
    BY <2>3, <2>a, <2>b DEF NoneTwice, Held
  <2>5. Fresh(Held(w))'
    BY <2>2, <2>4 DEF Fresh
  <2> QED BY <1>0, <2>1, <2>2, <2>4, <2>5, TakeFile
<1>3. CASE ParserTick(w) \/ EndFile(w)
  <2>1. UNCHANGED <<files, cur, outcome>>
    BY <1>3 DEF ParserTick, EndFile, walkVars, caseVars
  <2> QED BY <1>0, <2>1 DEF NoneTwice, Held, InFiles, InCur, Fresh
<1>4. CASE ParseOK(w) \/ ParseFail(w)
  <2> DEFINE h == Head(cur[w])
  <2>1. /\ cur[w] # <<>> /\ cur' = [cur EXCEPT ![w] = Tail(@)] /\ files' = files
        /\ \E o \in {"ok", "failed"} : outcome' = [outcome EXCEPT ![h] = o]
    BY <1>4 DEF ParseOK, ParseFail, Parsing
  <2>2. cur'[w] = Tail(cur[w]) /\ cur[w] \in Seq(ParserUnits)
    BY <2>1 DEF TypeOK
  <2>3. InCur(w)' \subseteq InCur(w) \ {h} /\ InFiles(w)' = InFiles(w) /\ h \in InCur(w)
    <3>1. SeqElems(Tail(cur[w])) \subseteq SeqElems(cur[w]) \ {h}
      BY <2>1, <2>2, TailElems DEF NoneTwice
    <3>2. h = cur[w][1] /\ 1 \in DOMAIN cur[w]
      BY <2>1, <2>2
    <3>3. h \in SeqElems(cur[w])
      BY <3>2 DEF SeqElems
    <3> QED BY <2>1, <2>2, <3>1, <3>3 DEF InCur, InFiles
  <2>4. NoneTwice(w)'
    BY <2>1, <2>2, <2>3, TailElems DEF NoneTwice
  <2>5. Held(w)' \subseteq Held(w) \ {h}
    BY <2>3 DEF Held, NoneTwice
  <2>6. \A u \in Units \ {h} : outcome'[u] = outcome[u]
    BY <2>1 DEF TypeOK
  <2>7. Fresh(Held(w))'
    BY <2>5, <2>6 DEF Fresh
  <2> QED BY <1>0, <2>1, <2>3, <2>4, <2>5, <2>6, <2>7 DEF Held
<1> QED BY <1>1, <1>2, <1>3, <1>4 DEF Walk

\* What else a walk leaves alone.
LEMMA WalkFrame ==
    ASSUME TypeOK, NEW w \in {"triage", "disk"}, Walk(w)
    PROVE  /\ \A x \in {"triage", "disk"} \ {w} : files'[x] = files[x] /\ cur'[x] = cur[x]
           /\ \A x \in Workers \ {w} : pc'[x] = pc[x]
           /\ UNCHANGED <<vols, hive>>
           /\ pc[w] # "start"
<1>1. pc[w] # "start" /\ UNCHANGED <<vols, hive>> /\ (files' = files \/ \E f : files' = [files EXCEPT ![w] = f])
      /\ (cur' = cur \/ \E c : cur' = [cur EXCEPT ![w] = c])
      /\ (pc' = pc \/ \E l : pc' = [pc EXCEPT ![w] = l])
  BY DEF Walk, SkipFile, OpenFile, ParserTick, ParseOK, ParseFail, Parsing, EndFile, Ready, Goto,
     walkVars
<1> QED BY <1>1 DEF TypeOK

\* Whose units are whose.
LEMMA HeldUnits ==
    ASSUME TypeOK, TriageWork, DiskWork
    PROVE  /\ Held("triage") \subseteq TriageUnits
           /\ Held("disk") \subseteq DiskUnits /\ InHive \subseteq DiskUnits
           /\ TriageUnits \cup DiskUnits \subseteq Units
           /\ TriageUnits \cap DiskUnits = {}
<1>1. Held("triage") \subseteq TriageUnits
  BY DEF TriageWork, Held, InFiles, TriageUnits
<1>2. Held("disk") \cup InHive \subseteq DiskUnits
  BY DEF DiskWork, OfVolume, DiskUnits
<1>3. TriageUnits \cup DiskUnits \subseteq Units
  BY DEF Units, ParserUnits
<1> QED BY <1>1, <1>2, <1>3, UnitsAreCalls

LEMMA TriageKept ==
    ASSUME TypeOK, TriageWork, DiskWork,
           files'["triage"] = files["triage"], cur'["triage"] = cur["triage"],
           pc'["triage"] = pc["triage"] \/ pc'["triage"] \notin {"start", "walk"},
           \A u \in TriageUnits : outcome'[u] = outcome[u]
    PROVE  TriageWork'
<1>1. Fresh(Held("triage"))' /\ (Fresh(TriageUnits) => Fresh(TriageUnits)')
  BY HeldUnits DEF TriageWork, Fresh, Held, InFiles, InCur
<1> QED BY <1>1 DEF TriageWork, NoneTwice, InFiles, InCur

\* A producer that touches no unit but its own name's.
LEMMA FailsItself ==
    ASSUME TypeOK, NEW s \in SourceUnits, Fail({s})
    PROVE  \A u \in ParserUnits \cup PhaseUnits \cup Plugins : outcome'[u] = outcome[u]
BY UnitsAreCalls DEF Fail, Units, TypeOK

LEMMA PluginOutcome ==
    ASSUME TypeOK, NEW p \in Plugins, Plugin(p)
    PROVE  /\ \A u \in Units \ {p} : outcome'[u] = outcome[u]
           /\ p \notin ParserUnits \cup PhaseUnits
<1>1. p \in Units /\ p \notin ParserUnits \cup PhaseUnits
  BY UnitSets, UnitsAreCalls
<1>2. CASE PluginFail(p)
  BY <1>1, <1>2 DEF PluginFail, Fail
<1>3. CASE PluginOK(p)
  BY <1>1, <1>3 DEF PluginOK, TypeOK
<1>4. CASE PluginSpin(p) \/ PluginSpinning(p)
  BY <1>1, <1>4 DEF PluginSpin, PluginSpinning, vars, caseVars
<1> QED BY <1>1, <1>2, <1>3, <1>4 DEF Plugin

LEMMA TriageStep ==
    ASSUME RunInv, [Next]_vars
    PROVE  TriageWork'
<1> USE DEF RunInv
<1>a. TypeOK /\ TypeOK'
  BY TypeStep DEF SafeClose
<1> DEFINE Outcomes == \A u \in TriageUnits : outcome'[u] = outcome[u]
<1>0. ASSUME files'["triage"] = files["triage"], cur'["triage"] = cur["triage"],
             pc'["triage"] = pc["triage"] \/ pc'["triage"] \notin {"start", "walk"}, Outcomes
      PROVE  TriageWork'
  BY <1>0, <1>a, TriageKept
<1>b. ASSUME outcome' = outcome \/ \E s \in SourceUnits : Fail({s}) PROVE Outcomes
  BY <1>a, <1>b, FailsItself DEF ParserUnits
<1>1. CASE TriageUnreadable
  <2>1. Outcomes
    BY <1>1, <1>b DEF TriageUnreadable, GiveUp, SourceUnits
  <2> QED BY <1>1, <1>a, <1>0, <2>1 DEF TriageUnreadable, GiveUp, Goto, walkVars, TypeOK, Workers, Producers
<1>2. CASE TriageOpen
  <2>1. /\ files'["triage"] = TriageFiles /\ cur'["triage"] = <<>> /\ pc'["triage"] = "walk"
        /\ outcome' = outcome /\ Fresh(TriageUnits)
    BY <1>2, <1>a DEF TriageOpen, Ready, Goto, caseVars, TypeOK, Workers, Producers, TriageWork
  <2>2. InFiles("triage")' = TriageUnits /\ InCur("triage")' = {}
    BY <2>1 DEF InFiles, InCur, TriageUnits, SeqElems
  <2>3. NoneTwice("triage")'
    BY <2>1, <2>2, UnitsAreCalls DEF NoneTwice
  <2>4. Fresh(Held("triage"))'
    BY <2>1, <2>2 DEF Held, Fresh
  <2> QED BY <2>1, <2>2, <2>3, <2>4 DEF TriageWork
<1>3. CASE TriageEnd
  BY <1>3, <1>a, <1>0 DEF TriageEnd, Goto, walkVars, caseVars, TypeOK, Workers, Producers
<1>4. CASE Walk("triage")
  <2>1. Held("triage") \subseteq Units
    BY <1>a, HeldUnits
  <2>2. pc["triage"] = "walk" => cur["triage"] = <<>>
    BY DEF TriageWork
  <2>3. NoneTwice("triage") /\ Fresh(Held("triage"))
    BY DEF TriageWork
  <2>4. /\ NoneTwice("triage")' /\ Fresh(Held("triage"))'
        /\ files'["triage"] \subseteq files["triage"] /\ Held("triage")' \subseteq Held("triage")
        /\ pc'["triage"] \notin {"start", "volume"} /\ (pc'["triage"] = "walk" => cur'["triage"] = <<>>)
    BY <1>4, <1>a, <2>1, <2>2, <2>3, WalkStep
  <2>5. InCur("triage")' \subseteq TriageUnits
    BY <2>4, <1>a, HeldUnits DEF Held
  <2> QED BY <2>4, <2>5 DEF TriageWork
<1>5. CASE Walk("disk")
  <2>1. Held("disk") \subseteq Units
    BY <1>a, HeldUnits
  <2>2. pc["disk"] = "walk" => cur["disk"] = <<>>
    BY DEF DiskWork
  <2>3. NoneTwice("disk") /\ Fresh(Held("disk"))
    BY DEF DiskWork, Fresh
  <2>4. \A u \in Units \ Held("disk") : outcome'[u] = outcome[u]
    BY <1>5, <1>a, <2>1, <2>2, <2>3, WalkStep
  <2>5. Outcomes
    BY <2>4, <1>a, HeldUnits
  <2> QED BY <1>5, <1>a, <1>0, <2>5, WalkFrame DEF Workers, Producers
<1>6. CASE DiskUnreadable \/ VolumeEmpty
  <2>1. Outcomes
    BY <1>6, <1>b DEF DiskUnreadable, VolumeEmpty, GiveUp, SourceUnits
  <2> QED BY <1>6, <1>a, <1>0, <2>1
      DEF DiskUnreadable, VolumeEmpty, GiveUp, Goto, walkVars, TypeOK, Workers, Producers
<1>7. CASE DiskOpen \/ VolumeSkip \/ VolumeOpen \/ VolumeHive \/ VolumeEnd \/ DiskEnd
  <2>1. UNCHANGED <<files["triage"], cur["triage"], pc["triage"], outcome>>
    BY <1>7, <1>a DEF DiskOpen, VolumeSkip, VolumeOpen, VolumeHive, VolumeEnd, DiskEnd, Goto,
       walkVars, caseVars, TypeOK, Workers, Producers
  <2> QED BY <1>0, <2>1
<1>8. CASE VolatilityMissing
  <2>1. Outcomes
    BY <1>8, <1>b DEF VolatilityMissing, GiveUp, SourceUnits
  <2> QED BY <1>8, <1>a, <1>0, <2>1 DEF VolatilityMissing, GiveUp, Goto, walkVars, TypeOK, Workers, Producers
<1>9. CASE NativePhase
  <2>1. Outcomes
    BY <1>9, <1>a, UnitSets, UnitsAreCalls DEF NativePhase, TypeOK, ParserUnits
  <2> QED BY <1>9, <1>0, <2>1 DEF NativePhase, walkVars
<1>10. CASE NativeOpen \/ NativeEnd \/ RamJoin
  <2>1. UNCHANGED <<files, cur, pc["triage"], outcome>>
    BY <1>10, <1>a DEF NativeOpen, NativeEnd, RamJoin, Goto, walkVars, caseVars, TypeOK, Workers, Producers
  <2> QED BY <1>0, <2>1
<1>11. CASE VolatilityStart
  <2>1. UNCHANGED <<files, cur, pc["triage"], outcome>>
    BY <1>11, <1>a, IngestAssumption DEF VolatilityStart, walkVars, caseVars, TypeOK, Workers, Producers
  <2> QED BY <1>0, <2>1
<1>12. ASSUME NEW w \in Producers, Send(w) PROVE TriageWork'
  BY <1>12, <1>0 DEF Send, walkVars, caseVars
<1>13. ASSUME NEW w \in Producers, Exit(w) PROVE TriageWork'
  <2>1. pc'["triage"] = pc["triage"] \/ pc'["triage"] = "gone"
    BY <1>13, <1>a DEF Exit, Goto, TypeOK, Workers, Producers
  <2> QED BY <1>13, <1>0, <2>1 DEF Exit, walkVars, caseVars
<1>14. ASSUME NEW p \in Plugins, Plugin(p) PROVE TriageWork'
  <2>1. Outcomes
    BY <1>14, <1>a, PluginOutcome DEF ParserUnits, Units
  <2>2. UNCHANGED <<files, cur, pc["triage"]>>
    BY <1>14, <1>a, IngestAssumption
    DEF Plugin, PluginFail, PluginOK, PluginSpin, PluginSpinning, Goto, vars, walkVars, TypeOK, Workers, Producers
  <2> QED BY <1>0, <2>1, <2>2
<1>15. CASE Close \/ Receive \/ Return \/ Returned \/ UNCHANGED vars
  BY <1>15, <1>0 DEF Close, Receive, Return, Returned, vars, walkVars, caseVars
<1> QED
  BY <1>1, <1>2, <1>3, <1>4, <1>5, <1>6, <1>7, <1>8, <1>9, <1>10, <1>11, <1>12, <1>13, <1>14, <1>15
  DEF Next, Goroutine, Triage, Disk, Ram

LEMMA DiskKept ==
    ASSUME TypeOK, TriageWork, DiskWork,
           files'["disk"] = files["disk"], cur'["disk"] = cur["disk"], UNCHANGED <<vols, hive>>,
           pc'["disk"] = pc["disk"] \/ pc'["disk"] \notin {"start", "walk", "volume"},
           \A u \in DiskUnits : outcome'[u] = outcome[u]
    PROVE  DiskWork'
<1>1. Held("disk")' = Held("disk") /\ InHive' = InHive
  BY DEF Held, InFiles, InCur, InHive
<1>2. Fresh(Held("disk") \cup InHive)' /\ (Fresh(DiskUnits) => Fresh(DiskUnits)')
  BY <1>1, HeldUnits DEF DiskWork, Fresh
<1>3. \A v \in vols : Fresh(VolumeUnits(v))'
  BY DEF DiskWork, Fresh, DiskUnits, TypeOK
<1>4. NoneTwice("disk")'
  BY DEF DiskWork, NoneTwice, InFiles, InCur
<1>5. OfVolume(Held("disk") \cup InHive)' /\ InHive' \cap Held("disk")' = {}
  BY <1>1 DEF DiskWork, OfVolume
<1> QED BY <1>1, <1>2, <1>3, <1>4, <1>5 DEF DiskWork

\* Between two volumes nothing is held.
LEMMA BetweenVolumes ==
    ASSUME TypeOK, TriageWork, DiskWork, vols' \subseteq DiskVolumes,
           files'["disk"] = {}, cur'["disk"] = <<>>, hive' = "none", pc'["disk"] # "start",
           \A v \in vols' : Fresh(VolumeUnits(v))'
    PROVE  DiskWork'
<1>1. InFiles("disk")' = {} /\ InCur("disk")' = {} /\ Held("disk")' = {} /\ InHive' = {}
  BY DEF InFiles, InCur, Held, InHive, SeqElems
<1>2. NoneTwice("disk")'
  BY <1>1 DEF NoneTwice, Apart
<1>3. Fresh(Held("disk") \cup InHive)' /\ OfVolume(Held("disk") \cup InHive)'
  BY <1>1 DEF Fresh, OfVolume
<1> QED BY <1>1, <1>2, <1>3 DEF DiskWork

LEMMA VolumeOpenKeeps ==
    ASSUME TypeOK, DiskWork, VolumeOpen
    PROVE  DiskWork'
<1>1. PICK v \in vols : /\ vols' = vols \ {v} /\ hive' \in {v.amcache, "none"}
                        /\ files' = [files EXCEPT !["disk"] = v.files]
  BY DEF VolumeOpen
<1>2. /\ files'["disk"] = v.files /\ cur'["disk"] = <<>> /\ outcome' = outcome
      /\ pc'["disk"] = "walk" /\ v \in DiskVolumes
  BY <1>1 DEF VolumeOpen, Ready, Goto, TypeOK, DiskWork, caseVars, Workers, Producers
<1>3. InFiles("disk")' = UNION {SeqElems(f) : f \in v.files} /\ InCur("disk")' = {}
  BY <1>2 DEF InFiles, InCur, SeqElems
<1>4. /\ Held("disk")' = UNION {SeqElems(f) : f \in v.files}
      /\ (Held("disk") \cup InHive)' \subseteq VolumeUnits(v)
  BY <1>1, <1>3 DEF Held, InHive, VolumeUnits
<1>5. NoneTwice("disk")'
  BY <1>2, <1>3, UnitsAreCalls DEF NoneTwice
<1>6. InHive' \cap Held("disk")' = {}
  BY <1>1, <1>2, <1>4, UnitsAreCalls DEF InHive
<1>7. OfVolume(Held("disk") \cup InHive)'
  BY <1>1, <1>2, <1>4 DEF OfVolume
<1>8. \A x \in vols : Fresh(VolumeUnits(x))'
  BY <1>2 DEF DiskWork, Fresh
<1>9. Fresh(Held("disk") \cup InHive)' /\ \A x \in vols' : Fresh(VolumeUnits(x))'
  BY <1>1, <1>4, <1>8 DEF Fresh
<1> QED BY <1>2, <1>5, <1>6, <1>7, <1>9 DEF DiskWork

LEMMA VolumeHiveKeeps ==
    ASSUME TypeOK, DiskWork, VolumeHive
    PROVE  DiskWork'
<1>1. /\ files'["disk"] = {} /\ cur'["disk"] = <<hive>> /\ hive' = "none" /\ vols' = vols
      /\ pc'["disk"] = "parse" /\ outcome' = outcome /\ files["disk"] = {} /\ hive # "none"
  BY DEF VolumeHive, Ready, Goto, TypeOK, caseVars, Workers, Producers
<1>2. InFiles("disk")' = {} /\ InCur("disk")' = {hive} /\ InHive' = {} /\ InHive = {hive}
  BY <1>1 DEF InFiles, InCur, InHive, SeqElems
<1>3. NoneTwice("disk")'
  BY <1>1, <1>2 DEF NoneTwice, Apart
<1>4. Held("disk")' = InHive /\ (Held("disk") \cup InHive)' = InHive
  BY <1>2 DEF Held
<1>5. OfVolume(Held("disk") \cup InHive)'
  BY <1>1, <1>2, <1>4 DEF DiskWork, OfVolume
<1>6. Fresh(Held("disk") \cup InHive)' /\ \A x \in vols' : Fresh(VolumeUnits(x))'
  BY <1>1, <1>4 DEF DiskWork, Fresh
<1> QED BY <1>1, <1>2, <1>3, <1>5, <1>6 DEF DiskWork

LEMMA DiskWalkKeeps ==
    ASSUME TypeOK, TriageWork, DiskWork, Walk("disk")
    PROVE  DiskWork'
<1>1. Held("disk") \subseteq Units /\ InHive \subseteq Units /\ DiskUnits \subseteq Units
  BY HeldUnits
<1>2. pc["disk"] = "walk" => cur["disk"] = <<>>
  BY DEF DiskWork
<1>3. NoneTwice("disk") /\ Fresh(Held("disk")) /\ Fresh(InHive) /\ InHive \cap Held("disk") = {}
  BY DEF DiskWork, Fresh
<1>4. /\ NoneTwice("disk")' /\ Fresh(Held("disk"))'
      /\ Held("disk")' \subseteq Held("disk")
      /\ \A u \in Units \ Held("disk") : outcome'[u] = outcome[u]
      /\ pc'["disk"] \notin {"start", "volume"} /\ (pc'["disk"] = "walk" => cur'["disk"] = <<>>)
  BY <1>1, <1>2, <1>3, WalkStep
<1>5. UNCHANGED <<vols, hive>> /\ InHive' = InHive
  BY WalkFrame DEF InHive
<1>6. Fresh(Held("disk") \cup InHive)'
  BY <1>1, <1>3, <1>4, <1>5 DEF Fresh
<1>7. OfVolume(Held("disk") \cup InHive)'
  <2>1. (Held("disk") \cup InHive)' \subseteq Held("disk") \cup InHive
    BY <1>4, <1>5
  <2> HIDE DEF OfVolume
  <2>2. OfVolume(Held("disk") \cup InHive)
    BY DEF DiskWork
  <2> QED BY <1>5, <2>1, <2>2 DEF OfVolume
<1>8. ASSUME NEW v \in vols PROVE Fresh(VolumeUnits(v))'
  <2>1. v \in DiskVolumes /\ VolumeUnits(v) \subseteq Units
    BY <1>1 DEF TypeOK, DiskUnits
  <2>2. VolumeUnits(v) \cap Held("disk") = {}
    BY <2>1, UnitsAreCalls DEF DiskWork, OfVolume
  <2> QED BY <1>4, <2>1, <2>2 DEF DiskWork, Fresh
<1> QED BY <1>3, <1>4, <1>5, <1>6, <1>7, <1>8 DEF DiskWork

LEMMA DiskStep ==
    ASSUME RunInv, [Next]_vars
    PROVE  DiskWork'
<1> USE DEF RunInv
<1>a. TypeOK /\ TypeOK'
  BY TypeStep DEF SafeClose
<1> DEFINE Outcomes == \A u \in DiskUnits : outcome'[u] = outcome[u]
<1>0. ASSUME files'["disk"] = files["disk"], cur'["disk"] = cur["disk"], UNCHANGED <<vols, hive>>,
             pc'["disk"] = pc["disk"] \/ pc'["disk"] \notin {"start", "walk", "volume"}, Outcomes
      PROVE  DiskWork'
  BY <1>0, <1>a, DiskKept
<1>b. ASSUME outcome' = outcome \/ \E s \in SourceUnits : Fail({s}) PROVE Outcomes
  BY <1>a, <1>b, FailsItself DEF ParserUnits
<1>c. ASSUME Outcomes, vols' \subseteq vols PROVE \A v \in vols' : Fresh(VolumeUnits(v))'
  BY <1>c, <1>a DEF DiskWork, Fresh, DiskUnits, TypeOK
<1>1. CASE TriageUnreadable \/ DiskUnreadable \/ VolatilityMissing
  <2>1. Outcomes
    BY <1>1, <1>b DEF TriageUnreadable, DiskUnreadable, VolatilityMissing, GiveUp, SourceUnits
  <2> QED BY <1>1, <1>a, <1>0, <2>1
      DEF TriageUnreadable, DiskUnreadable, VolatilityMissing, GiveUp, Goto, walkVars, TypeOK, Workers, Producers
<1>2. CASE TriageOpen \/ TriageEnd
  <2>1. UNCHANGED <<files["disk"], cur["disk"], vols, hive, pc["disk"], outcome>>
    BY <1>2, <1>a DEF TriageOpen, TriageEnd, Goto, walkVars, caseVars, TypeOK, Workers, Producers
  <2> QED BY <1>0, <2>1
<1>3. CASE Walk("triage")
  <2>1. Held("triage") \subseteq Units
    BY <1>a, HeldUnits
  <2>2. NoneTwice("triage") /\ Fresh(Held("triage")) /\ (pc["triage"] = "walk" => cur["triage"] = <<>>)
    BY DEF TriageWork
  <2>3. \A u \in Units \ Held("triage") : outcome'[u] = outcome[u]
    BY <1>3, <1>a, <2>1, <2>2, WalkStep
  <2>4. Outcomes
    BY <2>3, <1>a, HeldUnits
  <2> QED BY <1>3, <1>a, <1>0, <2>4, WalkFrame DEF Workers, Producers
<1>4. CASE Walk("disk")
  BY <1>4, <1>a, DiskWalkKeeps
<1>5. CASE DiskOpen
  <2>1. /\ files'["disk"] = {} /\ cur'["disk"] = <<>> /\ hive' = "none" /\ vols' = DiskVolumes
        /\ pc'["disk"] = "volume" /\ Fresh(DiskUnits) /\ outcome' = outcome
    BY <1>5, <1>a DEF DiskOpen, Ready, Goto, DiskWork, caseVars, TypeOK, Workers, Producers
  <2>2. \A v \in DiskVolumes : Fresh(VolumeUnits(v))'
    BY <2>1 DEF Fresh, DiskUnits
  <2> QED BY <1>a, <2>1, <2>2, BetweenVolumes
<1>6. CASE VolumeSkip \/ VolumeEmpty
  <2>1. Outcomes
    BY <1>6, <1>b DEF VolumeSkip, VolumeEmpty, caseVars, SourceUnits
  <2>2. /\ files'["disk"] = {} /\ cur'["disk"] = <<>> /\ hive' = "none" /\ vols' \subseteq vols
        /\ pc'["disk"] # "start"
    BY <1>6 DEF VolumeSkip, VolumeEmpty, Ready, DiskWork
  <2>3. vols' \subseteq DiskVolumes
    BY <1>a DEF TypeOK
  <2> QED BY <1>a, <1>c, <2>1, <2>2, <2>3, BetweenVolumes
<1>7. CASE VolumeOpen
  BY <1>7, <1>a, VolumeOpenKeeps
<1>8. CASE VolumeHive
  BY <1>8, <1>a, VolumeHiveKeeps
<1>9. CASE VolumeEnd
  <2>1. Outcomes
    BY <1>9 DEF VolumeEnd, caseVars
  <2>2. /\ files'["disk"] = {} /\ cur'["disk"] = <<>> /\ hive' = "none" /\ vols' = vols
        /\ pc'["disk"] # "start"
    BY <1>9, <1>a DEF VolumeEnd, Ready, Goto, walkVars, DiskWork, TypeOK, Workers, Producers
  <2>3. vols' \subseteq DiskVolumes
    BY <1>a DEF TypeOK
  <2> QED BY <1>a, <1>c, <2>1, <2>2, <2>3, BetweenVolumes
<1>10. CASE DiskEnd
  BY <1>10, <1>a, <1>0 DEF DiskEnd, Goto, walkVars, caseVars, TypeOK, Workers, Producers
<1>11. CASE NativePhase
  <2>1. Outcomes
    BY <1>11, <1>a, UnitSets, UnitsAreCalls DEF NativePhase, TypeOK, ParserUnits
  <2> QED BY <1>11, <1>0, <2>1 DEF NativePhase, walkVars
<1>12. CASE NativeOpen \/ NativeEnd \/ RamJoin
  <2>1. UNCHANGED <<files, cur, vols, hive, pc["disk"], outcome>>
    BY <1>12, <1>a DEF NativeOpen, NativeEnd, RamJoin, Goto, walkVars, caseVars, TypeOK, Workers, Producers
  <2> QED BY <1>0, <2>1
<1>13. CASE VolatilityStart
  <2>1. UNCHANGED <<files, cur, vols, hive, pc["disk"], outcome>>
    BY <1>13, <1>a, IngestAssumption DEF VolatilityStart, walkVars, caseVars, TypeOK, Workers, Producers
  <2> QED BY <1>0, <2>1
<1>14. ASSUME NEW w \in Producers, Send(w) PROVE DiskWork'
  BY <1>14, <1>0 DEF Send, walkVars, caseVars
<1>15. ASSUME NEW w \in Producers, Exit(w) PROVE DiskWork'
  <2>1. pc'["disk"] = pc["disk"] \/ pc'["disk"] = "gone"
    BY <1>15, <1>a DEF Exit, Goto, TypeOK, Workers, Producers
  <2> QED BY <1>15, <1>0, <2>1 DEF Exit, walkVars, caseVars
<1>16. ASSUME NEW p \in Plugins, Plugin(p) PROVE DiskWork'
  <2>1. Outcomes
    BY <1>16, <1>a, PluginOutcome DEF ParserUnits, Units
  <2>2. UNCHANGED <<files, cur, vols, hive, pc["disk"]>>
    BY <1>16, <1>a, IngestAssumption
    DEF Plugin, PluginFail, PluginOK, PluginSpin, PluginSpinning, Goto, vars, walkVars, TypeOK, Workers, Producers
  <2> QED BY <1>0, <2>1, <2>2
<1>17. CASE Close \/ Receive \/ Return \/ Returned \/ UNCHANGED vars
  BY <1>17, <1>0 DEF Close, Receive, Return, Returned, vars, walkVars, caseVars
<1> QED
  BY <1>1, <1>2, <1>3, <1>4, <1>5, <1>6, <1>7, <1>8, <1>9, <1>10, <1>11, <1>12, <1>13, <1>14, <1>15, <1>16, <1>17
  DEF Next, Goroutine, Triage, Disk, Ram

-----------------------------------------------------------------------------
(* The RAM dump.                                                           *)

RamUnits == PhaseUnits \cup Plugins

LEMMA RamKept ==
    ASSUME RamWork,
           pc'["ram"] = pc["ram"] \/ pc'["ram"] \notin {"start", "native", "fallback", "join"},
           \A p \in Plugins : pc'[p] # "gone" => pc[p] # "gone",
           \A u \in RamUnits : outcome'[u] = outcome[u] /\ stored'[u] = stored[u]
    PROVE  RamWork'
<1>1. /\ Fresh(PhaseUnits)' <=> Fresh(PhaseUnits)
      /\ Fresh(Plugins)' <=> Fresh(Plugins)
      /\ \A p \in Plugins : Fresh({p})' <=> Fresh({p})
  BY DEF Fresh, RamUnits
<1> QED BY <1>1 DEF RamWork, RamUnits

\* A walk stores rows of parser units only.
LEMMA WalkStores ==
    ASSUME TypeOK, TriageWork, DiskWork, NEW w \in {"triage", "disk"}, Walk(w)
    PROVE  \A u \in RamUnits : outcome'[u] = outcome[u] /\ stored'[u] = stored[u]
<1>1. \A u \in RamUnits : u \in Units /\ u \notin ParserUnits
  BY UnitSets, UnitsAreCalls DEF RamUnits
<1>2. CASE SkipFile(w)
  <2>1. PICK f \in files[w] : Fail(SeqElems(f)) /\ stored' = stored
    BY <1>2 DEF SkipFile
  <2>2. SeqElems(f) \subseteq ParserUnits
    BY DEF TypeOK, SeqElems
  <2> QED BY <1>1, <2>1, <2>2 DEF Fail
<1>3. CASE OpenFile(w) \/ ParserTick(w) \/ EndFile(w)
  BY <1>3 DEF OpenFile, ParserTick, EndFile, caseVars
<1>4. CASE ParseOK(w) \/ ParseFail(w)
  <2> DEFINE h == Head(cur[w])
  <2>1. cur[w] # <<>> /\ (\E o : outcome' = [outcome EXCEPT ![h] = o]) /\ \E r : stored' = [stored EXCEPT ![h] = r]
    BY <1>4 DEF ParseOK, ParseFail, Parsing
  <2>2. h \in ParserUnits
    BY <2>1, HeadIsFresh
  <2> QED BY <1>1, <2>1, <2>2 DEF TypeOK
<1> QED BY <1>2, <1>3, <1>4 DEF Walk

LEMMA RamStep ==
    ASSUME RunInv, [Next]_vars
    PROVE  RamWork'
<1> USE DEF RunInv
<1>a. TypeOK /\ TypeOK'
  BY TypeStep DEF SafeClose
<1> DEFINE Same == \A u \in RamUnits : outcome'[u] = outcome[u] /\ stored'[u] = stored[u]
<1>0. ASSUME pc'["ram"] = pc["ram"] \/ pc'["ram"] \notin {"start", "native", "fallback", "join"},
             \A p \in Plugins : pc'[p] # "gone" => pc[p] # "gone", Same
      PROVE  RamWork'
  BY <1>0, RamKept
<1>b. ASSUME NEW s \in SourceUnits, Fail({s}), stored' = stored PROVE Same
  BY <1>a, <1>b, FailsItself DEF RamUnits
<1>1. CASE TriageUnreadable \/ DiskUnreadable \/ VolatilityMissing
  <2>1. Same
    BY <1>1, <1>b DEF TriageUnreadable, DiskUnreadable, VolatilityMissing, GiveUp, SourceUnits
  <2> QED BY <1>1, <1>a, <1>0, <2>1, IngestAssumption
      DEF TriageUnreadable, DiskUnreadable, VolatilityMissing, GiveUp, Goto, TypeOK, Workers, Producers
<1>2. CASE TriageOpen \/ TriageEnd \/ DiskOpen \/ VolumeSkip \/ VolumeOpen \/ VolumeHive \/ VolumeEnd \/ DiskEnd
  <2>1. UNCHANGED <<outcome, stored>> /\ (pc' = pc \/ \E w \in {"triage", "disk"} : \E l : pc' = [pc EXCEPT ![w] = l])
    BY <1>2 DEF TriageOpen, TriageEnd, DiskOpen, VolumeSkip, VolumeOpen, VolumeHive, VolumeEnd, DiskEnd, Goto, caseVars
  <2>2. pc'["ram"] = pc["ram"] /\ \A p \in Plugins : pc'[p] = pc[p]
    BY <1>a, <2>1, IngestAssumption DEF TypeOK, Workers, Producers
  <2> QED BY <1>0, <2>1, <2>2
<1>3. CASE VolumeEmpty
  <2>1. Same
    BY <1>3, <1>b DEF VolumeEmpty, SourceUnits
  <2> QED BY <1>3, <1>0, <2>1 DEF VolumeEmpty
<1>4. ASSUME NEW w \in {"triage", "disk"}, Walk(w) PROVE RamWork'
  <2>1. Same
    BY <1>4, <1>a, WalkStores
  <2>2. \A x \in Workers \ {w} : pc'[x] = pc[x]
    BY <1>4, <1>a, WalkFrame
  <2> QED BY <1>0, <2>1, <2>2, IngestAssumption DEF Workers, Producers
<1>5. CASE NativeOpen
  <2>1. /\ pc["ram"] = "start" /\ pc'["ram"] \in {"native", "fallback"}
        /\ UNCHANGED <<outcome, stored>> /\ \A p \in Plugins : pc'[p] = pc[p]
    BY <1>5, <1>a, IngestAssumption DEF NativeOpen, Ready, Goto, caseVars, TypeOK, Workers, Producers
  <2>2. /\ Fresh(PhaseUnits)' <=> Fresh(PhaseUnits)
        /\ Fresh(Plugins)' <=> Fresh(Plugins)
        /\ \A p \in Plugins : Fresh({p})' <=> Fresh({p})
    BY <2>1 DEF Fresh
  <2> QED BY <2>1, <2>2 DEF RamWork
<1>6. CASE NativePhase
  <2>1. PICK i \in DOMAIN Phases : /\ outcome' = [outcome EXCEPT ![Phases[i]] = "ok"]
                                   /\ stored' = [stored EXCEPT ![Phases[i]] = "all"]
    BY <1>6 DEF NativePhase
  <2>2. Phases[i] \in PhaseUnits /\ Phases[i] \in Units /\ Phases[i] \notin Plugins
    BY UnitSets, UnitsAreCalls
  <2>3. /\ \A u \in RamUnits \ {Phases[i]} : outcome'[u] = outcome[u] /\ stored'[u] = stored[u]
        /\ outcome'[Phases[i]] = "ok"
    BY <1>a, <2>1, <2>2, UnitSets DEF TypeOK, RamUnits
  <2>4. pc["ram"] = "native" /\ pc' = pc
    BY <1>6 DEF NativePhase, Ready
  <2>5. Fresh(Plugins)' /\ \A p \in Plugins : Fresh({p})'
    BY <2>2, <2>3, <2>4 DEF RamWork, Fresh, RamUnits
  <2>6. \A u \in RamUnits : stored'[u] # "none" => outcome'[u] # "pending"
    BY <2>3 DEF RamWork, RamUnits
  <2> QED BY <2>4, <2>5, <2>6 DEF RamWork, RamUnits
<1>7. CASE NativeEnd \/ RamJoin
  <2>1. UNCHANGED <<outcome, stored>> /\ pc'["ram"] = "exit" /\ \A p \in Plugins : pc'[p] = pc[p]
    BY <1>7, <1>a, IngestAssumption DEF NativeEnd, RamJoin, Goto, caseVars, TypeOK, Workers, Producers
  <2> QED BY <1>0, <2>1
<1>8. CASE VolatilityStart
  <2>1. pc["ram"] = "fallback" /\ pc'["ram"] = "join" /\ UNCHANGED <<outcome, stored>>
    BY <1>8, <1>a DEF VolatilityStart, Ready, caseVars, Workers, Producers
  <2>2. Fresh(PhaseUnits)' /\ Fresh(Plugins)' /\ \A p \in Plugins : Fresh({p})'
    BY <2>1 DEF RamWork, Fresh
  <2> QED BY <2>1, <2>2 DEF RamWork
<1>9. ASSUME NEW w \in Producers, Send(w) \/ Exit(w) PROVE RamWork'
  <2>1. UNCHANGED <<outcome, stored>> /\ (pc' = pc \/ pc' = [pc EXCEPT ![w] = "gone"])
    BY <1>9 DEF Send, Exit, Goto, caseVars
  <2>2. (pc'["ram"] = pc["ram"] \/ pc'["ram"] = "gone") /\ \A p \in Plugins : pc'[p] # "gone" => pc[p] # "gone"
    BY <1>a, <2>1, IngestAssumption DEF TypeOK, Workers, Producers
  <2> QED BY <1>0, <2>1, <2>2
<1>10. ASSUME NEW p \in Plugins, Plugin(p) PROVE RamWork'
  <2>1. pc[p] # "gone" /\ (pc' = pc \/ \E l : pc' = [pc EXCEPT ![p] = l])
    BY <1>10 DEF Plugin, PluginFail, PluginOK, PluginSpin, PluginSpinning, Goto, vars
  <2>2. pc["ram"] = "join" /\ pc'["ram"] = "join" /\ \A q \in Plugins \ {p} : pc'[q] = pc[q]
    BY <1>a, <2>1, IngestAssumption DEF SafeClose, WaitGroups, Running, TypeOK, Workers, Producers
  <2>3. Fresh(PhaseUnits) /\ Fresh({p})
    BY <2>1, <2>2 DEF RamWork
  <2>4. \A u \in RamUnits \ {p} : outcome'[u] = outcome[u]
    BY <1>10, <1>a, PluginOutcome, UnitSets DEF RamUnits
  <2>5. Fresh(PhaseUnits)'
    BY <1>10, <1>a, <2>3, <2>4, PluginOutcome DEF Fresh, RamUnits
  <2>6. ASSUME NEW q \in Plugins \ {p}, pc'[q] # "gone" PROVE Fresh({q})'
    BY <2>2, <2>4, <2>6 DEF RamWork, Fresh, RamUnits
  <2>7. pc'[p] # "gone" => Fresh({p})'
    <3>1. pc'[p] # "gone" => outcome' = outcome
      BY <1>10, <1>a DEF Plugin, PluginFail, PluginOK, PluginSpin, PluginSpinning, Goto, vars,
         caseVars, TypeOK, Workers
    <3> QED BY <2>3, <3>1 DEF Fresh
  <2>8. \A u \in RamUnits : stored'[u] # "none" => outcome'[u] # "pending"
    <3>1. p \in Units
      BY UnitSets
    <3>2. CASE PluginOK(p)
      BY <1>a, <2>4, <3>1, <3>2 DEF PluginOK, RamWork, RamUnits, TypeOK
    <3>3. CASE PluginFail(p)
      BY <1>a, <2>4, <3>1, <3>3 DEF PluginFail, Fail, RamWork, RamUnits, TypeOK
    <3>4. CASE PluginSpin(p) \/ PluginSpinning(p)
      BY <3>4 DEF PluginSpin, PluginSpinning, vars, caseVars, RamWork, RamUnits
    <3> QED BY <1>10, <3>2, <3>3, <3>4 DEF Plugin
  <2> QED BY <2>2, <2>5, <2>6, <2>7, <2>8 DEF RamWork, RamUnits
<1>11. CASE Close \/ Receive \/ Return \/ Returned \/ UNCHANGED vars
  BY <1>11, <1>0 DEF Close, Receive, Return, Returned, vars, caseVars
<1> QED
  BY <1>1, <1>2, <1>3, <1>4, <1>5, <1>6, <1>7, <1>8, <1>9, <1>10, <1>11
  DEF Next, Goroutine, Triage, Disk, Ram

-----------------------------------------------------------------------------
LEMMA RunInvInit == Init => RunInv
<1> SUFFICES ASSUME Init PROVE RunInv
  OBVIOUS
<1>1. SafeClose
  BY SafeCloseInit
<1>2. \A e : ~Sent(e)
  BY HasNone DEF Init, Sent
<1>3. ReportInv
  <2>1. \A u \in Units : OnePlace(u)
    BY <1>2, HasNone DEF Init, OnePlace, Sent
  <2>2. \A u \in Units : Reported(u)
    BY <1>2 DEF Init, Reported, Counted, Blamed
  <2> QED BY <2>1, <2>2, UnitSets DEF Init, ReportInv
<1>4. \A us \in SUBSET Units : Fresh(us)
  BY DEF Init, Fresh
<1>5. \A w \in {"triage", "disk"} : InFiles(w) = {} /\ InCur(w) = {} /\ Held(w) = {}
  BY DEF Init, InFiles, InCur, Held, SeqElems
<1>6. \A w \in {"triage", "disk"} : NoneTwice(w)
  BY <1>5 DEF Init, NoneTwice, Apart
<1>7. TriageWork
  <2>1. TriageUnits \subseteq Units
    BY DEF Units, ParserUnits
  <2> QED BY <1>4, <1>5, <1>6, <2>1 DEF Init, TriageWork
<1>8. DiskWork
  <2>1. DiskUnits \subseteq Units
    BY DEF Units, ParserUnits
  <2>2. InHive = {}
    BY DEF Init, InHive
  <2>3. OfVolume(Held("disk") \cup InHive) /\ Fresh(Held("disk") \cup InHive)
    BY <1>5, <2>2 DEF OfVolume, Fresh
  <2>4. files["disk"] = {} /\ cur["disk"] = <<>> /\ hive = "none" /\ vols = {}
    BY DEF Init
  <2> QED BY <1>4, <1>6, <2>1, <2>2, <2>3, <2>4 DEF DiskWork
<1>9. RamWork
  <2>1. \A p \in Plugins : pc[p] = "gone"
    BY IngestAssumption DEF Init, Workers
  <2> QED BY <1>4, <2>1, UnitSets DEF Init, RamWork
<1> QED BY <1>1, <1>3, <1>7, <1>8, <1>9 DEF RunInv

LEMMA RunInvInductive == RunInv /\ [Next]_vars => RunInv'
<1> SUFFICES ASSUME RunInv, [Next]_vars PROVE RunInv'
  OBVIOUS
<1>1. SafeClose'
  BY SafeCloseInductive DEF RunInv
<1> QED BY <1>1, ReportStep, TriageStep, DiskStep, RamStep DEF RunInv

\* The inductive invariant of the ingest.
THEOREM RunInvHolds == Spec => []RunInv
BY RunInvInit, RunInvInductive, PTL DEF Spec

\* At the close, and so at the return, no report is left to send.
LEMMA NothingInFlight ==
    ASSUME RunInv, closed, ch = <<>>
    PROVE  \A e : ~Sent(e)
<1>1. \A w \in Producers : pc[w] = "gone"
  BY RunningMeansOpen DEF RunInv, Workers
<1>2. \A w \in Producers : out[w] = <<>>
  BY <1>1 DEF RunInv, SafeClose
<1> QED BY <1>2, HasNone DEF Sent

\* RunResult counts no unit twice and only units that have finished, and it
\* blames only units that failed: Receive's arithmetic on what was sent.
THEOREM ReportsTrue == Spec => []ReportsAreTrue
<1>1. RunInv => ReportsAreTrue
  BY DEF RunInv, ReportInv, Reported, Counted, Blamed, ReportsAreTrue
<1> QED BY <1>1, RunInvHolds, PTL

LEMMA SettledAtReturn ==
    ASSUME RunInv, closed, ch = <<>>, NEW u \in Units
    PROVE  /\ outcome[u] = "ok" => tally[u] = 1 \/ u \in dropped
           /\ u \in Reliable /\ outcome[u] = "ok" => tally[u] = 1
           /\ u \in Reliable /\ outcome[u] = "failed" => errs[u] >= 1
<1>1. (Counted(u) <=> tally[u] = 1) /\ (Blamed(u) <=> errs[u] > 0)
  BY NothingInFlight DEF Counted, Blamed
<1>2. Reported(u) /\ dropped \cap Reliable = {}
  BY DEF RunInv, ReportInv
<1>3. errs[u] \in Nat
  BY DEF RunInv, SafeClose, TypeOK
<1> QED BY <1>1, <1>2, <1>3 DEF Reported

\* When Run returns, every parser run on a triage or disk file is in
\* TotalArtifacts or in Errors: walking, sending and draining lose none.
THEOREM CompleteAtReturn == Spec => []ReturnedComplete
<1>1. ASSUME RunInv PROVE ReturnedComplete
  <2>1. returned => closed /\ ch = <<>>
    BY <1>1 DEF RunInv, SafeClose, ReportInv
  <2> QED BY <1>1, <2>1, SettledAtReturn DEF ReturnedComplete, Reliable, Units
<1> QED BY <1>1, RunInvHolds, PTL

\* Only the native phases and the plugins, which send without waiting, can
\* lose a count, and only to a full channel.
THEOREM LossIsCounted == Spec => []OnlyRamReportsAreLost
<1>1. ASSUME RunInv PROVE OnlyRamReportsAreLost
  <2>1. returned => closed /\ ch = <<>>
    BY <1>1 DEF RunInv, SafeClose, ReportInv
  <2>2. dropped \cap (ParserUnits \cup SourceUnits) = {}
    BY <1>1 DEF RunInv, ReportInv, Reliable
  <2> QED BY <1>1, <2>1, <2>2, SettledAtReturn DEF OnlyRamReportsAreLost
<1> QED BY <1>1, RunInvHolds, PTL

\* A RAM dump is stored by the native parser or by Volatility, never both.
THEOREM OneMemoryParser == Spec => []NativeOrFallback
<1>1. RunInv => NativeOrFallback
  BY DEF RunInv, RamWork, Fresh, NativeOrFallback
<1> QED BY <1>1, RunInvHolds, PTL

-----------------------------------------------------------------------------
(* Run keeps its contract.                                                 *)

LEMMA FinishStep ==
    ASSUME TypeOK', ~returned, \A u \in Units : outcome[u] \in {"pending", outcome'[u]},
           UNCHANGED <<tally, errs, returned>>
    PROVE  Contract!Finish
BY DEF Contract!Finish, TypeOK

\* A turn of Run's loop counts a unit, blames one, or shows its progress.
LEMMA ReceiveStep ==
    ASSUME TypeOK, ReportInv, Receive
    PROVE  \/ \E u \in Units : Contract!Count(u) \/ Contract!Blame(u)
           \/ UNCHANGED Contract!vars
<1> DEFINE h == Head(ch)
           v == h.unit
<1>1. h \in Event /\ ch \in Seq(Event) /\ ch # <<>> /\ ~returned /\ UNCHANGED <<outcome, returned>>
  BY DEF Receive, TypeOK, ReportInv, caseVars
<1>2. /\ tally' = [tally EXCEPT ![v] = IF h.type = "done" THEN @ + 1 ELSE @]
      /\ errs'  = [errs EXCEPT ![v] = IF h.type = "err" THEN @ + 1 ELSE @]
  BY DEF Receive
<1>3. h = ch[1] /\ 1 \in DOMAIN ch
  BY <1>1
<1>4. Has(ch, h)
  BY <1>3 DEF Has
<1> HIDE DEF h
<1>5. v \in Units /\ OnePlace(v) /\ Reported(v)
  BY <1>1 DEF Event, ReportInv
<1>6. tally \in [Units -> Nat] /\ errs \in [Units -> Nat]
  BY DEF TypeOK
<1> HIDE DEF v
<1>7. CASE h.type = "done"
  <2>1. h = Done(v)
    BY <1>1, <1>7 DEF Event, Done, v
  <2>2. tally[v] = 0 /\ outcome[v] # "pending"
    BY <1>4, <1>5, <2>1 DEF OnePlace, Reported, Counted, Sent
  <2>3. tally' = [tally EXCEPT ![v] = 1] /\ errs' = errs
    BY <1>2, <1>5, <1>6, <1>7, <2>2
  <2> QED BY <1>1, <1>5, <2>2, <2>3 DEF Contract!Count
<1>8. CASE h.type = "err"
  <2>1. h = Err(v)
    BY <1>1, <1>8 DEF Event, Err, v
  <2>2. outcome[v] = "failed"
    BY <1>4, <1>5, <2>1 DEF Reported, Blamed, Sent
  <2>3. tally' = tally /\ errs' = [errs EXCEPT ![v] = @ + 1]
    BY <1>2, <1>5, <1>6, <1>8
  <2> QED BY <1>1, <1>5, <2>2, <2>3 DEF Contract!Blame
<1>9. CASE h.type \notin {"done", "err"}
  <2>1. tally' = tally /\ errs' = errs
    BY <1>2, <1>6, <1>9
  <2> QED BY <1>1, <2>1 DEF Contract!vars
<1> QED BY <1>7, <1>8, <1>9

LEMMA ContractStep ==
    ASSUME RunInv, [Next]_vars
    PROVE  [Contract!Next]_(Contract!vars)
<1>a. TypeOK /\ TypeOK' /\ ReportInv
  BY TypeStep DEF SafeClose, RunInv
<1>1. CASE UNCHANGED reportVars
  BY <1>1 DEF reportVars, Contract!vars
<1>2. ASSUME NEW w \in Producers, Send(w) PROVE UNCHANGED Contract!vars
  BY <1>2 DEF Send, caseVars, resultVars, Contract!vars
<1>3. ASSUME NEW w \in Producers, NEW us, NEW es, Reporting(w, us, es), ~returned PROVE Contract!Finish
  <2>1. \A u \in Units : outcome[u] \in {"pending", outcome'[u]}
    BY <1>3 DEF Reporting, Tells
  <2> QED BY <1>a, <1>3, <2>1, FinishStep DEF Reporting
<1>4. ASSUME NEW u, Announcing(u) \/ Dying(u), ~returned PROVE Contract!Finish
  <2>1. \A x \in Units : outcome[x] \in {"pending", outcome'[x]}
    BY <1>a, <1>4 DEF Announcing, Dying, TypeOK
  <2> QED BY <1>a, <1>4, <2>1, FinishStep DEF Announcing, Dying
<1>5. ASSUME NEW u, Ticking(u) PROVE UNCHANGED Contract!vars
  BY <1>5 DEF Ticking, Contract!vars
<1>6. CASE Receive
  BY <1>a, <1>6, ReceiveStep DEF Contract!Next
<1>7. CASE Return
  <2>1. \A u \in ParserUnits \cup SourceUnits : Contract!Settled(u)
    BY <1>7, SettledAtReturn DEF Return, Contract!Settled, Reliable, Units
  <2> QED BY <1>7, <2>1 DEF Return, caseVars, Contract!Return, Contract!Next
<1> QED BY <1>1, <1>2, <1>3, <1>4, <1>5, <1>6, <1>7, StepEffect DEF Effect, Contract!Next

\* orchestrator.Run implements RunContract: every step of its goroutines is
\* a step of the contract or none.
THEOREM RunKeepsContract == Spec => KeepsContract
<1>1. Init => Contract!Init
  BY DEF Init, Contract!Init
<1> QED BY <1>1, ContractStep, RunInvHolds, PTL DEF Spec, KeepsContract, Contract!Spec
=============================================================================
