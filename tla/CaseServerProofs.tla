---------------------------- MODULE CaseServerProofs ----------------------------
(***************************************************************************)
(* CaseServer for any number of requests, tables and detectors: type       *)
(* correctness, when a cached timeline can be stale, which memory rows a   *)
(* detector's hits may show, and how often a hit is stored.                *)
(***************************************************************************)
EXTENDS CaseServer, SequenceTheorems, TLAPS

\* The kinds of goroutine are different goroutines.
LEMMA Kinds ==
    /\ Boot \in Actors /\ Boot \in Runners /\ Boot \in Warmers
    /\ Boot \notin Detects \cup RamRuns \cup Merges \cup Views
    /\ Detects \cap (RamRuns \cup Merges \cup Views) = {}
    /\ RamRuns \cap (Merges \cup Views) = {} /\ Merges \cap Views = {}
    /\ Runners \subseteq Actors /\ Warmers \subseteq Runners
    /\ RamRuns \subseteq Runners /\ Detects \subseteq Warmers
    /\ Merges \subseteq Actors /\ Views \subseteq Actors
    /\ Old \notin Actors
BY ServerAssumption DEF Actors, Runners, Warmers

LEMMA Names ==
    /\ \A k \in DOMAIN Builtins : Builtins[k] \in Detector
    /\ \A k \in DOMAIN MemTables : MemTables[k] \in MemTable
    /\ Disk \in Table /\ Disk \notin MemTable /\ MemTable \subseteq Table
    /\ \A d \in Detector : Reads(d) \subseteq Table
BY ServerAssumption DEF Detector, MemTable, Table

LEMMA HitType ==
    ASSUME TypeOK, NEW d \in Detector, NEW r \in Runners
    PROVE  Hit(d, r) \in Hits
<1>1. [t \in Reads(d) |-> rows[t]] \in [Reads(d) -> SUBSET Source]
  BY Names DEF TypeOK
<1> QED BY <1>1 DEF Hit, Hits

LEMMA ContentType == TypeOK => Content \in Contents /\ Nothing \in Contents
BY Names DEF TypeOK, Content, Contents, Nothing

LEMMA TypeInit == Init => TypeOK
<1> SUFFICES ASSUME Init PROVE TypeOK
  OBVIOUS
<1>1. rows \in [Table -> SUBSET Source]
  BY DEF Init, Source
<1>2. OldHits(rows) \subseteq Hits
  <2>1. ASSUME NEW d \in Detector
        PROVE  [id |-> d, by |-> Old, from |-> [t \in Reads(d) |-> rows[t]]] \in Hits
    <3>1. [t \in Reads(d) |-> rows[t]] \in [Reads(d) -> SUBSET Source]
      BY <1>1, Names
    <3> QED BY <3>1 DEF Hits
  <2> QED BY <2>1 DEF OldHits
<1>3. pc \in [Actors -> Labels]
  BY DEF Init, Labels
<1>4. /\ det \subseteq Hits /\ mixed \in BOOLEAN
      /\ sig \subseteq Runners \cup {Old} /\ manual \subseteq Imports /\ derived \subseteq Runners
  <2>1. det \in {{}, OldHits(rows)} /\ mixed = FALSE /\ sig \in {{}, {Old}} /\ manual = {} /\ derived = {}
    BY DEF Init
  <2> QED BY <1>2, <2>1
<1>5. /\ cache \in Contents \cup {NoRows} /\ built \in [Warmers \cup Views -> Builds \cup {NoRows}]
      /\ clock \in Nat /\ newest \in 0 .. clock /\ overtaken \in BOOLEAN
  <2>1. /\ cache = NoRows /\ built = [a \in Warmers \cup Views |-> NoRows]
        /\ clock = 0 /\ newest = 0 /\ overtaken = FALSE
    BY DEF Init
  <2>2. built \in [Warmers \cup Views -> Builds \cup {NoRows}]
    BY <2>1
  <2>3. clock \in Nat /\ newest \in 0 .. clock
    BY <2>1
  <2>4. cache \in Contents \cup {NoRows} /\ overtaken \in BOOLEAN
    BY <2>1
  <2> QED BY <2>2, <2>3, <2>4
<1>6. /\ at \in [Runners -> Nat] /\ left \in [RamRuns -> SUBSET MemTable]
      /\ cov \in [Runners -> SUBSET Table]
      /\ warm \in [Warmers -> {"none", "build", "store", "stored"}]
  BY DEF Init
<1> QED BY <1>1, <1>3, <1>4, <1>5, <1>6 DEF TypeOK

-----------------------------------------------------------------------------
(* Type correctness, with what orders the builds of the timeline. *)

\* A build is no younger than the clock, and who is about to store one has it.
Stamps ==
    /\ \A a \in Warmers \cup Views : built[a] # NoRows => built[a].stamp <= clock
    /\ \A r \in Warmers : warm[r] = "store" => built[r] # NoRows
    /\ \A v \in Views : pc[v] = "store" => built[v] # NoRows

DataOK ==
    /\ rows \in [Table -> SUBSET Source] /\ det \subseteq Hits /\ mixed \in BOOLEAN
    /\ sig \subseteq Runners \cup {Old} /\ manual \subseteq Imports /\ derived \subseteq Runners
ControlOK ==
    /\ pc \in [Actors -> Labels]
    /\ at \in [Runners -> Nat] /\ left \in [RamRuns -> SUBSET MemTable]
    /\ cov \in [Runners -> SUBSET Table]
    /\ warm \in [Warmers -> {"none", "build", "store", "stored"}]
TimelineOK ==
    /\ cache \in Contents \cup {NoRows}
    /\ built \in [Warmers \cup Views -> Builds \cup {NoRows}]
    /\ clock \in Nat /\ newest \in 0 .. clock /\ overtaken \in BOOLEAN

LEMMA TypeParts == DataOK' /\ ControlOK' /\ TimelineOK' => TypeOK'
BY DEF TypeOK, DataOK, ControlOK, TimelineOK

LEMMA InvalidateType == TypeOK /\ Invalidate => TimelineOK'
BY DEF TypeOK, Invalidate, TimelineOK

LEMMA BuildType ==
    ASSUME TypeOK, NEW a \in Warmers \cup Views, Build(a)
    PROVE  /\ TimelineOK' /\ built'[a] # NoRows /\ built'[a].stamp = clock'
           /\ built'[a].data \in {Content, Nothing}
<1>0. PICK c \in {Content, Nothing} : built' = [built EXCEPT ![a] = [data |-> c, stamp |-> clock + 1]]
  BY DEF Build
<1> DEFINE b == [data |-> c, stamp |-> clock + 1]
<1>1. b \in Builds /\ b.stamp = clock + 1 /\ b.data = c
  BY ContentType DEF Builds, TypeOK
<1>2. b # NoRows
  BY <1>1, ServerAssumption
<1>3. /\ built' = [built EXCEPT ![a] = b] /\ clock' = clock + 1
      /\ UNCHANGED <<cache, newest, overtaken>>
  BY <1>0 DEF Build
<1> HIDE DEF b
<1>4. TimelineOK' /\ built'[a] = b
  BY <1>1, <1>3 DEF TypeOK, TimelineOK
<1> QED BY <1>1, <1>2, <1>3, <1>4

LEMMA StoreType ==
    ASSUME TypeOK, Stamps, NEW a \in Warmers \cup Views, built[a] # NoRows, Store(a)
    PROVE  TimelineOK'
<1>1. built[a].data \in Contents /\ built[a].stamp \in Nat /\ built[a].stamp <= clock
  BY DEF TypeOK, Builds, Stamps
<1> QED BY <1>1 DEF TypeOK, Store, TimelineOK

LEMMA DiscardType ==
    ASSUME TypeOK, NEW a \in Warmers \cup Views, Discard(a)
    PROVE  TimelineOK'
BY DEF TypeOK, Discard, TimelineOK

\* The timeline's actions, of warmer r or view v.
LEMMA WarmType ==
    ASSUME TypeOK, Stamps, NEW r \in Warmers, WarmStep(r)
    PROVE  TypeOK' /\ Stamps'
<1>1. DataOK' /\ ControlOK' /\ pc' = pc
  BY DEF WarmStep, WarmBuild, WarmStore, TypeOK, DataOK, ControlOK, data
<1>2. CASE WarmBuild(r)
  <2>1. TimelineOK' /\ built'[r] # NoRows /\ built'[r].stamp = clock' /\ clock' = clock + 1
    BY <1>2, BuildType DEF WarmBuild, Build
  <2>2. \A a \in (Warmers \cup Views) \ {r} : built'[a] = built[a]
    BY <1>2 DEF WarmBuild, Build, TypeOK
  <2>3. \A a \in Warmers \ {r} : warm'[a] = warm[a]
    BY <1>2 DEF WarmBuild, TypeOK
  <2>4. \A a \in (Warmers \cup Views) : built'[a] # NoRows => built'[a].stamp <= clock'
    BY <2>1, <2>2 DEF Stamps, TypeOK, Builds
  <2> QED BY <1>1, <2>1, <2>2, <2>3, <2>4, TypeParts DEF Stamps
<1>3. CASE WarmStore(r)
  <2>1. TimelineOK'
    BY <1>3, StoreType DEF WarmStore, Stamps
  <2>2. /\ built' = [built EXCEPT ![r] = NoRows] /\ clock' = clock
        /\ warm' = [warm EXCEPT ![r] = "stored"]
    BY <1>3 DEF WarmStore, Store
  <2>3. r \notin Views
    BY Kinds DEF Warmers
  <2>4. Stamps'
    BY <1>1, <2>2, <2>3 DEF Stamps, TypeOK
  <2> QED BY <1>1, <2>1, <2>4, TypeParts
<1> QED BY <1>2, <1>3 DEF WarmStep

LEMMA ViewType ==
    ASSUME TypeOK, Stamps, NEW v \in Views, ViewStep(v)
    PROVE  TypeOK' /\ Stamps'
<1>1. DataOK' /\ ControlOK' /\ warm' = warm /\ v \in Actors /\ v \notin Warmers
  BY Kinds DEF ViewStep, ViewHit, ViewMiss, ViewBuild, ViewStore, Step, Goto, TypeOK, DataOK,
     ControlOK, data, Labels, Warmers
<1>2. CASE ViewHit(v) \/ ViewMiss(v)
  <2>1. UNCHANGED tl /\ pc'[v] # "store" /\ \A x \in Views \ {v} : pc'[x] = pc[x]
    BY <1>1, <1>2, Kinds DEF ViewHit, ViewMiss, Step, Goto, TypeOK
  <2> QED BY <1>1, <2>1, TypeParts DEF tl, TypeOK, TimelineOK, Stamps
<1>3. CASE ViewBuild(v)
  <2>1. TimelineOK' /\ built'[v] # NoRows /\ built'[v].stamp = clock' /\ clock' = clock + 1
    BY <1>3, BuildType DEF ViewBuild, Build
  <2>2. \A a \in (Warmers \cup Views) \ {v} : built'[a] = built[a]
    BY <1>3 DEF ViewBuild, Build, TypeOK
  <2>3. \A x \in Views \ {v} : pc'[x] = pc[x]
    BY <1>3, Kinds DEF ViewBuild, Step, Goto, TypeOK
  <2>4. \A a \in (Warmers \cup Views) : built'[a] # NoRows => built'[a].stamp <= clock'
    BY <2>1, <2>2 DEF Stamps, TypeOK, Builds
  <2> QED BY <1>1, <2>1, <2>2, <2>3, <2>4, TypeParts DEF Stamps
<1>4. CASE ViewStore(v)
  <2>1. TimelineOK'
    BY <1>4, StoreType, DiscardType DEF ViewStore, Step, Stamps
  <2>2. /\ built' = [built EXCEPT ![v] = NoRows] /\ clock' = clock /\ pc'[v] = "done"
        /\ \A x \in Views \ {v} : pc'[x] = pc[x]
    BY <1>1, <1>4, Kinds DEF ViewStore, Store, Discard, Step, Goto, TypeOK
  <2>3. Stamps'
    BY <1>1, <2>2 DEF Stamps, TypeOK
  <2> QED BY <1>1, <2>1, <2>3, TypeParts
<1> QED BY <1>2, <1>3, <1>4 DEF ViewStep

\* Any other step leaves the timeline alone or invalidates it.
LEMMA OtherType ==
    ASSUME TypeOK, Stamps, DataOK', ControlOK', UNCHANGED tl \/ Invalidate,
           \A v \in Views : pc'[v] = pc[v],
           \A r \in Warmers : warm'[r] = "store" => warm[r] = "store"
    PROVE  TypeOK' /\ Stamps'
<1>1. TimelineOK'
  BY InvalidateType DEF tl, TypeOK, TimelineOK
<1>2. built' = built /\ clock' >= clock /\ clock \in Nat /\ clock' \in Nat
  BY DEF tl, Invalidate, TypeOK
<1>3. \A a \in Warmers \cup Views : built[a] # NoRows => built[a].stamp \in Nat
  BY DEF TypeOK, Builds
<1>4. Stamps'
  BY <1>2, <1>3 DEF Stamps
<1> QED BY <1>1, <1>4, TypeParts

\* One actor's move.
LEMMA MoveType ==
    ASSUME TypeOK, NEW a \in Actors, NEW l, NEW m \in Labels, Step(a, l, m)
    PROVE  /\ pc' \in [Actors -> Labels] /\ pc[a] = l /\ pc'[a] = m
           /\ \A x \in Actors \ {a} : pc'[x] = pc[x]
BY DEF Step, Goto, TypeOK

LEMMA RunAllType ==
    ASSUME TypeOK, NEW r \in Runners, RunAll(r)
    PROVE  /\ DataOK' /\ ControlOK' /\ UNCHANGED <<warm, tl>>
           /\ \A x \in Actors \ {r} : pc'[x] = pc[x]
<1>0. r \in Actors /\ \A ok : AfterRunAll(r, ok) \in Labels
  BY Kinds DEF AfterRunAll, Labels
<1>a. DataOK /\ ControlOK
  BY DEF TypeOK, DataOK, ControlOK
<1>1. CASE Cover(r)
  <2>1. cov' \in [Runners -> SUBSET Table]
    BY <1>1 DEF Cover, TypeOK
  <2> QED BY <1>0, <1>1, <1>a, <2>1, MoveType DEF Cover, Labels, data, DataOK, ControlOK
<1>2. CASE ClearFails(r) \/ RunAllEnd(r)
  BY <1>0, <1>2, <1>a, MoveType DEF ClearFails, RunAllEnd, data, DataOK, ControlOK
<1>3. CASE Clear(r)
  BY <1>0, <1>3, <1>a, MoveType DEF Clear, Labels, DataOK, ControlOK
<1>4. CASE Enrich(r)
  <2>1. at' \in [Runners -> Nat] /\ derived' \subseteq Runners
    BY <1>4 DEF Enrich, TypeOK
  <2> QED BY <1>0, <1>4, <1>a, <2>1, MoveType DEF Enrich, Labels, DataOK, ControlOK
<1>5. CASE Insert(r)
  <2>1. Hit(Builtins[at[r]], r) \in Hits
    BY <1>5, Names, HitType DEF Insert
  <2>2. det' \subseteq Hits /\ at' \in [Runners -> Nat]
    BY <1>5, <2>1 DEF Insert, TypeOK
  <2> QED BY <1>5, <1>a, <2>2 DEF Insert, DataOK, ControlOK
<1> QED BY <1>1, <1>2, <1>3, <1>4, <1>5 DEF RunAll, Cover, ClearFails, Clear, Enrich, Insert, RunAllEnd

LEMMA SigmaType ==
    ASSUME TypeOK, NEW r \in Warmers, NEW l \in Labels, Sigma(r) \/ Warm(r, l)
    PROVE  /\ DataOK' /\ ControlOK' /\ UNCHANGED tl
           /\ \A x \in Actors \ {r} : pc'[x] = pc[x]
           /\ \A x \in Warmers : warm'[x] = "store" => warm[x] = "store"
<1>0. r \in Actors /\ r \in Runners
  BY Kinds
<1>a. DataOK /\ ControlOK
  BY DEF TypeOK, DataOK, ControlOK
<1>1. CASE SigmaNone(r)
  BY <1>0, <1>1, <1>a, MoveType DEF SigmaNone, Labels, data, DataOK, ControlOK
<1>2. CASE SigmaClear(r)
  BY <1>0, <1>2, <1>a, MoveType DEF SigmaClear, Labels, DataOK, ControlOK
<1>3. CASE SigmaRules(r)
  BY <1>0, <1>3, <1>a, MoveType DEF SigmaRules, Labels, DataOK, ControlOK
<1>4. CASE Warm(r, l)
  BY <1>0, <1>4, <1>a, MoveType DEF Warm, data, DataOK, ControlOK
<1> QED BY <1>1, <1>2, <1>3, <1>4 DEF Sigma

LEMMA RamType ==
    ASSUME TypeOK, NEW r \in RamRuns, RerunRam(r) \/ RamStep(r)
    PROVE  /\ DataOK' /\ ControlOK' /\ UNCHANGED <<warm, tl>>
           /\ \A x \in Actors \ {r} : pc'[x] = pc[x]
<1>0. r \in Actors /\ r \in Runners /\ r \in Source
  BY Kinds DEF Source
<1>a. DataOK /\ ControlOK
  BY DEF TypeOK, DataOK, ControlOK
<1>1. CASE RerunRam(r)
  BY <1>0, <1>1, <1>a, MoveType DEF RerunRam, Labels, data, DataOK, ControlOK
<1>2. CASE WipeTable(r)
  <2>1. MemTables[at[r]] \in Table
    BY <1>2, Names DEF WipeTable
  <2>2. rows' \in [Table -> SUBSET Source] /\ at' \in [Runners -> Nat]
    BY <1>0, <1>2, <2>1 DEF WipeTable, TypeOK
  <2> QED BY <1>2, <1>a, <2>2 DEF WipeTable, DataOK, ControlOK
<1>3. CASE WipeEnd(r) \/ NativeFails(r) \/ VolatilityMissing(r) \/ FillEnd(r)
  BY <1>0, <1>3, <1>a, MoveType DEF WipeEnd, NativeFails, VolatilityMissing, FillEnd, Labels, data, DataOK, ControlOK
<1>4. CASE NativeStarts(r) \/ VolatilityStarts(r)
  <2>1. left' \in [RamRuns -> SUBSET MemTable]
    BY <1>4 DEF NativeStarts, VolatilityStarts, RamFillStart, TypeOK
  <2> QED BY <1>0, <1>4, <1>a, <2>1, MoveType
      DEF NativeStarts, VolatilityStarts, RamFillStart, Labels, data, DataOK, ControlOK
<1>5. CASE FillTable(r)
  <2>1. PICK t \in left[r] : /\ left' = [left EXCEPT ![r] = @ \ {t}]
                             /\ rows' \in {rows, [rows EXCEPT ![t] = @ \cup {r}]}
    BY <1>5 DEF FillTable
  <2>2. t \in Table /\ t \in MemTable
    BY Names DEF TypeOK
  <2>3. rows' \in [Table -> SUBSET Source] /\ left' \in [RamRuns -> SUBSET MemTable]
    BY <1>0, <2>1, <2>2 DEF TypeOK
  <2> QED BY <1>5, <1>a, <2>3 DEF FillTable, DataOK, ControlOK
<1>6. CASE RunAll(r)
  BY <1>0, <1>6, RunAllType
<1>7. CASE PluginSpins(r)
  <2>1. left' \in [RamRuns -> SUBSET MemTable]
    BY <1>7 DEF PluginSpins, TypeOK
  <2>2. pc' \in [Actors -> Labels] /\ \A x \in Actors \ {r} : pc'[x] = pc[x]
    BY <1>0, <1>7 DEF PluginSpins, Goto, Labels, TypeOK
  <2> QED BY <1>7, <1>a, <2>1, <2>2 DEF PluginSpins, data, DataOK, ControlOK
<1> QED BY <1>0, <1>1, <1>2, <1>3, <1>4, <1>5, <1>6, <1>7, MoveType
    DEF RerunRam, RamStep, WipeTable, WipeEnd, NativeFails, VolatilityMissing, FillEnd, NativeStarts,
        VolatilityStarts, RamFillStart, FillTable, Labels

LEMMA MergeType ==
    ASSUME TypeOK, NEW m \in Merges, MergeStart(m) \/ MergeStep(m)
    PROVE  /\ DataOK' /\ ControlOK' /\ warm' = warm /\ (UNCHANGED tl \/ Invalidate)
           /\ \A x \in Actors \ {m} : pc'[x] = pc[x]
<1>0. m \in Actors /\ m \in Source
  BY Kinds DEF Source
<1>a. DataOK /\ ControlOK
  BY DEF TypeOK, DataOK, ControlOK
<1>1. CASE MergeStart(m)
  BY <1>0, <1>1, <1>a, MoveType DEF MergeStart, Labels, data, DataOK, ControlOK
<1>2. CASE MergeIngest(m)
  <2>1. rows' \in [Table -> SUBSET Source]
    BY <1>0, <1>2, Names DEF MergeIngest, TypeOK
  <2> QED BY <1>0, <1>2, <1>a, <2>1, MoveType DEF MergeIngest, Labels, DataOK, ControlOK
<1>3. CASE MergeEnd(m)
  BY <1>0, <1>3, <1>a, MoveType DEF MergeEnd, Labels, data, DataOK, ControlOK
<1> QED BY <1>1, <1>2, <1>3 DEF MergeStep

LEMMA TypeStep ==
    ASSUME TypeOK, Stamps, [Next]_vars
    PROVE  TypeOK' /\ Stamps'
<1>a. DataOK /\ ControlOK
  BY DEF TypeOK, DataOK, ControlOK
<1> USE OtherType, Kinds
<1>1. CASE BootOpen
  <2>1. DataOK' /\ ControlOK' /\ UNCHANGED <<warm, tl>> /\ \A v \in Views : pc'[v] = pc[v]
    BY <1>1, <1>a, ServerAssumption DEF BootOpen, data, Labels, DataOK, ControlOK
  <2> QED BY <2>1
<1>2. CASE BootCount
  <2>1. Step(Boot, "count", "cover") \/ Step(Boot, "count", "warm")
    BY <1>2 DEF BootCount
  <2>2. DataOK' /\ ControlOK' /\ UNCHANGED <<warm, tl>> /\ \A v \in Views : pc'[v] = pc[v]
    BY <1>2, <1>a, <2>1, MoveType DEF BootCount, data, Labels, DataOK, ControlOK
  <2> QED BY <2>2
<1>3. ASSUME NEW r \in Warmers, RunAll(r) PROVE TypeOK' /\ Stamps'
  <2>1. r \notin Views
    BY DEF Warmers
  <2> QED BY <1>3, <2>1, RunAllType
<1>4. ASSUME NEW r \in Warmers, NEW l \in {"serving", "done"}, Sigma(r) \/ Warm(r, l) PROVE TypeOK' /\ Stamps'
  <2>1. r \notin Views /\ l \in Labels
    BY DEF Warmers, Labels
  <2> QED BY <1>4, <2>1, SigmaType
<1>5. ASSUME NEW d \in Detects, DetectStart(d) PROVE TypeOK' /\ Stamps'
  <2>1. DataOK' /\ ControlOK' /\ UNCHANGED warm /\ Invalidate /\ \A v \in Views : pc'[v] = pc[v]
    BY <1>5, <1>a, MoveType DEF DetectStart, data, Labels, DataOK, ControlOK
  <2> QED BY <2>1
<1>6. ASSUME NEW r \in RamRuns, RerunRam(r) \/ RamStep(r) PROVE TypeOK' /\ Stamps'
  BY <1>6, RamType
<1>7. ASSUME NEW m \in Merges, MergeStart(m) \/ MergeStep(m) PROVE TypeOK' /\ Stamps'
  BY <1>7, MergeType
<1>8. ASSUME NEW i \in Imports, Import(i) PROVE TypeOK' /\ Stamps'
  <2>1. DataOK' /\ ControlOK' /\ UNCHANGED <<warm, tl>> /\ \A v \in Views : pc'[v] = pc[v]
    <3>1. i \in Actors /\ i \notin Views
      BY ServerAssumption DEF Actors
    <3>2. pc' \in [Actors -> Labels] /\ \A v \in Views : pc'[v] = pc[v]
      BY <1>8, <3>1, MoveType DEF Import, Labels
    <3> QED BY <1>8, <1>a, <3>2 DEF Import, DataOK, ControlOK
  <2> QED BY <2>1
<1>9. ASSUME NEW r \in Warmers, WarmStep(r) PROVE TypeOK' /\ Stamps'
  BY <1>9, WarmType
<1>10. ASSUME NEW v \in Views, ViewStep(v) PROVE TypeOK' /\ Stamps'
  BY <1>10, ViewType
<1>11. CASE UNCHANGED vars
  <2>1. DataOK' /\ ControlOK' /\ UNCHANGED <<warm, tl, pc>>
    BY <1>11, <1>a DEF vars, data, DataOK, ControlOK
  <2> QED BY <2>1
<1> QED BY <1>1, <1>2, <1>3, <1>4, <1>5, <1>6, <1>7, <1>8, <1>9, <1>10, <1>11
    DEF Next, BootStep, DetectStep

LEMMA StampsInit == Init => Stamps
BY Kinds DEF Init, Stamps

THEOREM TypedAndStamped == Spec => [](TypeOK /\ Stamps)
<1>1. TypeOK /\ Stamps /\ [Next]_vars => TypeOK' /\ Stamps'
  BY TypeStep
<1> QED BY <1>1, TypeInit, StampsInit, PTL DEF Spec

\* Type correctness of the case server's state.
THEOREM TypeCorrect == Spec => []TypeOK
BY TypedAndStamped, PTL

-----------------------------------------------------------------------------
(***************************************************************************)
(* When a cached timeline is stale.  Whoever changes what the timeline     *)
(* shows will still invalidate it or build it again (Due), so a build that *)
(* is neither fresh nor about to be replaced is older than `newest', and   *)
(* to store that one is to overtake.                                       *)
(***************************************************************************)
Due == \/ \E r \in Warmers : \/ pc[r] \in {"enrich", "insert", "sigma", "rules", "warm"}
                             \/ warm[r] = "build"
       \/ \E m \in Merges : pc[m] = "ingested"

Fresh(c) == c \in {Content, Nothing}       \* shows the case's content, or a failed query's
ToStore(r) == warm[r] = "store" /\ Fresh(built[r].data)

CacheFresh == cache # NoRows => Fresh(cache) \/ Due \/ \E r \in Warmers : ToStore(r)
BuildsFresh ==
    \A a \in Warmers \cup Views : built[a] # NoRows =>
        \/ Fresh(built[a].data) \/ Due \/ built[a].stamp < newest
        \/ \E r \in Warmers : ToStore(r) /\ built[a].stamp < built[r].stamp

FreshInv ==
    /\ rows[Disk] # {}
    /\ \A r \in RamRuns : pc[r] \in {"clear", "enrich", "insert"} => cov[r] # {}
    /\ ~Bypassed /\ ~overtaken => CacheFresh /\ BuildsFresh

\* What a step can do to a build's being fresh: change nothing, or leave somebody due.
LEMMA QuietKeeps ==
    ASSUME FreshInv, Content' = Content, UNCHANGED tl, Due => Due', Bypassed => Bypassed',
           rows'[Disk] # {}, \A r \in RamRuns : pc'[r] \in {"clear", "enrich", "insert"} => cov'[r] # {},
           \A r \in Warmers : warm[r] = "store" => warm'[r] = "store"
    PROVE  FreshInv'
<1>1. ASSUME ~Bypassed', ~overtaken' PROVE CacheFresh' /\ BuildsFresh'
  <2>1. CacheFresh /\ BuildsFresh
    BY <1>1 DEF FreshInv, tl
  <2>2. \A r \in Warmers : ToStore(r) => ToStore(r)'
    BY DEF ToStore, tl, Fresh
  <2> QED BY <2>1, <2>2 DEF CacheFresh, BuildsFresh, tl, Fresh
<1> QED BY <1>1 DEF FreshInv

LEMMA DueKeeps ==
    ASSUME Due', UNCHANGED tl, rows'[Disk] # {},
           \A r \in RamRuns : pc'[r] \in {"clear", "enrich", "insert"} => cov'[r] # {}
    PROVE  FreshInv'
BY DEF FreshInv, CacheFresh, BuildsFresh

LEMMA InvalidateKeeps ==
    ASSUME TypeOK, Stamps, FreshInv, Invalidate, UNCHANGED data, UNCHANGED cov,
           \A r \in RamRuns : pc'[r] = pc[r]
    PROVE  FreshInv'
<1>1. /\ cache' = NoRows /\ built' = built /\ newest' = clock + 1 /\ clock \in Nat
      /\ \A a \in Warmers \cup Views : built[a] # NoRows => built[a].stamp \in Nat /\ built[a].stamp <= clock
  BY DEF Invalidate, TypeOK, Builds, Stamps
<1>2. CacheFresh' /\ BuildsFresh'
  BY <1>1 DEF CacheFresh, BuildsFresh
<1> QED BY <1>2 DEF FreshInv, data

\* A build of the present content is the youngest of all.
LEMMA BuildKeeps ==
    ASSUME TypeOK, Stamps, FreshInv, NEW a \in Warmers \cup Views, Build(a), UNCHANGED <<data, cov>>,
           \A r \in RamRuns : pc'[r] = pc[r],
           \/ a \in Warmers /\ ToStore(a)'
           \/ Due => Due',
           \A r \in Warmers \ {a} : warm'[r] = warm[r],
           warm[a] # "store" \/ a \notin Warmers
    PROVE  FreshInv'
<1>1. /\ built'[a].stamp = clock + 1 /\ Fresh(built'[a].data) /\ clock \in Nat
      /\ \A b \in (Warmers \cup Views) \ {a} : built'[b] = built[b]
      /\ UNCHANGED <<cache, newest, overtaken>> /\ Content' = Content
  BY BuildType DEF Build, TypeOK, Content, data, Fresh
<1>2. \A b \in Warmers \cup Views : built[b] # NoRows => built[b].stamp \in Nat /\ built[b].stamp <= clock
  BY DEF TypeOK, Builds, Stamps
<1>3. \A r \in Warmers : ToStore(r) => ToStore(r)' /\ built'[r] = built[r] /\ r # a
  BY <1>1 DEF ToStore, Fresh
<1>4. ASSUME ~Bypassed', ~overtaken' PROVE CacheFresh' /\ BuildsFresh'
  <2>1. CacheFresh /\ BuildsFresh
    BY <1>1, <1>4 DEF FreshInv, Bypassed, data
  <2>2. CacheFresh'
    BY <1>1, <1>3, <2>1 DEF CacheFresh, Fresh
  <2>3. ASSUME NEW b \in Warmers \cup Views, built'[b] # NoRows, b # a
        PROVE  \/ Fresh(built[b].data)' \/ Due' \/ built'[b].stamp < newest'
               \/ \E r \in Warmers : ToStore(r)' /\ built'[b].stamp < built'[r].stamp
    <3>1. CASE a \in Warmers /\ ToStore(a)'
      <4>1. built'[b].stamp < built'[a].stamp
        BY <1>1, <1>2, <2>3
      <4> QED BY <3>1, <4>1
    <3>2. CASE Due => Due'
      BY <1>1, <1>3, <2>1, <2>3, <3>2 DEF BuildsFresh, Fresh
    <3> QED BY <3>1, <3>2
  <2> QED BY <1>1, <2>2, <2>3 DEF BuildsFresh, Fresh
<1> QED BY <1>4 DEF FreshInv, data

\* To store a build that is older than `newest' is to overtake.
LEMMA StoreKeeps ==
    ASSUME TypeOK, Stamps, FreshInv, NEW a \in Warmers \cup Views, built[a] # NoRows, Store(a),
           UNCHANGED <<data, cov>>, \A r \in RamRuns : pc'[r] = pc[r], Due => Due',
           \A r \in Warmers \ {a} : warm'[r] = warm[r]
    PROVE  FreshInv'
<1>1. /\ cache' = built[a].data /\ overtaken' = (overtaken \/ built[a].stamp < newest)
      /\ newest' = IF built[a].stamp < newest THEN newest ELSE built[a].stamp
      /\ built'[a] = NoRows /\ \A b \in (Warmers \cup Views) \ {a} : built'[b] = built[b]
      /\ Content' = Content
  BY DEF Store, TypeOK, Content, data
<1>2. /\ newest \in Nat
      /\ \A b \in Warmers \cup Views : built[b] # NoRows => built[b].stamp \in Nat
  BY DEF TypeOK, Builds
<1>3. \A r \in Warmers \ {a} : ToStore(r) => ToStore(r)' /\ built'[r] = built[r]
  BY <1>1 DEF ToStore, Fresh
<1>4. ASSUME ~Bypassed', ~overtaken' PROVE CacheFresh' /\ BuildsFresh'
  <2>1. CacheFresh /\ BuildsFresh /\ ~(built[a].stamp < newest) /\ newest' = built[a].stamp
    BY <1>1, <1>4 DEF FreshInv, Bypassed, data
  <2>2. CacheFresh'
    <3>1. \/ Fresh(built[a].data) \/ Due
          \/ \E r \in Warmers : ToStore(r) /\ built[a].stamp < built[r].stamp
      BY <2>1 DEF BuildsFresh
    <3>2. ASSUME NEW r \in Warmers, ToStore(r), built[a].stamp < built[r].stamp PROVE ToStore(r)'
      <4>1. r # a
        BY <1>2, <3>2
      <4> QED BY <1>3, <3>2, <4>1
    <3> QED BY <1>1, <3>1, <3>2 DEF CacheFresh, Fresh
  <2>3. ASSUME NEW b \in Warmers \cup Views, built'[b] # NoRows
        PROVE  \/ Fresh(built[b].data)' \/ Due' \/ built'[b].stamp < newest'
               \/ \E r \in Warmers : ToStore(r)' /\ built'[b].stamp < built'[r].stamp
    <3>0. b # a /\ built'[b] = built[b] /\ built[b].stamp \in Nat
      BY <1>1, <1>2, <2>3
    <3>1. \/ Fresh(built[b].data) \/ Due \/ built[b].stamp < newest
          \/ \E r \in Warmers : ToStore(r) /\ built[b].stamp < built[r].stamp
      BY <2>1, <3>0, <2>3 DEF BuildsFresh
    <3>2. built[b].stamp < newest => built[b].stamp < newest'
      BY <1>2, <2>1, <3>0
    <3>3. ASSUME NEW r \in Warmers, ToStore(r), built[b].stamp < built[r].stamp
          PROVE  built[b].stamp < newest' \/ (ToStore(r)' /\ built[b].stamp < built'[r].stamp)
      BY <1>3, <2>1, <3>3
    <3> QED BY <1>1, <3>0, <3>1, <3>2, <3>3 DEF Fresh
  <2> QED BY <2>2, <2>3 DEF BuildsFresh
<1> QED BY <1>4 DEF FreshInv, data

LEMMA DiscardKeeps ==
    ASSUME TypeOK, FreshInv, NEW v \in Views, Discard(v), UNCHANGED <<data, cov, warm>>,
           \A r \in RamRuns : pc'[r] = pc[r], Due => Due'
    PROVE  FreshInv'
<1>1. /\ UNCHANGED <<cache, newest, overtaken>> /\ Content' = Content /\ v \notin Warmers
      /\ built'[v] = NoRows /\ \A b \in (Warmers \cup Views) \ {v} : built'[b] = built[b]
  BY Kinds DEF Discard, TypeOK, Content, data, Warmers
<1>2. \A r \in Warmers : ToStore(r) => ToStore(r)' /\ built'[r] = built[r]
  BY <1>1 DEF ToStore, Fresh
<1>3. ASSUME ~Bypassed', ~overtaken' PROVE CacheFresh' /\ BuildsFresh'
  <2>1. CacheFresh /\ BuildsFresh
    BY <1>1, <1>3 DEF FreshInv, Bypassed, data
  <2> QED BY <1>1, <1>2, <2>1 DEF CacheFresh, BuildsFresh, Fresh
<1> QED BY <1>3 DEF FreshInv, data

\* A step by an actor nobody waits for leaves Due.
LEMMA StillDue ==
    ASSUME NEW a \in Actors, \A x \in Actors \ {a} : pc'[x] = pc[x],
           a \in Warmers => pc[a] \notin {"enrich", "insert", "sigma", "rules", "warm"},
           a \in Merges => pc[a] # "ingested",
           \A r \in Warmers : warm[r] = "build" => warm'[r] = "build"
    PROVE  Due => Due'
BY Kinds DEF Due

LEMMA FreshWarm ==
    ASSUME TypeOK, Stamps, FreshInv, NEW r \in Warmers, WarmStep(r)
    PROVE  FreshInv'
<1>1. /\ UNCHANGED <<data, cov>> /\ \A x \in RamRuns : pc'[x] = pc[x]
      /\ \A x \in Warmers \ {r} : warm'[x] = warm[x]
  BY DEF WarmStep, WarmBuild, WarmStore, TypeOK
<1>2. CASE WarmBuild(r)
  <2>1. warm[r] # "store" /\ warm'[r] = "store" /\ Build(r)
    BY <1>2 DEF WarmBuild, TypeOK
  <2>2. Fresh(built'[r].data) /\ Content' = Content
    BY <1>1, <2>1, BuildType DEF Content, data, Fresh
  <2>3. ToStore(r)'
    BY <2>1, <2>2 DEF ToStore, Fresh
  <2> QED BY <1>1, <2>1, <2>3, BuildKeeps
<1>3. CASE WarmStore(r)
  <2>1. Store(r) /\ built[r] # NoRows /\ pc' = pc /\ warm[r] = "store"
    BY <1>3 DEF WarmStore, Stamps
  <2>2. Due => Due'
    BY <1>1, <2>1 DEF Due
  <2> QED BY <1>1, <2>1, <2>2, StoreKeeps
<1> QED BY <1>2, <1>3 DEF WarmStep

LEMMA FreshView ==
    ASSUME TypeOK, Stamps, FreshInv, NEW v \in Views, ViewStep(v)
    PROVE  FreshInv'
<1>0. v \in Actors /\ v \notin Warmers /\ v \notin Merges /\ v \notin RamRuns
  BY Kinds DEF Warmers
<1>1. /\ UNCHANGED <<data, cov, warm>> /\ \A x \in Actors \ {v} : pc'[x] = pc[x]
  BY DEF ViewStep, ViewHit, ViewMiss, ViewBuild, ViewStore, Step, Goto, TypeOK
<1>2. /\ Due => Due'
      /\ \A x \in RamRuns : pc'[x] = pc[x]
  BY <1>0, <1>1, StillDue, Kinds
<1>3. CASE ViewHit(v) \/ ViewMiss(v)
  <2>1. UNCHANGED tl
    BY <1>3 DEF ViewHit, ViewMiss
  <2>2. Content' = Content /\ (Bypassed => Bypassed') /\ rows'[Disk] # {}
    BY <1>1 DEF Content, data, Bypassed, FreshInv
  <2> QED BY <1>1, <1>2, <2>1, <2>2, QuietKeeps DEF FreshInv
<1>4. CASE ViewBuild(v)
  BY <1>0, <1>1, <1>2, <1>4, BuildKeeps DEF ViewBuild
<1>5. CASE ViewStore(v)
  <2>1. built[v] # NoRows /\ (Store(v) \/ Discard(v))
    BY <1>5 DEF ViewStore, Step, Stamps
  <2> QED BY <1>1, <1>2, <2>1, StoreKeeps, DiscardKeeps
<1> QED BY <1>3, <1>4, <1>5 DEF ViewStep

\* detect.RunAll and sigma.RunAll in a goroutine that warms the cache afterwards.
LEMMA FreshWarmer ==
    ASSUME TypeOK, Stamps, FreshInv, NEW r \in Warmers, NEW l \in {"serving", "done"},
           RunAll(r) \/ Sigma(r) \/ Warm(r, l)
    PROVE  FreshInv'
<1>0. r \in Actors /\ r \in Runners /\ r \notin RamRuns /\ r \notin Merges /\ l \in Labels
  BY Kinds DEF Warmers, Labels
<1>1. UNCHANGED tl /\ \A x \in Actors \ {r} : pc'[x] = pc[x]
  BY <1>0, RunAllType, SigmaType
<1>2. /\ UNCHANGED <<rows, manual>> /\ rows'[Disk] # {}
      /\ \A x \in RamRuns : pc'[x] = pc[x] /\ cov'[x] = cov[x]
  BY <1>0, <1>1, Kinds DEF RunAll, Cover, ClearFails, Clear, Enrich, Insert, RunAllEnd, Sigma, SigmaNone,
     SigmaClear, SigmaRules, Warm, data, TypeOK, FreshInv
<1>a. \A x \in RamRuns : pc'[x] \in {"clear", "enrich", "insert"} => cov'[x] # {}
  BY <1>2 DEF FreshInv
<1>3. CASE Cover(r) \/ (ClearFails(r) /\ r \in Detects)
  <2>1. pc[r] \in {"cover", "clear"} /\ UNCHANGED <<data, warm>>
    BY <1>3 DEF Cover, ClearFails, Step
  <2>2. Due => Due'
    BY <1>0, <1>1, <2>1, StillDue
  <2>3. Content' = Content /\ (Bypassed => Bypassed')
    BY <1>2, <2>1 DEF Content, data, Bypassed
  <2> QED BY <1>1, <1>2, <1>a, <2>1, <2>2, <2>3, QuietKeeps
<1>4. CASE ~Cover(r) /\ ~(ClearFails(r) /\ r \in Detects)
  <2>1. pc'[r] \in {"enrich", "insert", "sigma", "rules", "warm"} \/ warm'[r] = "build"
    BY <1>0, <1>4 DEF RunAll, ClearFails, Clear, Enrich, Insert, RunAllEnd, Sigma, SigmaNone, SigmaClear,
       SigmaRules, Warm, Step, Goto, AfterRunAll, Warmers, TypeOK
  <2>2. Due'
    BY <2>1 DEF Due
  <2> QED BY <1>1, <1>2, <1>a, <2>2, DueKeeps
<1> QED BY <1>3, <1>4

\* Before its detectors a RAM analysis touches the memory tables only.
LEMMA RamBefore ==
    ASSUME TypeOK, NEW r \in RamRuns, RerunRam(r) \/ RamStep(r), ~RunAll(r)
    PROVE  /\ rows'[Disk] = rows[Disk] /\ UNCHANGED <<det, mixed, sig, manual, derived, cov>>
           /\ pc'[r] \notin {"clear", "enrich", "insert"}
<1>0. r \in Actors /\ r \in Runners
  BY Kinds
<1>1. CASE RerunRam(r) \/ PluginSpins(r)
  BY <1>0, <1>1 DEF RerunRam, PluginSpins, Step, Goto, data, TypeOK
<1>2. CASE WipeTable(r)
  BY <1>2, Names DEF WipeTable, TypeOK
<1>3. CASE WipeEnd(r) \/ NativeFails(r) \/ NativeStarts(r) \/ VolatilityStarts(r) \/ VolatilityMissing(r) \/ FillEnd(r)
  BY <1>0, <1>3 DEF WipeEnd, NativeFails, NativeStarts, VolatilityStarts, RamFillStart, VolatilityMissing,
     FillEnd, Step, Goto, data, TypeOK
<1>4. CASE FillTable(r)
  <2>1. PICK t \in left[r] : rows' \in {rows, [rows EXCEPT ![t] = @ \cup {r}]}
    BY <1>4 DEF FillTable
  <2>2. t # Disk
    BY <2>1, Names DEF TypeOK
  <2> QED BY <1>4, <2>1, <2>2, Names DEF FillTable, TypeOK
<1> QED BY <1>1, <1>2, <1>3, <1>4 DEF RamStep

LEMMA FreshRam ==
    ASSUME TypeOK, Stamps, FreshInv, NEW r \in RamRuns, RerunRam(r) \/ RamStep(r)
    PROVE  FreshInv'
<1>0. r \in Actors /\ r \in Runners /\ r \notin Warmers /\ r \notin Merges
  BY Kinds DEF Warmers
<1>1. UNCHANGED <<warm, tl>> /\ \A x \in Actors \ {r} : pc'[x] = pc[x]
  BY RamType
<1>2. Due => Due'
  BY <1>0, <1>1, StillDue
<1>3. /\ rows'[Disk] = rows[Disk] /\ manual' = manual
      /\ \A x \in RamRuns \ {r} : cov'[x] = cov[x]
      /\ cov'[r] = cov[r] \/ cov'[r] # {}
      /\ pc'[r] \in {"clear", "enrich", "insert"} => cov'[r] # {}
      /\ Content' = Content \/ cov[r] # {}
  <2>1. CASE Cover(r)
    <3>1. cov' = [cov EXCEPT ![r] = {t \in Table : Populated(t)}] /\ UNCHANGED data
      BY <2>1 DEF Cover
    <3>2. Disk \in {t \in Table : Populated(t)}
      BY Names DEF Populated, FreshInv
    <3> QED BY <1>0, <3>1, <3>2 DEF TypeOK, Content, data
  <2>2. CASE ClearFails(r) \/ RunAllEnd(r)
    BY <1>0, <2>2 DEF ClearFails, RunAllEnd, Step, Goto, AfterRunAll, TypeOK, Content, data
  <2>3. CASE Clear(r) \/ Enrich(r) \/ Insert(r)
    BY <2>3 DEF Clear, Enrich, Insert, Step, FreshInv
  <2>4. CASE ~RunAll(r)
    BY <2>4, RamBefore DEF Content
  <2> QED BY <2>1, <2>2, <2>3, <2>4 DEF RunAll
<1>4. Bypassed => Bypassed'
  BY <1>3 DEF Bypassed
<1>5. \A x \in RamRuns : pc'[x] \in {"clear", "enrich", "insert"} => cov'[x] # {}
  BY <1>1, <1>3, Kinds DEF FreshInv
<1>6. CASE cov[r] # {}
  BY <1>3, <1>5, <1>6 DEF FreshInv, Bypassed
<1>7. CASE Content' = Content
  BY <1>1, <1>2, <1>3, <1>4, <1>5, <1>7, QuietKeeps DEF FreshInv
<1> QED BY <1>3, <1>6, <1>7

LEMMA FreshMerge ==
    ASSUME TypeOK, Stamps, FreshInv, NEW m \in Merges, MergeStart(m) \/ MergeStep(m)
    PROVE  FreshInv'
<1>0. m \in Actors /\ m \notin Warmers /\ m \notin RamRuns
  BY Kinds DEF Warmers
<1>1. warm' = warm /\ cov' = cov /\ \A x \in Actors \ {m} : pc'[x] = pc[x]
  BY MergeType DEF MergeStart, MergeStep, MergeIngest, MergeEnd
<1>2. \A x \in RamRuns : pc'[x] = pc[x]
  BY <1>0, <1>1, Kinds
<1>3. CASE MergeStart(m)
  <2>1. UNCHANGED <<data, tl>> /\ pc[m] = "idle"
    BY <1>3 DEF MergeStart, Step
  <2>2. Due => Due'
    BY <1>0, <1>1, <2>1, StillDue
  <2>3. Content' = Content /\ (Bypassed => Bypassed') /\ rows'[Disk] # {}
    BY <1>1, <2>1 DEF Content, data, Bypassed, FreshInv
  <2> QED BY <1>1, <1>2, <2>1, <2>2, <2>3, QuietKeeps DEF FreshInv
<1>4. CASE MergeIngest(m)
  <2>1. pc'[m] = "ingested" /\ UNCHANGED tl
    BY <1>0, <1>4, MoveType DEF MergeIngest, Labels
  <2>2. Due' /\ rows'[Disk] # {}
    BY <1>4, <2>1, Names DEF MergeIngest, Due, FreshInv, TypeOK
  <2> QED BY <1>1, <1>2, <2>1, <2>2, DueKeeps DEF FreshInv
<1>5. CASE MergeEnd(m)
  BY <1>1, <1>2, <1>5, InvalidateKeeps DEF MergeEnd
<1> QED BY <1>3, <1>4, <1>5 DEF MergeStep

LEMMA FreshStep ==
    ASSUME TypeOK, Stamps, FreshInv, [Next]_vars
    PROVE  FreshInv'
<1>1. CASE BootOpen
  <2>1. /\ UNCHANGED <<data, cov, warm, tl>>
        /\ \A x \in RamRuns : pc'[x] = pc[x] \/ pc'[x] = "wipe"
        /\ \A x \in Actors \ ({Boot} \cup RamRuns) : pc'[x] = pc[x]
        /\ pc[Boot] = "open"
    BY <1>1, Kinds, ServerAssumption DEF BootOpen
  <2>2. Due => Due'
    BY <2>1, Kinds DEF Due, Warmers
  <2>3. Content' = Content /\ (Bypassed => Bypassed') /\ rows'[Disk] # {}
    BY <2>1 DEF Content, data, Bypassed, FreshInv
  <2> QED BY <2>1, <2>2, <2>3, QuietKeeps DEF FreshInv
<1>2. CASE BootCount
  <2>1. Step(Boot, "count", "cover") \/ Step(Boot, "count", "warm")
    BY <1>2 DEF BootCount
  <2>2. UNCHANGED <<data, cov, warm, tl>> /\ pc[Boot] = "count" /\ \A x \in Actors \ {Boot} : pc'[x] = pc[x]
    BY <1>2, <2>1, MoveType, Kinds DEF BootCount, Labels
  <2>3. Due => Due'
    BY <2>2, StillDue, Kinds
  <2>4. Content' = Content /\ (Bypassed => Bypassed') /\ rows'[Disk] # {}
    BY <2>2 DEF Content, data, Bypassed, FreshInv
  <2>5. \A x \in RamRuns : pc'[x] = pc[x]
    BY <2>2, Kinds
  <2> QED BY <2>2, <2>3, <2>4, <2>5, QuietKeeps DEF FreshInv
<1>3. ASSUME NEW r \in Warmers, NEW l \in {"serving", "done"}, RunAll(r) \/ Sigma(r) \/ Warm(r, l)
      PROVE  FreshInv'
  BY <1>3, FreshWarmer
<1>4. ASSUME NEW d \in Detects, DetectStart(d) PROVE FreshInv'
  <2>1. Step(d, "idle", "cover") /\ Invalidate /\ UNCHANGED <<data, cov>>
    BY <1>4 DEF DetectStart
  <2>2. \A x \in RamRuns : pc'[x] = pc[x]
    BY <2>1, MoveType, Kinds DEF Labels
  <2> QED BY <2>1, <2>2, InvalidateKeeps
<1>5. ASSUME NEW r \in RamRuns, RerunRam(r) \/ RamStep(r) PROVE FreshInv'
  BY <1>5, FreshRam
<1>6. ASSUME NEW m \in Merges, MergeStart(m) \/ MergeStep(m) PROVE FreshInv'
  BY <1>6, FreshMerge
<1>7. ASSUME NEW i \in Imports, Import(i) PROVE FreshInv'
  <2>1. manual' # {} /\ rows' = rows /\ cov' = cov
    BY <1>7 DEF Import
  <2>2. i \in Actors /\ i \notin RamRuns
    BY ServerAssumption DEF Actors
  <2>3. \A x \in RamRuns : pc'[x] = pc[x]
    BY <1>7, <2>2, MoveType, Kinds DEF Import, Labels
  <2> QED BY <2>1, <2>3 DEF FreshInv, Bypassed
<1>8. ASSUME NEW r \in Warmers, WarmStep(r) PROVE FreshInv'
  BY <1>8, FreshWarm
<1>9. ASSUME NEW v \in Views, ViewStep(v) PROVE FreshInv'
  BY <1>9, FreshView
<1>10. CASE UNCHANGED vars
  <2>1. UNCHANGED <<data, cov, warm, tl, pc>>
    BY <1>10 DEF vars
  <2>2. Content' = Content /\ (Bypassed => Bypassed') /\ (Due => Due') /\ rows'[Disk] # {}
    BY <2>1 DEF Content, data, Bypassed, FreshInv, Due
  <2> QED BY <2>1, <2>2, QuietKeeps DEF FreshInv
<1> QED BY <1>1, <1>2, <1>3, <1>4, <1>5, <1>6, <1>7, <1>8, <1>9, <1>10, Kinds
    DEF Next, BootStep, DetectStep

\* A cached timeline is the case's content, or a failed query's empty one, whenever
\* nothing runs, but for three ways of being stale: a RAM analysis's detectors and an
\* import go past the cache, and a slow build may be stored after something newer.
THEOREM StaleTimelines == Spec => []StaleOnlyByRace
<1>1. Init => FreshInv
  <2>1. ASSUME Init PROVE FreshInv
    <3>1. rows[Disk] = {Old} /\ cache = NoRows /\ \A a \in Warmers \cup Views : built[a] = NoRows
      BY <2>1 DEF Init
    <3>2. \A r \in RamRuns : pc[r] = "idle"
      BY <2>1, Kinds DEF Init
    <3> QED BY <3>1, <3>2 DEF FreshInv, CacheFresh, BuildsFresh
  <2> QED BY <2>1
<1>2. TypeOK /\ Stamps /\ FreshInv /\ [Next]_vars => FreshInv'
  BY FreshStep
<1>3. FreshInv => StaleOnlyByRace
  <2>1. ASSUME FreshInv, AtRest, cache # NoRows, ~Bypassed, ~overtaken PROVE cache \in {Content, Nothing}
    <3>1. ~Due /\ \A r \in Warmers : ~ToStore(r)
      BY <2>1, Kinds DEF AtRest, Due, ToStore
    <3> QED BY <2>1, <3>1 DEF FreshInv, CacheFresh, Fresh
  <2> QED BY <2>1 DEF StaleOnlyByRace
<1> QED BY <1>1, <1>2, <1>3, TypedAndStamped, PTL DEF Spec

-----------------------------------------------------------------------------
(***************************************************************************)
(* The hits of the detectors.                                              *)
(***************************************************************************)
\* What a step does to the hits, to the memory rows, and to where a runner is.
HitStep ==
    /\ det' = det \/ \E r \in Runners : Clear(r) \/ Insert(r)
    /\ mixed' = mixed \/ \E r \in Runners : Clear(r)
    /\ \/ \A t \in MemTable : rows'[t] = rows[t]
       \/ \E r \in RamRuns : pc'[r] \in {"wipe", "fill", "plugins", "hung"}
    /\ \A r \in Runners :
         /\ pc'[r] = "enrich" => Clear(r) \/ pc[r] = "enrich"
         /\ pc'[r] = "insert" => Enrich(r) \/ Insert(r) \/ (pc[r] = "insert" /\ at'[r] = at[r])
    /\ \A r \in RamRuns : pc'[r] = "done" => pc[r] \in {"insert", "done"}

LEMMA OneMoves ==
    ASSUME NEW a \in Actors, \A x \in Actors \ {a} : pc'[x] = pc[x],
           \A x \in Runners \ {a} : at'[x] = at[x], UNCHANGED <<det, mixed>>,
           (\A t \in MemTable : rows'[t] = rows[t]) \/ (a \in RamRuns /\ pc'[a] \in {"wipe", "fill", "plugins", "hung"}),
           a \in Runners => pc'[a] \notin {"enrich", "insert"}, a \in RamRuns => pc'[a] # "done"
    PROVE  HitStep
BY Kinds DEF HitStep

LEMMA HitRunAll ==
    ASSUME TypeOK, NEW r \in Runners, RunAll(r)
    PROVE  HitStep
<1>0. r \in Actors /\ \A x \in Actors \ {r} : pc'[x] = pc[x]
  BY Kinds, RunAllType
<1>1. rows' = rows /\ \A x \in Runners \ {r} : at'[x] = at[x]
  BY DEF RunAll, Cover, ClearFails, Clear, Enrich, Insert, RunAllEnd, data, TypeOK
<1>2. CASE Cover(r) \/ ClearFails(r)
  <2>1. UNCHANGED <<det, mixed>> /\ pc'[r] \notin {"enrich", "insert"} /\ (r \in RamRuns => pc'[r] # "done")
    BY <1>0, <1>2 DEF Cover, ClearFails, Step, Goto, AfterRunAll, data, TypeOK
  <2> QED BY <1>0, <1>1, <2>1, OneMoves
<1>3. CASE Clear(r)
  <2>1. pc'[r] = "enrich"
    BY <1>0, <1>3 DEF Clear, Step, Goto, TypeOK
  <2> QED BY <1>0, <1>1, <1>3, <2>1, Kinds DEF HitStep
<1>4. CASE Enrich(r)
  <2>1. UNCHANGED <<det, mixed>> /\ pc'[r] = "insert"
    BY <1>0, <1>4 DEF Enrich, Step, Goto, TypeOK
  <2> QED BY <1>0, <1>1, <1>4, <2>1, Kinds DEF HitStep
<1>5. CASE Insert(r)
  <2>1. pc' = pc /\ pc[r] = "insert" /\ mixed' = mixed
    BY <1>5 DEF Insert
  <2> QED BY <1>0, <1>1, <1>5, <2>1, Kinds DEF HitStep
<1>6. CASE RunAllEnd(r)
  <2>1. UNCHANGED <<det, mixed>> /\ pc[r] = "insert" /\ pc'[r] \notin {"enrich", "insert"}
    BY <1>0, <1>6 DEF RunAllEnd, Step, Goto, AfterRunAll, data, TypeOK
  <2> QED BY <1>0, <1>1, <2>1, Kinds DEF HitStep
<1> QED BY <1>2, <1>3, <1>4, <1>5, <1>6 DEF RunAll

LEMMA HitRam ==
    ASSUME TypeOK, NEW r \in RamRuns, RerunRam(r) \/ RamStep(r)
    PROVE  HitStep
<1>0. r \in Actors /\ r \in Runners
  BY Kinds
<1>1. CASE RunAll(r)
  BY <1>0, <1>1, HitRunAll
<1>2. CASE ~RunAll(r)
  <2>1. \A x \in Actors \ {r} : pc'[x] = pc[x]
    BY RamType
  <2>2. /\ \A x \in Runners \ {r} : at'[x] = at[x]
        /\ pc'[r] # "done"
        /\ rows' = rows \/ pc'[r] \in {"wipe", "fill", "plugins", "hung"}
    BY <1>0, <1>2 DEF RerunRam, RamStep, PluginSpins, WipeTable, WipeEnd, NativeFails, NativeStarts, VolatilityStarts,
       RamFillStart, VolatilityMissing, FillTable, FillEnd, Step, Goto, data, TypeOK
  <2>3. UNCHANGED <<det, mixed>> /\ pc'[r] \notin {"enrich", "insert"}
    BY <1>2, RamBefore
  <2> QED BY <1>0, <2>1, <2>2, <2>3, OneMoves
<1> QED BY <1>1, <1>2

LEMMA HitStepHolds ==
    ASSUME TypeOK, [Next]_vars
    PROVE  HitStep
<1>1. CASE BootOpen
  <2>1. /\ UNCHANGED <<det, mixed, rows, at>>
        /\ \A x \in Actors : pc'[x] = pc[x] \/ pc'[x] \in {"count", "wipe"}
    BY <1>1 DEF BootOpen, data
  <2> QED BY <2>1, Kinds DEF HitStep
<1>2. CASE BootCount
  <2>1. UNCHANGED <<det, mixed, rows, at>> /\ (Step(Boot, "count", "cover") \/ Step(Boot, "count", "warm"))
    BY <1>2 DEF BootCount, data
  <2>2. pc'[Boot] \in {"cover", "warm"} /\ \A x \in Actors \ {Boot} : pc'[x] = pc[x]
    BY <2>1, MoveType, Kinds DEF Labels
  <2> QED BY <2>1, <2>2, Kinds, OneMoves
<1>3. ASSUME NEW r \in Warmers, RunAll(r) PROVE HitStep
  BY <1>3, Kinds, HitRunAll
<1>4. ASSUME NEW r \in Warmers, NEW l \in {"serving", "done"}, Sigma(r) \/ Warm(r, l) PROVE HitStep
  <2>1. r \in Actors /\ r \in Runners /\ r \notin RamRuns
    BY Kinds DEF Warmers
  <2>2. \A x \in Actors \ {r} : pc'[x] = pc[x]
    BY <1>4, SigmaType DEF Labels
  <2>3. UNCHANGED <<det, mixed, rows, at>> /\ pc'[r] \notin {"enrich", "insert"}
    BY <1>4, <2>1 DEF Sigma, SigmaNone, SigmaClear, SigmaRules, Warm, Step, Goto, data, TypeOK
  <2> QED BY <2>1, <2>2, <2>3, OneMoves
<1>5. ASSUME NEW d \in Detects, DetectStart(d) PROVE HitStep
  <2>1. UNCHANGED <<det, mixed, rows, at>> /\ Step(d, "idle", "cover") /\ d \in Actors /\ d \notin RamRuns
    BY <1>5, Kinds DEF DetectStart, data
  <2>2. pc'[d] = "cover" /\ \A x \in Actors \ {d} : pc'[x] = pc[x]
    BY <2>1, MoveType DEF Labels
  <2> QED BY <2>1, <2>2, OneMoves
<1>6. ASSUME NEW r \in RamRuns, RerunRam(r) \/ RamStep(r) PROVE HitStep
  BY <1>6, HitRam
<1>7. ASSUME NEW m \in Merges, MergeStart(m) \/ MergeStep(m) PROVE HitStep
  <2>1. m \in Actors /\ m \notin Runners
    BY Kinds DEF Runners
  <2>2. UNCHANGED <<det, mixed, at>> /\ \A t \in MemTable : rows'[t] = rows[t]
    BY <1>7, Names DEF MergeStart, MergeStep, MergeIngest, MergeEnd, data, TypeOK
  <2> QED BY <1>7, <2>1, <2>2, MergeType, OneMoves, Kinds
<1>8. ASSUME NEW i \in Imports, Import(i) PROVE HitStep
  <2>1. i \in Actors /\ i \notin Runners
    BY ServerAssumption DEF Actors, Runners
  <2>2. UNCHANGED <<det, mixed, at, rows>> /\ \A x \in Actors \ {i} : pc'[x] = pc[x]
    BY <1>8, <2>1, MoveType DEF Import, Labels
  <2> QED BY <2>1, <2>2, OneMoves, Kinds
<1>9. ASSUME UNCHANGED <<det, mixed, rows, at>>, \A x \in Runners : pc'[x] = pc[x] PROVE HitStep
  BY <1>9, Kinds DEF HitStep
<1>10. ASSUME NEW r \in Warmers, WarmStep(r) PROVE HitStep
  BY <1>9, <1>10 DEF WarmStep, WarmBuild, WarmStore, data
<1>11. ASSUME NEW v \in Views, ViewStep(v) PROVE HitStep
  <2>1. v \in Actors /\ v \notin Runners
    BY Kinds DEF Runners
  <2>2. UNCHANGED <<det, mixed, rows, at>> /\ \A x \in Actors \ {v} : pc'[x] = pc[x]
    BY <1>11, <2>1 DEF ViewStep, ViewHit, ViewMiss, ViewBuild, ViewStore, Step, Goto, data, TypeOK
  <2> QED BY <1>9, <2>1, <2>2, Kinds
<1>12. CASE UNCHANGED vars
  BY <1>9, <1>12 DEF vars, data
<1> QED BY <1>1, <1>2, <1>3, <1>4, <1>5, <1>6, <1>7, <1>8, <1>10, <1>11, <1>12, Kinds
    DEF Next, BootStep, DetectStep

\* No memory row changes while every RAM analysis is past its DELETE of the earlier hits:
\* what is inserted from then on was found in the rows that are still the case's.
LiveHits == \A h \in det : \A t \in MemTable \cap DOMAIN h.from : h.from[t] = rows[t]
LiveInv == (\A r \in RamRuns : pc[r] \in {"enrich", "insert", "done"}) => LiveHits

\* When every RAM analysis has ended with its detectors run, no detector shows hits on
\* memory rows that the case no longer holds, however their statements interleaved.
THEOREM MemoryHits == Spec => []MemoryHitsAreLive
<1>1. Init => LiveInv
  <2> SUFFICES ASSUME Init, \A r \in RamRuns : pc[r] \in {"enrich", "insert", "done"} PROVE LiveHits
    BY DEF LiveInv
  <2>1. det \in {{}, OldHits(rows)}
    BY DEF Init
  <2>2. \A h \in OldHits(rows) : \A t \in DOMAIN h.from : h.from[t] = rows[t]
    BY DEF OldHits
  <2> QED BY <2>1, <2>2 DEF LiveHits
<1>2. ASSUME TypeOK, LiveInv, [Next]_vars PROVE LiveInv'
  <2> SUFFICES ASSUME \A r \in RamRuns : pc'[r] \in {"enrich", "insert", "done"} PROVE LiveHits'
    BY DEF LiveInv
  <2>0. HitStep /\ \A t \in MemTable : rows'[t] = rows[t]
    BY <1>2, HitStepHolds DEF HitStep
  <2>1. CASE \E r \in Runners : Clear(r)
    BY <2>1 DEF Clear, LiveHits
  <2>2. CASE ~ \E r \in Runners : Clear(r)
    <3>1. \A r \in RamRuns : pc[r] \in {"enrich", "insert", "done"}
      BY <2>0, <2>2, Kinds DEF HitStep, Enrich, Insert, Step
    <3>2. LiveHits
      BY <1>2, <3>1 DEF LiveInv
    <3>3. CASE det' = det
      BY <2>0, <3>2, <3>3 DEF LiveHits
    <3>4. ASSUME NEW r \in Runners, Insert(r) PROVE LiveHits'
      <4>1. PICK d \in Detector : det' \subseteq det \cup {Hit(d, r)}
        BY <3>4, Names DEF Insert
      <4>2. \A t \in DOMAIN Hit(d, r).from : Hit(d, r).from[t] = rows[t]
        BY DEF Hit
      <4> QED BY <2>0, <3>2, <4>1, <4>2 DEF LiveHits
    <3> QED BY <2>0, <2>2, <3>3, <3>4 DEF HitStep
  <2> QED BY <2>1, <2>2
<1>3. LiveInv => MemoryHitsAreLive
  BY DEF LiveInv, LiveHits, MemoryHitsAreLive
<1>4. TypeOK /\ LiveInv /\ [Next]_vars => LiveInv'
  BY <1>2
<1> QED BY <1>1, <1>3, <1>4, TypeCorrect, PTL DEF Spec

\* A runner's detectors are asked in their order, after it cleared the earlier hits: the
\* hits that it has inserted since are those of detectors it is past.
PastHits(r) == \A h \in det : h.by = r => \E k \in DOMAIN Builtins : k < at[r] /\ h.id = Builtins[k]
OnceEach == \A g, h \in det : g.id = h.id /\ g.by = h.by => g = h
OnceInv ==
    /\ OnceEach
    /\ \A r \in Runners : pc[r] = "enrich" => \A h \in det : h.by # r
    /\ \A r \in Runners : pc[r] = "insert" => PastHits(r)

\* A step that inserts: who, and what becomes of the hits.
LEMMA Inserted ==
    ASSUME TypeOK, NEW r \in Runners, Insert(r)
    PROVE  /\ pc[r] = "insert" /\ pc' = pc /\ at[r] \in DOMAIN Builtins /\ at'[r] = at[r] + 1
           /\ \A x \in Runners \ {r} : at'[x] = at[x]
           /\ det' \subseteq det \cup {Hit(Builtins[at[r]], r)}
           /\ \A d : Hit(d, r).id = d /\ Hit(d, r).by = r
BY DEF Insert, Hit, TypeOK

LEMMA OnceKeeps ==
    ASSUME TypeOK, OnceInv, HitStep
    PROVE  OnceInv'
<1>1. CASE \E r \in Runners : Clear(r)
  BY <1>1 DEF Clear, OnceInv, OnceEach, PastHits
<1>2. CASE ~ (\E r \in Runners : Clear(r)) /\ ~ \E r \in Runners : Insert(r)
  <2>1. det' = det
    BY <1>2 DEF HitStep
  <2>2. ASSUME NEW r \in Runners, pc'[r] = "enrich" PROVE \A h \in det' : h.by # r
    BY <1>2, <2>1, <2>2 DEF HitStep, OnceInv
  <2>3. ASSUME NEW r \in Runners, pc'[r] = "insert" PROVE PastHits(r)'
    <3>1. CASE Enrich(r)
      BY <2>1, <3>1 DEF Enrich, Step, OnceInv, PastHits
    <3>2. CASE pc[r] = "insert" /\ at'[r] = at[r]
      BY <2>1, <3>2 DEF OnceInv, PastHits
    <3> QED BY <1>2, <2>3, <3>1, <3>2 DEF HitStep
  <2> QED BY <2>1, <2>2, <2>3 DEF OnceInv, OnceEach
<1>3. ASSUME NEW x \in Runners, Insert(x) PROVE OnceInv'
  <2> DEFINE n == Hit(Builtins[at[x]], x)
  <2>1. /\ pc[x] = "insert" /\ pc' = pc /\ at[x] \in DOMAIN Builtins /\ at'[x] = at[x] + 1
        /\ \A r \in Runners \ {x} : at'[r] = at[r]
        /\ det' \subseteq det \cup {n} /\ n.id = Builtins[at[x]] /\ n.by = x
    BY <1>3, Inserted
  <2> HIDE DEF n
  <2>2. at[x] \in Nat /\ DOMAIN Builtins \subseteq Nat
    BY ServerAssumption DEF TypeOK
  <2>3. \A h \in det : h.by = x => h.id # n.id
    BY <2>1, <2>2, ServerAssumption DEF OnceInv, PastHits
  <2>4. OnceEach'
    BY <2>1, <2>3 DEF OnceInv, OnceEach
  <2>5. ASSUME NEW r \in Runners, pc'[r] = "enrich" PROVE \A h \in det' : h.by # r
    BY <2>1, <2>5 DEF OnceInv
  <2>6. ASSUME NEW r \in Runners, pc'[r] = "insert" PROVE PastHits(r)'
    <3>1. CASE r = x
      BY <2>1, <2>2, <3>1 DEF OnceInv, PastHits
    <3>2. CASE r # x
      BY <2>1, <2>6, <3>2 DEF OnceInv, PastHits
    <3> QED BY <3>1, <3>2
  <2> QED BY <2>4, <2>5, <2>6 DEF OnceInv
<1> QED BY <1>1, <1>2, <1>3

LEMMA OnceInit == Init => OnceInv
<1> SUFFICES ASSUME Init PROVE OnceInv
  OBVIOUS
<1>1. det \in {{}, OldHits(rows)} /\ \A r \in Runners : pc[r] \notin {"enrich", "insert"}
  BY Kinds DEF Init
<1>2. \A g, h \in OldHits(rows) : g.id = h.id => g = h
  BY DEF OldHits
<1> QED BY <1>1, <1>2 DEF OnceInv, OnceEach

\* No run of the detectors leaves two hits of one detector, however runs interleave:
\* what is there twice was inserted by two of them.
THEOREM HitsOncePerRun == Spec => []OnceEach
<1>1. TypeOK /\ OnceInv /\ [Next]_vars => OnceInv'
  BY OnceKeeps, HitStepHolds
<1>2. OnceInv => OnceEach
  BY DEF OnceInv
<1> QED BY <1>1, <1>2, OnceInit, TypeCorrect, PTL DEF Spec

\* Unless runs have mixed, at most one runner is between its DELETE and its last INSERT,
\* and since its DELETE the hits are its own.
HitsAreSingle == \A g, h \in det : g.id = h.id => g = h
AloneInv ==
    ~mixed => /\ HitsAreSingle
              /\ \A r, s \in Runners : Between(r) /\ Between(s) => r = s
              /\ \A r \in Runners : pc[r] = "enrich" => det = {}
              /\ \A r \in Runners : pc[r] = "insert" => \A h \in det : h.by = r

LEMMA AloneKeeps ==
    ASSUME TypeOK, OnceInv, OnceInv', AloneInv, HitStep
    PROVE  AloneInv'
<1> SUFFICES ASSUME ~mixed'
             PROVE  /\ HitsAreSingle'
                    /\ \A r, s \in Runners : Between(r)' /\ Between(s)' => r = s
                    /\ \A r \in Runners : pc'[r] = "enrich" => det' = {}
                    /\ \A r \in Runners : pc'[r] = "insert" => \A h \in det' : h.by = r
  BY DEF AloneInv
<1>1. ASSUME NEW x \in Runners, Clear(x) PROVE AloneInv'
  <2>1. det' = {} /\ pc'[x] = "enrich" /\ \A y \in Runners \ {x} : pc'[y] = pc[y]
    BY <1>1, Kinds DEF Clear, Step, Goto, TypeOK
  <2>2. \A y \in Runners \ {x} : ~ Between(y)
    BY <1>1 DEF Clear
  <2>3. \A y \in Runners : Between(y)' => y = x
    BY <2>1, <2>2 DEF Between
  <2> QED BY <2>1, <2>3 DEF AloneInv, HitsAreSingle, Between
<1>2. CASE ~ (\E r \in Runners : Clear(r)) /\ ~ \E r \in Runners : Insert(r)
  <2>1. det' = det /\ ~mixed
    BY <1>2 DEF HitStep
  <2>2. \A r \in Runners : Between(r)' => Between(r)
    BY <1>2 DEF HitStep, Between, Enrich, Step
  <2>3. \A r \in Runners : pc'[r] = "enrich" => det' = {}
    BY <1>2, <2>1 DEF HitStep, AloneInv
  <2>4. \A r \in Runners : pc'[r] = "insert" => \A h \in det' : h.by = r
    BY <1>2, <2>1 DEF HitStep, AloneInv, Enrich, Step
  <2> QED BY <2>1, <2>2, <2>3, <2>4 DEF AloneInv, HitsAreSingle
<1>3. ASSUME NEW x \in Runners, Insert(x) PROVE AloneInv'
  <2>1. /\ pc[x] = "insert" /\ pc' = pc
        /\ det' \subseteq det \cup {Hit(Builtins[at[x]], x)} /\ Hit(Builtins[at[x]], x).by = x
    BY <1>3, Inserted
  <2>2. ~mixed
    BY <1>3 DEF Insert
  <2>3. \A h \in det' : h.by = x
    BY <2>1, <2>2 DEF AloneInv
  <2>4. HitsAreSingle'
    BY <2>3 DEF OnceInv, OnceEach, HitsAreSingle
  <2>5. \A r \in Runners : Between(r)' => r = x
    BY <2>1, <2>2 DEF AloneInv, Between
  <2> QED BY <2>1, <2>3, <2>4, <2>5 DEF AloneInv, Between
<1> QED BY <1>1, <1>2, <1>3 DEF AloneInv

\* A detector's hits are there twice only after two runs have mixed, and only until the
\* next DELETE of a run that has the detectors to itself: duplicates do not outlive it.
THEOREM Duplicates == Spec => []DuplicatesByOverlap
<1>1. Init => AloneInv
  <2> SUFFICES ASSUME Init PROVE AloneInv
    OBVIOUS
  <2>1. det \in {{}, OldHits(rows)} /\ \A r \in Runners : ~ Between(r)
    BY Kinds DEF Init, Between
  <2>2. \A g, h \in OldHits(rows) : g.id = h.id => g = h
    BY DEF OldHits
  <2> QED BY <2>1, <2>2 DEF AloneInv, HitsAreSingle, Between
<1>2. TypeOK /\ OnceInv /\ [Next]_vars => OnceInv'
  BY OnceKeeps, HitStepHolds
<1>3. TypeOK /\ OnceInv /\ OnceInv' /\ AloneInv /\ [Next]_vars => AloneInv'
  BY AloneKeeps, HitStepHolds
<1>4. AloneInv => DuplicatesByOverlap
  BY DEF AloneInv, HitsAreSingle, DuplicatesByOverlap
<1> QED BY <1>1, <1>2, <1>3, <1>4, OnceInit, TypeCorrect, PTL DEF Spec
=============================================================================
