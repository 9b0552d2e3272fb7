------------------------------- MODULE Ingest -------------------------------
(***************************************************************************)
(* orchestrator.Run: one case is filled by up to three producer goroutines *)
(* (triage archive, disk image, RAM dump), the RAM producer possibly       *)
(* fanning out to one goroutine per Volatility plugin.  All of them report *)
(* on one bounded channel; Run's own goroutine drains it into RunResult,   *)
(* and a closer goroutine closes it once the WaitGroup is released.        *)
(*                                                                         *)
(* The unit of work is one Parse call (one parser on one file), one phase  *)
(* of the native memory parser, or one Volatility plugin.  What a unit     *)
(* stores is abstracted to none, some or all of its rows; the count a      *)
(* report carries is the unit's own, so RunResult.TotalArtifacts is        *)
(* `tally' and RunResult.Errors is `errs', kept per unit.                  *)
(***************************************************************************)
EXTENDS Integers, Sequences, FiniteSets

CONSTANTS
    Cap,          \* capacity of the progress channel (256)
    Inputs,       \* which of triage, disk, ram the options name
    TriageFiles,  \* routed files of the archive: each the sequence of units
                  \* RouteAll gives it
    DiskVolumes,  \* NTFS volumes of the image: [files |-> SUBSET Seq(unit),
                  \* amcache |-> unit]
    Phases,       \* sequence of units: the phases of memparse.Parse
    Plugins,      \* units that are also goroutines: vol.Plugins()
    Kind,         \* the way a unit's parser fails, one of Kinds
    Malformed     \* TRUE iff a plugin may print output that is not JSON

Kinds == {"tx", "loose", "selfreport", "quiet", "both"}

SeqElems(s) == {s[i] : i \in DOMAIN s}

TriageUnits == UNION {SeqElems(f) : f \in TriageFiles}
VolumeUnits(v) == {v.amcache} \cup UNION {SeqElems(f) : f \in v.files}
DiskUnits   == UNION {VolumeUnits(v) : v \in DiskVolumes}
PhaseUnits  == SeqElems(Phases)
ParserUnits == TriageUnits \cup DiskUnits
\* Producers report their own failures under these names.
SourceUnits == {"triage", "disk", "Volatility3"}
Units       == ParserUnits \cup PhaseUnits \cup Plugins \cup SourceUnits

Producers == {"triage", "disk", "ram"}
Workers   == Producers \cup Plugins

ASSUME IngestAssumption ==
    /\ Cap \in Nat \ {0}
    /\ Inputs \subseteq Producers
    /\ IsFiniteSet(Plugins) /\ Plugins \cap Producers = {}
    /\ TriageFiles \subseteq Seq(ParserUnits)
    /\ \A v \in DiskVolumes : v.files \subseteq Seq(ParserUnits)
    /\ Phases \in Seq(PhaseUnits)
    /\ Kind \in [Units -> Kinds]
    /\ Malformed \in BOOLEAN

\* A unit is one call of one parser on one file, so no two files share one.
Apart(fs) ==
    /\ \A f \in fs : \A i, j \in DOMAIN f : f[i] = f[j] => i = j
    /\ \A f, g \in fs : f # g => SeqElems(f) \cap SeqElems(g) = {}

ASSUME UnitsAreCalls ==
    /\ Apart(TriageFiles)
    /\ \A v \in DiskVolumes :
         /\ Apart(v.files) /\ \A f \in v.files : v.amcache \notin SeqElems(f)
         /\ \A x \in DiskVolumes : v # x => VolumeUnits(v) \cap VolumeUnits(x) = {}
    /\ TriageUnits \cap DiskUnits = {}
    /\ ParserUnits \cap PhaseUnits = {} /\ (ParserUnits \cup PhaseUnits) \cap Plugins = {}
    /\ SourceUnits \cap (ParserUnits \cup PhaseUnits \cup Plugins) = {}

VARIABLES
    ch,        \* the channel's buffer
    closed,    \* close(ch) has run
    panicked,  \* a send on the closed channel: the process has died
    wg,        \* the WaitGroup the closer waits on
    subWg,     \* the WaitGroup of the Volatility plugins
    pc,        \* control state of each producer and plugin goroutine
    out,       \* events a goroutine still has to send, in order, blocking
    files,     \* files the triage or disk walk has not reached
    cur,       \* parsers still to run on the file at hand
    vols,      \* volumes disk.Analyze has not opened
    hive,      \* the Amcache.hve the walk of this volume buffers, or "none"
    anyOK,     \* disk.Analyze opened some volume
    outcome,   \* how a unit ended
    stored,    \* the rows of a unit that are in the case: none, some, all
    dropped,   \* units whose Done report found the channel full
    tally,     \* Done reports of a unit added to RunResult.TotalArtifacts
    errs,      \* reports of a unit's failure in RunResult.Errors
    returned   \* Run has returned

walkVars   == <<files, cur, vols, hive, anyOK>>
caseVars   == <<outcome, stored>>
resultVars == <<tally, errs, returned>>
vars == <<ch, closed, panicked, wg, subWg, pc, out, walkVars, caseVars,
          dropped, resultVars>>

Event == [unit : Units, type : {"progress", "done", "err"}]
Done(u) == [unit |-> u, type |-> "done"]
Err(u)  == [unit |-> u, type |-> "err"]
Tick(u) == [unit |-> u, type |-> "progress"]

-----------------------------------------------------------------------------
Init ==
    /\ ch = <<>> /\ closed = FALSE /\ panicked = FALSE
    /\ wg = Cardinality(Inputs) /\ subWg = 0
    /\ pc = [w \in Workers |-> IF w \in Inputs THEN "start" ELSE "gone"]
    /\ out = [w \in Producers |-> <<>>]
    /\ files = [w \in {"triage", "disk"} |-> {}]
    /\ cur = [w \in {"triage", "disk"} |-> <<>>]
    /\ vols = {} /\ hive = "none" /\ anyOK = FALSE
    /\ outcome = [u \in Units |-> "pending"]
    /\ stored = [u \in Units |-> "none"]
    /\ dropped = {}
    /\ tally = [u \in Units |-> 0] /\ errs = [u \in Units |-> 0]
    /\ returned = FALSE

(***************************************************************************)
(* The two ways of sending.  A blocking send waits for room; a select with *)
(* a default branch gives the event up.  Either panics on a closed         *)
(* channel.                                                                *)
(***************************************************************************)
\* Faulty: a send that does not wait for room, and one that gives up.
SendUnbounded(w) ==
    /\ out[w] # <<>> /\ ~closed
    /\ ch' = Append(ch, Head(out[w]))
    /\ out' = [out EXCEPT ![w] = Tail(@)]
    /\ UNCHANGED <<closed, panicked, wg, subWg, pc, walkVars, caseVars, dropped, resultVars>>

SendOrDrop(w) ==
    /\ out[w] # <<>> /\ ~closed
    /\ ch' = IF Len(ch) < Cap THEN Append(ch, Head(out[w])) ELSE ch
    /\ out' = [out EXCEPT ![w] = Tail(@)]
    /\ UNCHANGED <<closed, panicked, wg, subWg, pc, walkVars, caseVars, dropped, resultVars>>

Send(w) ==
    /\ out[w] # <<>>
    /\ IF closed
         THEN panicked' = TRUE /\ UNCHANGED <<ch, out>>
         ELSE /\ Len(ch) < Cap
              /\ ch' = Append(ch, Head(out[w]))
              /\ out' = [out EXCEPT ![w] = Tail(@)]
              /\ UNCHANGED panicked
    /\ UNCHANGED <<closed, wg, subWg, pc, walkVars, caseVars, dropped, resultVars>>

\* The effect of a non-blocking send on ch, dropped and panicked.
TrySend(e) ==
    /\ panicked' = (panicked \/ closed)
    /\ ch' = IF ~closed /\ Len(ch) < Cap THEN Append(ch, e) ELSE ch
    /\ dropped' = IF e.type = "done" /\ Len(ch) >= Cap
                    THEN dropped \cup {e.unit} ELSE dropped

\* Steps that touch neither the channel nor what Run keeps.
Local == UNCHANGED <<ch, closed, panicked, wg, subWg, dropped, resultVars>>

(***************************************************************************)
(* The walk that triage.ParseDir, triage.ParseZIP and the callback of      *)
(* disk.Analyze have in common.                                            *)
(***************************************************************************)
Ready(w, label) == pc[w] = label /\ out[w] = <<>>
Goto(w, label)  == pc' = [pc EXCEPT ![w] = label]
Report(w, es)   == out' = [out EXCEPT ![w] = es]
FileErrs(f)     == [i \in DOMAIN f |-> Err(f[i])]
Fail(us)        == outcome' = [u \in Units |-> IF u \in us THEN "failed" ELSE outcome[u]]

\* A file that cannot be opened or read is reported once per parser and
\* skipped.  A disk file with one parser is streamed: its read errors are
\* the parser's.
SkipFile(w) ==
    /\ Ready(w, "walk")
    /\ \E f \in files[w] :
         /\ w = "triage" \/ Len(f) > 1
         /\ files' = [files EXCEPT ![w] = @ \ {f}]
         /\ Report(w, FileErrs(f))
         /\ Fail(SeqElems(f))
    /\ Local /\ UNCHANGED <<pc, cur, vols, hive, anyOK, stored>>

OpenFile(w) ==
    /\ Ready(w, "walk")
    /\ \E f \in files[w] :
         /\ files' = [files EXCEPT ![w] = @ \ {f}]
         /\ cur' = [cur EXCEPT ![w] = f]
    /\ Goto(w, "parse")
    /\ Local /\ UNCHANGED <<out, vols, hive, anyOK, caseVars>>

\* Parsers report progress while they run, most of them without blocking.
\* The label "ticked" bounds that to one event per unit.
ParserTick(w) ==
    /\ Ready(w, "parse") /\ cur[w] # <<>>
    /\ Goto(w, "ticked")
    /\ LET u == Head(cur[w]) IN
         \/ Kind[u] = "loose" /\ Report(w, <<Tick(u)>>) /\ UNCHANGED <<ch, panicked, dropped>>
         \/ Kind[u] = "tx" /\ TrySend(Tick(u)) /\ UNCHANGED out
    /\ UNCHANGED <<closed, wg, subWg, walkVars, caseVars, resultVars>>

Parsing(w) ==
    /\ \/ Ready(w, "parse")
       \/ Ready(w, "ticked")
    /\ cur[w] # <<>>
    /\ Goto(w, "parse")
    /\ cur' = [cur EXCEPT ![w] = Tail(@)]

ParseOK(w) ==
    /\ Parsing(w)
    /\ LET u == Head(cur[w]) IN
         /\ outcome' = [outcome EXCEPT ![u] = "ok"]
         /\ stored' = [stored EXCEPT ![u] = "all"]
         /\ Report(w, <<Done(u)>>)
    /\ Local /\ UNCHANGED <<files, vols, hive, anyOK>>

\* Faulty: the error of a parser is counted as its success, or swallowed.
ParseFailCounted(w) ==
    /\ Parsing(w)
    /\ LET u == Head(cur[w]) IN
         /\ outcome' = [outcome EXCEPT ![u] = "failed"]
         /\ Report(w, <<Done(u)>>)
    /\ Local /\ UNCHANGED <<files, vols, hive, anyOK, stored>>

ParseFailSilent(w) ==
    /\ Parsing(w)
    /\ outcome' = [outcome EXCEPT ![Head(cur[w])] = "failed"]
    /\ Local /\ UNCHANGED <<out, files, vols, hive, anyOK, stored>>

\* A parser with a transaction rolls back, the others leave the rows they
\* had inserted; one kind has already sent Err when it returns the error
\* its dispatcher sends again, another has already sent Done.
ParseFail(w) ==
    /\ Parsing(w)
    /\ LET u == Head(cur[w]) IN
         /\ outcome' = [outcome EXCEPT ![u] = "failed"]
         /\ \E rows \in IF Kind[u] \in {"loose", "both"} THEN {"none", "some"} ELSE {"none"} :
              stored' = [stored EXCEPT ![u] = rows]
         /\ Report(w, IF Kind[u] = "selfreport" THEN <<Err(u), Err(u)>>
                      ELSE IF Kind[u] = "both" THEN <<Done(u), Err(u)>>
                      ELSE <<Err(u)>>)
    /\ Local /\ UNCHANGED <<files, vols, hive, anyOK>>

EndFile(w) ==
    /\ Ready(w, "parse") /\ cur[w] = <<>>
    /\ Goto(w, "walk")
    /\ Local /\ UNCHANGED <<out, walkVars, caseVars>>

\* Faulty: a return path without wg.Done.
ExitWithoutDone(w) ==
    /\ Ready(w, "exit")
    /\ Goto(w, "gone")
    /\ Local /\ UNCHANGED <<out, walkVars, caseVars>>

\* The deferred wg.Done of a producer, after its last send.
Exit(w) ==
    /\ Ready(w, "exit")
    /\ Goto(w, "gone")
    /\ wg' = wg - 1
    /\ UNCHANGED <<ch, closed, panicked, subWg, out, walkVars, caseVars, dropped, resultVars>>

\* A producer that gives up sends one Err under its own name.
GiveUp(w, source) ==
    /\ Goto(w, "exit")
    /\ Report(w, <<Err(source)>>)
    /\ Fail({source})
    /\ Local /\ UNCHANGED <<walkVars, stored>>

-----------------------------------------------------------------------------
\* os.Stat or zip.OpenReader fails.  filepath.WalkDir never returns one: its
\* callback swallows every error.
TriageUnreadable == Ready("triage", "start") /\ GiveUp("triage", "triage")

TriageOpen ==
    /\ Ready("triage", "start")
    /\ files' = [files EXCEPT !["triage"] = TriageFiles]
    /\ Goto("triage", "walk")
    /\ Local /\ UNCHANGED <<out, cur, vols, hive, anyOK, caseVars>>

TriageEnd ==
    /\ Ready("triage", "walk") /\ files["triage"] = {}
    /\ Goto("triage", "exit")
    /\ Local /\ UNCHANGED <<out, walkVars, caseVars>>

-----------------------------------------------------------------------------
\* openImage fails, or no volume of the image could be opened.
DiskUnreadable ==
    /\ \/ Ready("disk", "start")
       \/ Ready("disk", "volume") /\ vols = {} /\ ~anyOK
    /\ GiveUp("disk", "disk")

DiskOpen ==
    /\ Ready("disk", "start")
    /\ vols' = DiskVolumes
    /\ Goto("disk", "volume")
    /\ Local /\ UNCHANGED <<out, files, cur, hive, anyOK, caseVars>>

VolumeSkip ==
    /\ Ready("disk", "volume")
    /\ \E v \in vols : vols' = vols \ {v}
    /\ Local /\ UNCHANGED <<pc, out, files, cur, hive, anyOK, caseVars>>

\* The walk of an opened volume, which may or may not meet Amcache.hve.
VolumeOpen ==
    /\ Ready("disk", "volume")
    /\ \E v \in vols :
         /\ vols' = vols \ {v}
         /\ hive' \in {v.amcache, "none"}
         /\ files' = [files EXCEPT !["disk"] = v.files]
    /\ anyOK' = TRUE
    /\ Goto("disk", "walk")
    /\ Local /\ UNCHANGED <<out, cur, caseVars>>

\* WalkTargetFiles fails on an empty MFT, before its first callback.
VolumeEmpty ==
    /\ Ready("disk", "volume")
    /\ \E v \in vols : vols' = vols \ {v}
    /\ anyOK' = TRUE
    /\ Report("disk", <<Err("disk")>>)
    /\ Fail({"disk"})
    /\ Local /\ UNCHANGED <<pc, files, cur, hive, stored>>

\* After the walk the buffered hive is parsed with its logs.
VolumeHive ==
    /\ Ready("disk", "walk") /\ files["disk"] = {} /\ hive # "none"
    /\ hive' = "none"
    /\ cur' = [cur EXCEPT !["disk"] = <<hive>>]
    /\ Goto("disk", "parse")
    /\ Local /\ UNCHANGED <<out, files, vols, anyOK, caseVars>>

VolumeEnd ==
    /\ Ready("disk", "walk") /\ files["disk"] = {} /\ hive = "none"
    /\ Goto("disk", "volume")
    /\ Local /\ UNCHANGED <<out, walkVars, caseVars>>

DiskEnd ==
    /\ Ready("disk", "volume") /\ vols = {} /\ anyOK
    /\ Goto("disk", "exit")
    /\ Local /\ UNCHANGED <<out, walkVars, caseVars>>

-----------------------------------------------------------------------------
\* memparse.Parse: a dump that does not open or has no profile fails before
\* the first insert; otherwise every phase runs, whatever the others found.
NativeOpen ==
    /\ Ready("ram", "start")
    /\ \/ Goto("ram", "native")
       \/ Goto("ram", "fallback")
    /\ Local /\ UNCHANGED <<out, walkVars, caseVars>>

\* The next phase stores its rows and reports without blocking.
NativePhase ==
    /\ Ready("ram", "native")
    /\ \E i \in DOMAIN Phases :
         /\ outcome[Phases[i]] = "pending"
         /\ \A j \in 1 .. i - 1 : outcome[Phases[j]] # "pending"
         /\ outcome' = [outcome EXCEPT ![Phases[i]] = "ok"]
         /\ stored' = [stored EXCEPT ![Phases[i]] = "all"]
         /\ TrySend(Done(Phases[i]))
    /\ UNCHANGED <<closed, wg, subWg, pc, out, walkVars, resultVars>>

\* Faulty: an error of a late phase sends the dump to Volatility as well.
NativeEndFallback ==
    /\ Ready("ram", "native")
    /\ \A u \in PhaseUnits : outcome[u] # "pending"
    /\ Goto("ram", "fallback")
    /\ Local /\ UNCHANGED <<out, walkVars, caseVars>>

NativeEnd ==
    /\ Ready("ram", "native")
    /\ \A u \in PhaseUnits : outcome[u] # "pending"
    /\ Goto("ram", "exit")
    /\ Local /\ UNCHANGED <<out, walkVars, caseVars>>

VolatilityMissing == Ready("ram", "fallback") /\ GiveUp("ram", "Volatility3")

VolatilityStart ==
    /\ Ready("ram", "fallback")
    /\ pc' = [w \in Workers |-> IF w = "ram" THEN "join"
                                ELSE IF w \in Plugins THEN "start" ELSE pc[w]]
    /\ subWg' = Cardinality(Plugins)
    /\ UNCHANGED <<ch, closed, panicked, wg, out, walkVars, caseVars, dropped, resultVars>>

\* Faulty: an error return that skips subWg.Done.
PluginFailNoDone(p) ==
    /\ pc[p] = "start"
    /\ Goto(p, "gone")
    /\ Fail({p})
    /\ Local /\ UNCHANGED <<out, walkVars, stored>>

\* The subprocess exits with an error: RunPlugin returns it to a goroutine
\* that ignores it.
PluginFail(p) ==
    /\ pc[p] = "start"
    /\ Goto(p, "gone") /\ subWg' = subWg - 1
    /\ Fail({p})
    /\ UNCHANGED <<ch, closed, panicked, wg, out, walkVars, stored, dropped, resultVars>>

PluginOK(p) ==
    /\ pc[p] = "start"
    /\ Goto(p, "gone") /\ subWg' = subWg - 1
    /\ outcome' = [outcome EXCEPT ![p] = "ok"]
    /\ stored' = [stored EXCEPT ![p] = "all"]
    /\ TrySend(Done(p))
    /\ UNCHANGED <<closed, wg, out, walkVars, resultVars>>

\* Output in none of the three formats: json.Decoder keeps returning its
\* first syntax error, and parseVolOutput continues on every error but EOF.
PluginSpin(p) ==
    /\ Malformed /\ pc[p] = "start"
    /\ Goto(p, "spin")
    /\ Local /\ UNCHANGED <<out, walkVars, caseVars>>

PluginSpinning(p) == pc[p] = "spin" /\ UNCHANGED vars

\* Faulty: no subWg.Wait.
RamJoinEarly ==
    /\ Ready("ram", "join")
    /\ Goto("ram", "exit")
    /\ Local /\ UNCHANGED <<out, walkVars, caseVars>>

RamJoin ==
    /\ Ready("ram", "join") /\ subWg = 0
    /\ Goto("ram", "exit")
    /\ Local /\ UNCHANGED <<out, walkVars, caseVars>>

-----------------------------------------------------------------------------
\* Faulty: no wg.Wait.
CloseEarly ==
    /\ ~closed
    /\ closed' = TRUE
    /\ UNCHANGED <<ch, panicked, wg, subWg, pc, out, walkVars, caseVars, dropped, resultVars>>

Close ==
    /\ wg = 0 /\ ~closed
    /\ closed' = TRUE
    /\ UNCHANGED <<ch, panicked, wg, subWg, pc, out, walkVars, caseVars, dropped, resultVars>>

\* Faulty: Done is looked at even when Err is set.
ReceiveBoth ==
    /\ ch # <<>>
    /\ LET e == Head(ch) IN
         /\ tally' = [tally EXCEPT ![e.unit] = IF e.type = "progress" THEN @ ELSE @ + 1]
         /\ errs'  = [errs EXCEPT ![e.unit] = IF e.type = "err" THEN @ + 1 ELSE @]
    /\ ch' = Tail(ch)
    /\ UNCHANGED <<closed, panicked, wg, subWg, pc, out, walkVars, caseVars, dropped, returned>>

\* One turn of the loop that ranges over the channel.
Receive ==
    /\ ch # <<>>
    /\ LET e == Head(ch) IN
         /\ tally' = [tally EXCEPT ![e.unit] = IF e.type = "done" THEN @ + 1 ELSE @]
         /\ errs'  = [errs EXCEPT ![e.unit] = IF e.type = "err" THEN @ + 1 ELSE @]
    /\ ch' = Tail(ch)
    /\ UNCHANGED <<closed, panicked, wg, subWg, pc, out, walkVars, caseVars, dropped, returned>>

\* Faulty: the loop stops at the close, whatever is still buffered.
ReturnUndrained ==
    /\ closed /\ ~returned
    /\ returned' = TRUE
    /\ UNCHANGED <<ch, closed, panicked, wg, subWg, pc, out, walkVars, caseVars, dropped,
                   tally, errs>>

Return ==
    /\ closed /\ ch = <<>> /\ ~returned
    /\ returned' = TRUE
    /\ UNCHANGED <<ch, closed, panicked, wg, subWg, pc, out, walkVars, caseVars, dropped,
                   tally, errs>>

-----------------------------------------------------------------------------
Walk(w) == SkipFile(w) \/ OpenFile(w) \/ ParserTick(w) \/ ParseOK(w) \/ ParseFail(w)
             \/ EndFile(w)
Triage == TriageUnreadable \/ TriageOpen \/ TriageEnd \/ Walk("triage")
Disk == \/ DiskUnreadable \/ DiskOpen \/ VolumeSkip \/ VolumeOpen \/ VolumeEmpty
        \/ VolumeHive \/ VolumeEnd \/ DiskEnd \/ Walk("disk")
Ram == NativeOpen \/ NativePhase \/ NativeEnd \/ VolatilityMissing \/ VolatilityStart
         \/ RamJoin
Plugin(p) == PluginFail(p) \/ PluginOK(p) \/ PluginSpin(p) \/ PluginSpinning(p)
Goroutine == \/ Triage \/ Disk \/ Ram
             \/ \E w \in Producers : Send(w) \/ Exit(w)
             \/ \E p \in Plugins : Plugin(p)
             \/ Close \/ Receive \/ Return

Returned == returned /\ UNCHANGED vars

\* A panic in any goroutine stops them all.
Next == ~panicked /\ (Goroutine \/ Returned)

\* Every goroutine keeps running when it can: Go's scheduler is preemptive
\* and a channel hands a slot to the sender that waits for it.
Fairness ==
    /\ WF_vars(Next /\ Triage) /\ WF_vars(Next /\ Disk) /\ WF_vars(Next /\ Ram)
    /\ \A w \in Producers : SF_vars(Next /\ Send(w)) /\ WF_vars(Next /\ Exit(w))
    /\ \A p \in Plugins : WF_vars(Next /\ Plugin(p))
    /\ WF_vars(Next /\ Close) /\ WF_vars(Next /\ Receive) /\ WF_vars(Next /\ Return)

Spec == Init /\ [][Next]_vars
FairSpec == Spec /\ Fairness
-----------------------------------------------------------------------------
Labels == {"start", "walk", "parse", "ticked", "volume", "native", "fallback",
           "join", "spin", "exit", "gone"}

TypeOK ==
    /\ ch \in Seq(Event) /\ Len(ch) <= Cap
    /\ closed \in BOOLEAN /\ panicked \in BOOLEAN
    /\ wg \in Int /\ subWg \in Int
    /\ pc \in [Workers -> Labels]
    /\ out \in [Producers -> Seq(Event)]
    /\ files \in [{"triage", "disk"} -> SUBSET Seq(ParserUnits)]
    /\ cur \in [{"triage", "disk"} -> Seq(ParserUnits)]
    /\ vols \subseteq DiskVolumes /\ hive \in ParserUnits \cup {"none"}
    /\ anyOK \in BOOLEAN
    /\ outcome \in [Units -> {"pending", "ok", "failed"}]
    /\ stored \in [Units -> {"none", "some", "all"}]
    /\ dropped \subseteq Units
    /\ tally \in [Units -> Nat] /\ errs \in [Units -> Nat]
    /\ returned \in BOOLEAN

\* The WaitGroups count the goroutines still to finish, and plugins run only
\* while the RAM producer waits for them: so the closer waits for everyone.
Running(ws) == {w \in ws : pc[w] # "gone"}
WaitGroups ==
    /\ wg = Cardinality(Running(Producers))
    /\ subWg = Cardinality(Running(Plugins))
    /\ Running(Plugins) # {} => pc["ram"] = "join"

\* No goroutine sends on the channel after the closer has closed it: the
\* WaitGroup covers every sender, the plugins through the RAM producer's
\* own wait.  (A send on a closed channel would kill the process.)
NoSendOnClosed == ~panicked

\* TotalArtifacts counts no unit twice and counts rows of finished units
\* only, and Errors blames only units that failed: a Done report follows
\* the rows it counts, an Err report the failure.
ReportsAreTrue ==
    \A u \in Units :
        /\ tally[u] <= 1
        /\ tally[u] = 1 => outcome[u] = "ok" \/ Kind[u] = "both"
        /\ errs[u] > 0 => outcome[u] = "failed"

\* When Run returns, every parser that was run on a triage or disk file is
\* accounted for: counted if it stored its rows, blamed if it failed.
ReturnedComplete ==
    returned => \A u \in ParserUnits : /\ outcome[u] = "ok" => tally[u] = 1
                                       /\ outcome[u] = "failed" => errs[u] >= 1

\* A RAM dump is filled in by the native parser or by Volatility, never by
\* both: the native parser fails before its first insert or not at all.
NativeOrFallback ==
    ~ \E u \in PhaseUnits, p \in Plugins : stored[u] # "none" /\ stored[p] # "none"

\* A counted loss: a Done report is missing from TotalArtifacts at return
\* only if it found the channel full, and only RAM units send that way.
OnlyRamReportsAreLost ==
    /\ dropped \cap (ParserUnits \cup SourceUnits) = {}
    /\ returned => \A u \in Units : outcome[u] = "ok" => tally[u] = 1 \/ u \in dropped

\* Once Run has returned, the case no longer changes under the commands that
\* use it next (ioc.ExtractAll, detect.RunAll, the report).
CaseIsQuiet == [][returned => UNCHANGED caseVars]_vars

\* Run returns: nobody waits for a slot, a WaitGroup or the close for ever.
RunReturns == <>returned

\* A parser's failure reaches RunResult.Errors.
FailureSurfaces ==
    \A u \in ParserUnits : outcome[u] = "failed" ~> errs[u] > 0

\* What volatility.go:49 says of RunPlugin, "Progress is sent to ch when the plugin
\* finishes.", needs it to finish: a plugin that has been started does.
PluginFinishes == \A p \in Plugins : pc[p] = "start" ~> pc[p] = "gone"

Contract == INSTANCE RunContract WITH Reliable <- ParserUnits \cup SourceUnits
\* Run keeps the contract of RunContract.
KeepsContract == Contract!Spec
=============================================================================
