------------------------------ MODULE CaseServer ------------------------------
(***************************************************************************)
(* The case server (internal/server) while it changes the open case: the   *)
(* start-up sequence, POST /api/run-detect, POST /api/rerun-ram, POST      *)
(* /api/merge-artifact, POST /api/ioc-import and GET /api/timeline, each a *)
(* goroutine of its own over one shared *sql.DB, with detect.RunAll and    *)
(* sigma.RunAll under them and the timeline cache beside them.  A database *)
(* statement commits by itself, so every statement is one step.            *)
(***************************************************************************)
EXTENDS Naturals, Sequences, FiniteSets

CONSTANTS RamRuns,     \* executions of runRAMAnalysis
          BootRam,     \* those that the server starts itself if it is given --ram
          Detects,     \* POST /api/run-detect requests
          Merges,      \* POST /api/merge-artifact requests
          Imports,     \* POST /api/ioc-import requests
          Views,       \* unfiltered GET /api/timeline requests
          MemTables,   \* the mem_* tables, a sequence in the order they are wiped
          Builtins,    \* the built-in detectors, a sequence
          Needs(_),    \* the tables a detector requires to be populated
          Reads(_),    \* the tables a detector's SELECT reads
          Drives(_),   \* those it must find rows in; the others it only anti-joins
          NoRows, Old, Boot

MemTable == {MemTables[k] : k \in DOMAIN MemTables}
Detector == {Builtins[k] : k \in DOMAIN Builtins}
Disk == "disk"                     \* every table that no RAM analysis touches
Table == MemTable \cup {Disk}
Runners == {Boot} \cup Detects \cup RamRuns      \* goroutines that call detect.RunAll
Warmers == {Boot} \cup Detects                   \* goroutines that call WarmTimelineCache
Actors == Runners \cup Merges \cup Imports \cup Views
Source == {Old} \cup RamRuns \cup Merges         \* what put rows into a table

\* What the database and the timeline can hold: a detector's hits with the rows they
\* were found in, the rows that buildTimelineRows gathers, a build not yet stored.
Hits == UNION {[id : {d}, by : Runners \cup {Old}, from : [Reads(d) -> SUBSET Source]] :
               d \in Detector}
Contents == [rows : SUBSET Source, det : SUBSET Hits, sig : SUBSET (Runners \cup {Old}),
             manual : SUBSET Imports, derived : SUBSET Runners]
Nothing == [rows |-> {}, det |-> {}, sig |-> {}, manual |-> {}, derived |-> {}]
Builds == [data : Contents, stamp : Nat]

ASSUME ServerAssumption ==
  /\ BootRam \subseteq RamRuns
  /\ Boot \notin Detects \cup RamRuns \cup Merges \cup Imports \cup Views
  /\ Detects \cap (RamRuns \cup Merges \cup Imports \cup Views) = {}
  /\ RamRuns \cap (Merges \cup Imports \cup Views) = {}
  /\ Merges \cap (Imports \cup Views) = {} /\ Imports \cap Views = {}
  /\ Old \notin Actors \cup Imports /\ NoRows \notin Contents \cup Builds
  /\ MemTables \in Seq(MemTable) /\ Builtins \in Seq(Detector) /\ Disk \notin MemTable
  /\ \A k, l \in DOMAIN Builtins : Builtins[k] = Builtins[l] => k = l   \* their ids differ
  /\ \A d \in Detector : Needs(d) \cup Drives(d) \subseteq Reads(d) /\ Reads(d) \subseteq Table

VARIABLES rows,    \* table |-> the sources whose rows it holds
          det,     \* detect: rows of ioc_indicators; one element per inserting statement
          mixed,   \* two runs were between DELETE and last INSERT since the last DELETE
          sig,     \* runs whose sigma: rows are in ioc_indicators
          manual,  \* imports whose rows are in ioc_indicators
          derived, \* runs whose enrichment added rows to registry-derived tables
          cache,   \* tlCacheData, NoRows for nil
          pc,      \* actor |-> where it is
          at,      \* runner |-> the next table or detector of its loop
          left,    \* RAM run |-> tables its parser has yet to fill
          cov,     \* runner |-> the populated tables of its coverage snapshot
          warm,    \* warmer |-> where its WarmTimelineCache goroutine is
          built,   \* warmer or view |-> rows it has built and not yet stored
          clock,   \* counts builds and invalidations, to order them
          newest,  \* the latest of: invalidations, builds that were stored
          overtaken \* a build was stored after something newer than it

data == <<rows, det, mixed, sig, manual, derived>>
tl == <<cache, built, clock, newest, overtaken>>
vars == <<data, pc, at, left, cov, warm, tl>>

Content == [rows |-> rows[Disk], det |-> det, sig |-> sig,
            manual |-> manual, derived |-> derived]

Populated(t) == rows[t] # {}
HitOnEverything(d, r) == [id |-> d, by |-> r, from |-> rows]     \* FAULTY
Hit(d, r) == [id |-> d, by |-> r, from |-> [t \in Reads(d) |-> rows[t]]]
OldHits(f) == {[id |-> d, by |-> Old, from |-> [t \in Reads(d) |-> f[t]]] :
               d \in {e \in Detector : \A t \in Needs(e) \cup Drives(e) : f[t] # {}}}

Init ==
  /\ rows \in [Table -> {{}, {Old}}] /\ rows[Disk] = {Old}
  /\ det \in {{}, OldHits(rows)} /\ mixed = FALSE
  /\ sig \in {{}, {Old}} /\ manual = {} /\ derived = {}
  /\ cache = NoRows
  /\ pc = [a \in Actors |-> IF a = Boot THEN "open" ELSE "idle"]
  /\ at = [r \in Runners |-> 1] /\ left = [r \in RamRuns |-> {}]
  /\ cov = [r \in Runners |-> {}]
  /\ warm = [r \in Warmers |-> "none"]
  /\ built = [a \in Warmers \cup Views |-> NoRows]
  /\ clock = 0 /\ newest = 0 /\ overtaken = FALSE

Serving == pc[Boot] = "serving"       \* ListenAndServe has been reached
Goto(a, l) == pc' = [pc EXCEPT ![a] = l]
Step(a, l, m) == pc[a] = l /\ Goto(a, m)
Between(r) == pc[r] \in {"enrich", "insert"}      \* its DELETE and its last INSERT

-----------------------------------------------------------------------------
(* The timeline cache. *)

Invalidate ==
  /\ cache' = NoRows /\ clock' = clock + 1 /\ newest' = clock'
  /\ UNCHANGED <<built, overtaken>>

\* A query that the database refuses reads as no rows at all.
Build(a) ==
  /\ \E c \in {Content, Nothing} : built' = [built EXCEPT ![a] = [data |-> c, stamp |-> clock + 1]]
  /\ clock' = clock + 1 /\ UNCHANGED <<cache, newest, overtaken>>

Store(a) ==
  /\ cache' = built[a].data
  /\ overtaken' = (overtaken \/ built[a].stamp < newest)
  /\ newest' = IF built[a].stamp < newest THEN newest ELSE built[a].stamp
  /\ built' = [built EXCEPT ![a] = NoRows] /\ UNCHANGED clock

Discard(a) == built' = [built EXCEPT ![a] = NoRows] /\ UNCHANGED <<cache, clock, newest, overtaken>>

\* WarmTimelineCache: a goroutine that builds without the lock, then stores under it.
WarmBuild(r) ==
  /\ warm[r] = "build" /\ warm' = [warm EXCEPT ![r] = "store"] /\ Build(r)
  /\ UNCHANGED <<data, pc, at, left, cov>>

WarmStoreIfEmpty(r) ==      \* FAULTY: stores as handleTimeline does
  /\ warm[r] = "store" /\ warm' = [warm EXCEPT ![r] = "stored"]
  /\ IF cache = NoRows THEN Store(r) ELSE Discard(r)
  /\ UNCHANGED <<data, pc, at, left, cov>>

WarmStore(r) ==
  /\ warm[r] = "store" /\ warm' = [warm EXCEPT ![r] = "stored"] /\ Store(r)
  /\ UNCHANGED <<data, pc, at, left, cov>>

Warm(r, l) ==
  /\ Step(r, "warm", l) /\ warm' = [warm EXCEPT ![r] = "build"]
  /\ UNCHANGED <<data, at, left, cov, tl>>

\* handleTimeline without a filter: from the cache, or built inline and kept if
\* nobody stored meanwhile.
ViewHit(v) ==
  /\ Serving /\ cache # NoRows /\ Step(v, "idle", "done")
  /\ UNCHANGED <<data, at, left, cov, warm, tl>>

ViewMiss(v) ==
  /\ Serving /\ cache = NoRows /\ Step(v, "idle", "build")
  /\ UNCHANGED <<data, at, left, cov, warm, tl>>

ViewBuild(v) ==
  /\ Step(v, "build", "store") /\ Build(v)
  /\ UNCHANGED <<data, at, left, cov, warm>>

ViewStore(v) ==
  /\ Step(v, "store", "done")
  /\ IF cache = NoRows THEN Store(v) ELSE Discard(v)
  /\ UNCHANGED <<data, at, left, cov, warm>>

-----------------------------------------------------------------------------
(* detect.RunAll, in the goroutine of runner r. *)

\* Where a runner goes when RunAll returns: the RAM goroutine ends (it logs an error),
\* start-up goes on to the SIGMA rules either way, run-detect answers 500 on an error.
AfterRunAll(r, ok) == CASE r \in RamRuns -> IF ok THEN "done" ELSE "failed"
                        [] r \in Detects -> IF ok THEN "sigma" ELSE "failed"
                        [] OTHER -> "sigma"

Cover(r) ==
  /\ Step(r, "cover", "clear") /\ cov' = [cov EXCEPT ![r] = {t \in Table : Populated(t)}]
  /\ UNCHANGED <<data, at, left, warm, tl>>

ClearFails(r) ==
  /\ Step(r, "clear", AfterRunAll(r, FALSE))
  /\ UNCHANGED <<data, at, left, cov, warm, tl>>

ClearNot(r) ==      \* FAULTY: keeps the earlier results
  /\ Step(r, "clear", "enrich")
  /\ mixed' = \E s \in Runners \ {r} : Between(s)
  /\ UNCHANGED <<rows, det, sig, manual, derived, at, left, cov, warm, tl>>

Clear(r) ==
  /\ Step(r, "clear", "enrich") /\ det' = {}
  /\ mixed' = \E s \in Runners \ {r} : Between(s)
  /\ UNCHANGED <<rows, sig, manual, derived, at, left, cov, warm, tl>>

\* The enrichments derive rows from registry_raw; the database may refuse one
\* (it is reported and skipped).
Enrich(r) ==
  /\ Step(r, "enrich", "insert") /\ at' = [at EXCEPT ![r] = 1]
  /\ derived' \in {derived, derived \cup {r}}
  /\ UNCHANGED <<rows, det, mixed, sig, manual, left, cov, warm, tl>>

\* Whether d inserts: requireTables is looked up in the coverage snapshot, the SELECT
\* reads the tables as they are now.  An anti-join (hidden_process, amcache_ghost) finds
\* its rows in the driving table, all of them if the joined table has become empty.
Fires(r, d) == Needs(d) \subseteq cov[r] /\ \A t \in Drives(d) : Populated(t)

\* One detector of the loop: skipped by its coverage, refused by the database, or run.
Insert(r) ==
  /\ pc[r] = "insert" /\ at[r] \in DOMAIN Builtins /\ UNCHANGED pc
  /\ at' = [at EXCEPT ![r] = @ + 1]
  /\ LET d == Builtins[at[r]]
     IN det' \in {det, IF Fires(r, d) THEN det \cup {Hit(d, r)} ELSE det}
  /\ UNCHANGED <<rows, mixed, sig, manual, derived, left, cov, warm, tl>>

RunAllEnd(r) ==
  /\ Step(r, "insert", AfterRunAll(r, TRUE)) /\ at[r] \notin DOMAIN Builtins
  /\ UNCHANGED <<data, at, left, cov, warm, tl>>

(* sigma.RunAll, at start-up and in run-detect. *)

SigmaNone(r) ==          \* no rules directory, no rules, or the DELETE failed
  /\ Step(r, "sigma", "warm") /\ UNCHANGED <<data, at, left, cov, warm, tl>>

SigmaClear(r) ==
  /\ Step(r, "sigma", "rules") /\ sig' = {}
  /\ UNCHANGED <<rows, det, mixed, manual, derived, at, left, cov, warm, tl>>

SigmaRules(r) ==
  /\ Step(r, "rules", "warm") /\ sig' \in {sig, sig \cup {r}}
  /\ UNCHANGED <<rows, det, mixed, manual, derived, at, left, cov, warm, tl>>

-----------------------------------------------------------------------------
(* Start-up. *)

\* The RAM goroutine starts before the case is looked at.
BootOpen ==
  /\ pc[Boot] = "open"
  /\ \E started \in {{}, BootRam} :
       pc' = [a \in Actors |-> IF a = Boot THEN "count"
                               ELSE IF a \in started THEN "wipe" ELSE pc[a]]
  /\ UNCHANGED <<data, at, left, cov, warm, tl>>

BootCount ==
  /\ Step(Boot, "count", IF det = {} THEN "cover" ELSE "warm")
  /\ UNCHANGED <<data, at, left, cov, warm, tl>>

(* POST /api/run-detect. *)

DetectStart(d) ==
  /\ Serving /\ Step(d, "idle", "cover") /\ Invalidate
  /\ UNCHANGED <<data, at, left, cov, warm>>

(* POST /api/rerun-ram and runRAMAnalysis. *)

RerunRam(r) ==
  /\ Serving /\ Step(r, "idle", "wipe") /\ UNCHANGED <<data, at, left, cov, warm, tl>>

WipeTable(r) ==
  /\ pc[r] = "wipe" /\ at[r] \in DOMAIN MemTables
  /\ rows' \in {rows, [rows EXCEPT ![MemTables[at[r]]] = {}]}   \* Exec's error is ignored
  /\ at' = [at EXCEPT ![r] = @ + 1]
  /\ UNCHANGED <<det, mixed, sig, manual, derived, pc, left, cov, warm, tl>>

WipeEnd(r) ==
  /\ Step(r, "wipe", "open") /\ at[r] \notin DOMAIN MemTables
  /\ UNCHANGED <<data, at, left, cov, warm, tl>>

\* memparse.Parse refuses the dump before it inserts anything, or fills the tables.
NativeFails(r) ==
  /\ r \in RamRuns /\ Step(r, "open", "vol") /\ UNCHANGED <<data, at, left, cov, warm, tl>>

RamFillStart(r, l, m) ==
  /\ Step(r, l, m) /\ left' = [left EXCEPT ![r] = MemTable]
  /\ UNCHANGED <<data, at, cov, warm, tl>>

NativeStarts(r) == r \in RamRuns /\ RamFillStart(r, "open", "fill")
VolatilityStarts(r) == RamFillStart(r, "vol", "plugins")

VolatilityMissing(r) ==
  /\ Step(r, "vol", "gaveup") /\ UNCHANGED <<data, at, left, cov, warm, tl>>

FillTableNoDone(r) ==      \* FAULTY: wg.Done is forgotten
  /\ pc[r] \in {"fill", "plugins", "hung"} /\ \E t \in left[r] : rows' = [rows EXCEPT ![t] = @ \cup {r}]
  /\ UNCHANGED <<det, mixed, sig, manual, derived, pc, at, left, cov, warm, tl>>

\* The native parser's tables, or those of the Volatility plugins, each a goroutine:
\* one that spins does not keep the others from inserting.
FillTable(r) ==
  /\ pc[r] \in {"fill", "plugins", "hung"}
  /\ \E t \in left[r] :
       /\ left' = [left EXCEPT ![r] = @ \ {t}]
       /\ rows' \in {rows, [rows EXCEPT ![t] = @ \cup {r}]}
  /\ UNCHANGED <<det, mixed, sig, manual, derived, pc, at, cov, warm, tl>>

\* parseVolOutput goes on for ever over output that is not JSON: wg.Wait never returns.
PluginSpins(r) ==
  /\ pc[r] \in {"plugins", "hung"} /\ Goto(r, "hung")
  /\ \E t \in left[r] : left' = [left EXCEPT ![r] = @ \ {t}]
  /\ UNCHANGED <<data, at, cov, warm, tl>>

FillEndQuietly(r) ==      \* FAULTY: no detectors after the memory parse
  /\ (Step(r, "fill", "done") \/ Step(r, "plugins", "done")) /\ left[r] = {} /\ UNCHANGED <<data, at, left, cov, warm, tl>>

FillEnd(r) ==
  /\ (Step(r, "fill", "cover") \/ Step(r, "plugins", "cover")) /\ left[r] = {}
  /\ UNCHANGED <<data, at, left, cov, warm, tl>>

(* POST /api/merge-artifact: the request answers at once and a goroutine ingests. *)

MergeStart(m) ==
  /\ Serving /\ Step(m, "idle", "ingest") /\ UNCHANGED <<data, at, left, cov, warm, tl>>

\* triage.ParseDir routes a file by its path relative to the root it was given: the
\* files of a directory are ingested if their parsers accept them, a root that is
\* itself a file has the relative path "." and is routed to no parser, and adds nothing.
MergeIngest(m) ==
  /\ Step(m, "ingest", "ingested")
  /\ rows' \in {rows, [rows EXCEPT ![Disk] = @ \cup {m}]}
  /\ UNCHANGED <<det, mixed, sig, manual, derived, at, left, cov, warm, tl>>

MergeEnd(m) ==
  /\ Step(m, "ingested", "done") /\ Invalidate /\ UNCHANGED <<data, at, left, cov, warm>>

(* POST /api/ioc-import: rows of ioc_indicators that no detector run clears. *)
Import(i) ==
  /\ Serving /\ Step(i, "idle", "done") /\ manual' = manual \cup {i}
  /\ UNCHANGED <<rows, det, mixed, sig, derived, at, left, cov, warm, tl>>

-----------------------------------------------------------------------------
RunAll(r) == Cover(r) \/ ClearFails(r) \/ Clear(r) \/ Enrich(r) \/ Insert(r) \/ RunAllEnd(r)
Sigma(r) == SigmaNone(r) \/ SigmaClear(r) \/ SigmaRules(r)
BootStep == BootOpen \/ BootCount \/ RunAll(Boot) \/ Sigma(Boot) \/ Warm(Boot, "serving")
DetectStep(d) == DetectStart(d) \/ RunAll(d) \/ Sigma(d) \/ Warm(d, "done")
RamStep(r) == \/ WipeTable(r) \/ WipeEnd(r) \/ NativeFails(r) \/ NativeStarts(r)
              \/ VolatilityStarts(r) \/ VolatilityMissing(r) \/ FillTable(r) \/ PluginSpins(r)
              \/ FillEnd(r) \/ RunAll(r)
MergeStep(m) == MergeIngest(m) \/ MergeEnd(m)
WarmStep(r) == WarmBuild(r) \/ WarmStore(r)
ViewStep(v) == ViewHit(v) \/ ViewMiss(v) \/ ViewBuild(v) \/ ViewStore(v)

Next == \/ BootStep
        \/ \E d \in Detects : DetectStep(d)
        \/ \E r \in RamRuns : RerunRam(r) \/ RamStep(r)
        \/ \E m \in Merges : MergeStart(m) \/ MergeStep(m)
        \/ \E i \in Imports : Import(i)
        \/ \E r \in Warmers : WarmStep(r)
        \/ \E v \in Views : ViewStep(v)

\* Goroutines that have started keep running; requests may never come.
Fairness ==
  /\ WF_vars(BootStep)
  /\ \A d \in Detects : WF_vars(DetectStep(d) /\ pc[d] # "idle")
  /\ \A r \in RamRuns : WF_vars(RamStep(r))
  /\ \A m \in Merges : WF_vars(MergeStep(m))
  /\ \A r \in Warmers : WF_vars(WarmStep(r))
  /\ \A v \in Views : WF_vars(ViewStep(v) /\ pc[v] # "idle")

Spec == Init /\ [][Next]_vars
FairSpec == Spec /\ Fairness
-----------------------------------------------------------------------------
(* Properties. *)

Labels == {"open", "count", "serving", "idle", "cover", "clear", "enrich", "insert", "sigma",
           "rules", "warm", "wipe", "vol", "fill", "plugins", "hung", "ingest", "ingested", "build", "store",
           "done", "failed", "gaveup"}

\* Every variable has its type; a cached or built timeline is a content of the case.
TypeOK ==
  /\ rows \in [Table -> SUBSET Source] /\ det \subseteq Hits /\ mixed \in BOOLEAN
  /\ sig \subseteq Runners \cup {Old} /\ manual \subseteq Imports /\ derived \subseteq Runners
  /\ cache \in Contents \cup {NoRows}
  /\ built \in [Warmers \cup Views -> Builds \cup {NoRows}]
  /\ pc \in [Actors -> Labels]
  /\ at \in [Runners -> Nat] /\ left \in [RamRuns -> SUBSET MemTable]
  /\ cov \in [Runners -> SUBSET Table]
  /\ warm \in [Warmers -> {"none", "build", "store", "stored"}]
  /\ clock \in Nat /\ newest \in 0 .. clock /\ overtaken \in BOOLEAN

AtRest == /\ \A a \in Actors : pc[a] \in {"idle", "serving", "done", "failed", "gaveup", "hung"}
          /\ \A r \in Warmers : warm[r] \in {"none", "stored"}

\* A RAM analysis that reached its detectors (and took its coverage snapshot), or an
\* import, has changed the timeline's rows without touching the cache.
Bypassed == (\E r \in RamRuns : cov[r] # {}) \/ manual # {}

\* When nothing runs, the cached timeline is the case's present content, or empty because
\* its query failed (safeQuery swallows the error), unless the detectors of a RAM
\* analysis or an import went past the cache, which nothing invalidates for them, or a
\* slow build was stored after a newer build or an invalidation.
StaleOnlyByRace ==
  AtRest /\ cache # NoRows /\ ~Bypassed /\ ~overtaken => cache \in {Content, Nothing}

\* A detector's hits are in ioc_indicators twice only if another run of the detectors was
\* between its DELETE and its last INSERT while the run that cleared last was: the next
\* run that has the database to itself puts it right.
DuplicatesByOverlap == (\E g, h \in det : g # h /\ g.id = h.id) => mixed

\* Once a RAM analysis has ended with its detectors run, no detector shows hits on
\* memory rows that are no longer the case's, nor on a table that was empty when it
\* looked and has been filled since: the old hits went with the old rows.
MemoryHitsAreLive ==
  (\A r \in RamRuns : pc[r] = "done") /\ AtRest =>
    \A h \in det : \A t \in MemTable \cap DOMAIN h.from : h.from[t] = rows[t]

\* "Detectors whose requireTables are not all populated are skipped.": no hit of such a
\* detector was found while a table it requires was empty.
HitsAreCovered == \A h \in det : \A t \in Needs(h.id) : h.from[t] # {}

\* Whatever was started ends: a request, a RAM analysis, a merge, a cache build.  Only a
\* RAM analysis that went to Volatility may not, and then a plugin's output was malformed
\* and the analysis waits in wg.Wait for ever; everybody else ends all the same.
AnalysesEnd ==
  \A a \in Actors \ Views : pc[a] # "idle" ~>
    pc[a] \in {"serving", "done", "failed", "gaveup"} \/ (a \in RamRuns /\ pc[a] = "hung")

\* "Rebuild timeline cache with fresh detection results.": once run-detect's rebuild was
\* stored and nothing runs, a cached timeline that is no failed query's shows the case's
\* detection results.
RebuiltTimelineIsFresh ==
  AtRest /\ (\E d \in Detects : pc[d] = "done") /\ cache \notin {NoRows, Nothing} =>
    cache.det = det
=============================================================================
