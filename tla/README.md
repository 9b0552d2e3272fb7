# forensiq: a verification project

forensiq is a digital-forensics tool in Go. `analyze` fills one DuckDB *case* from a
triage archive, a disk image and a RAM dump; indicators are extracted, detectors and SIGMA
rules run over the case, and an analyst reads it through a web server, a REPL, a terminal
UI and reports. This directory holds TLA+ models of that code, the TLC runs that check
them on small instances, and proofs that TLAPS checks for instances of every size.

| File | What it is |
|---|---|
| `Ingest.tla`, `RunContract.tla` | filling a case; what filling promises its caller |
| `IngestProofs.tla` | theorems about `Ingest`: its goroutines and its reports |
| `CaseServer.tla`, `CaseServerProofs.tla` | the web server while it changes an open case; theorems about it |
| `Progress.tla`, `ProgressProofs.tla` | the live progress display; theorems about it |
| `DiskImage.tla`, `Ewf.tla`, `Vmdk.tla`, `ImageContract.tla` | image readers; what they promise |
| `ImageProofs.tla` | theorems about the image readers |
| `MftWalk.tla`, `WalkProofs.tla` | the NTFS walk over the MFT; theorems about it |
| `StreamReader.tla`, `StreamContract.tla` | the readers of an NTFS stream; what they promise |
| `StreamProofs.tla` | theorems about the readers of a stream |
| `Registry.tla` | `amcache`, `shimcache`, `registry`, `shellbags`: hives and their logs |
| `BrowserDb.tla` | `browser`: an SQLite file and its write-ahead log |
| `Journals.tla` | `usnjrnl`, `logfile`, `evtx`, `mft`: one record after another |
| `Ese.tla` | `srum`, `ntds`, `bits`: an ESE database |
| `Memory.tla` | `memparse`: a memory dump |
| `Documents.tla` | `jumplists`, `email`: compound files, links and messages |
| `Prefetch.tla` | `prefetch`: the decompressor of Windows 10 files |
| `Rules.tla` | `sigma`, `yaralite`: a run of a set of rules over the case |
| `Decoders.tla` | all readers of one artifact and the rule engines as one specification, a job at a time |
| `ParserProofs.tla` | theorems about the parsers of one artifact and the rule engines |
| `MemoryProofs.tla` | theorems about memory dumps, and the lemmas about lists that they need |
| `MC*.tla`, `MC*.cfg` | the instances that TLC checks |
| `PROJECT.json` | components, runs, mutants, map to the source, findings, hazards, theorems |

Run `tlc -config MCIngest_files.cfg MCIngest` and so on; `tlapm IngestProofs.tla` and so on
(`ImageProofs`, `StreamProofs` and `WalkProofs` take some minutes each, `ParserProofs` and
`MemoryProofs` up to a quarter of an hour).

## 1. Inventory

### The system's parts

| Component (`internal/...`) | State it keeps | Operations | How it interacts |
|---|---|---|---|
| `orchestrator` | progress channel of 256, WaitGroup, `RunResult` | `Run` | starts the three producers, drains their events; called by `cmd/analyze` and the server |
| `parsers/triage` | none (a temporary directory) | `ParseZIP`, `ParseDir`, `RouteAll` | gives each file to one or more parsers, in sequence |
| `parsers/disk` | buffered Amcache hive and logs | `DiskAnalyze`, `openImage`, partition tables | image reader below, NTFS walker in the middle, parsers above |
| `parsers/ewf`, `parsers/vmdk` | chunk map and ring of chunks; grain tables, grain index and caches | `Open`, `ReadAt`, `Close` | `io.ReaderAt` for the walker |
| `parsers/ntfs` | MFT index, the compression flag left by the last record | `OpenVolume`, `WalkTargetFiles`, `ReadNamedStream` | calls back with a reader per file, which reads the image lazily |
| `registry`, `shimcache`, `amcache`, `shellbags` | the hive's cells with the logs applied | `Parse`, `MergeWithLogs` | rows into the case, `Progress` events on the channel, as every parser |
| `browser` | pages with the write-ahead log laid over, a cursor over a table | `Parse`, `openSQLite` | as above |
| `usnjrnl`, `logfile`, `evtx`, `mft` | place in the file, one SQL transaction | `Parse` | as above |
| `srum`, `ntds`, `bits` | pages seen, the catalog, a map of names, a transaction per table | `Parse` | as above |
| `jumplists`, `email` | FAT, chains and directory of a compound file; a message's parts; the number of the last message of the process | `Parse` | as above |
| `prefetch` | the bits loaded and not consumed, the chunk's codes, what was put out | `Parse` | as above |
| `lnk`, `recyclebin`, `linux`, `wer`, `anydesk` | none beyond the line or field | `Parse` | as above |
| `parsers/memparse` | runs, page tables, profile, blocks seen, list walks | `Parse` in phases | as the parsers; its failure before the first row makes Run try Volatility |
| `volatility` | one process and one goroutine per plugin | `Run`, `RunPlugin` | rows into the case, events sent without blocking |
| `display` | rows of the progress display, the terminal | `Update`, `Stop`, the animation, a signal handler | called from Run's consuming loop |
| `ioc` | none | `ExtractAll` | reads artifact tables, fills `iocs` |
| `detect` | coverage snapshot | `RunAll` | clears and refills `detect:` rows of `ioc_indicators` |
| `sigma` | rules, each compiled to one INSERT | `RunAll`, `ToInsertSQL` | clears and refills `sigma:` rows |
| `yaralite` | rules, each compiled to a WHERE clause | `LoadDir`, `ScanAll` | clears and refills `yaralite:` rows |
| `server` | `tlCacheData` under a lock, the open `*sql.DB` | about fifty read endpoints; `run-detect`, `rerun-ram`, `merge-artifact`, `ioc-import`, `triage` | each request and each analysis is a goroutine over the one database |
| `report`, `export`, `display` tables, `llm`, `repl`, `tui`, `cmd` | queries' results, key focus | commands | read the case |
| `fcase`, `schema` | the open case file | `Open`, `Apply` | below everything |

### What is hard here, and what makes each part correct

* **Filling a case**: producers, plugins, consumer and closer interleave over a bounded
  channel. Correct means: nobody sends after the close, `Run` returns, every parser is
  counted or blamed exactly as it ended, no row is written after `Run` has returned.
* **The server**: detection, RAM analysis, merges and imports change one database a
  statement at a time while the timeline cache is built outside its lock. Correct means: a
  cached timeline is the case's, hits are there once and refer to rows that exist, and one
analysis that hangs holds up nobody else.
* **The display**: two goroutines draw frames with cursor movements on one terminal.
  Correct means: no remnants, and a last frame that tells how each parser ended.
* **Images and file system**: damaged, cut and fragmented evidence is the normal input.
  Correct means: what a reader answers is what the disk held; what is lost is an error and
  never other bytes; a file's content, name and path are its own.
* **Decoders**: loops over lengths and offsets taken from the file must end (some do not, or end
  the process: the findings and `ReadsEnd` name them), must resynchronise, and must not lose or
  double rows; chains, trees and lists of a damaged file lead back to where they were; transaction logs must be applied exactly when they are valid;
  what is found by searching (freed cells, pages, blocks in memory) must not be taken for what
  is listed. Correct means: the rows are those of whoever wrote the artifact.

* **Rule engines**: a rule becomes SQL text, and what its words, lists and brackets turn into
  decides what is a hit. Correct means: a run replaces the engine's own hits, and each rule
  has hit the rows it speaks of, whatever became of the rules before it.

`PROJECT.json` lists the components one by one and the hazards at their lines.

## 2. What is modelled

### Filling a case: `Ingest`

`ch`, `closed`, `wg` and `subWg` are the channel and the WaitGroups of `Run` and of
`volatility.Run`; `pc` has one entry per goroutine; `out` holds the events that a producer
is about to send, so that every send can block; `files`, `cur`, `vols` and `hive` say how far
the walk of the archive or the image is. A *unit* is one `Parse` call, one phase of the
memory parser or one plugin, with `outcome`, `stored` (none, some or all of its rows),
`tally` (counted in `RunResult.TotalArtifacts`) and `errs` (`RunResult.Errors`).

| Action | Code |
|---|---|
| `TriageOpen`, `SkipFile`, `OpenFile`, `EndFile` | `ParseZIP`, `ParseDir` |
| `DiskOpen`, `VolumeOpen`, `VolumeHive`, `VolumeEnd` | `DiskAnalyze` with its Amcache pass after the walk |
| `ParserTick`, `ParseOK`, `ParseFail` | a parser; `Kind` is how it fails: its transaction rolls back ("tx"), rows stay ("loose"), it reports itself ("selfreport", "both") or says nothing ("quiet") |
| `NativePhase`, `NativeEnd`, `VolatilityStart`, `RamJoin` | the RAM producer and its fallback |
| `PluginOK`, `PluginFail`, `PluginSpin` | `RunPlugin` and `parseVolOutput` |
| `Send`, `TrySend` | `ch <- e`, and the `select` with a `default` of the RAM side |
| `Close`, `Receive`, `Return` | closer goroutine and consuming loop |

`RunContract` is what a caller may rely on without knowing of goroutines: units finish, a
finished one is counted at most once, a failed one is blamed, and `Run` returns after every
reliable unit is settled. `KeepsContract` is the refinement.

### The server: `CaseServer`

Each database statement is one step, since DuckDB commits it by itself. `rows` says for each
table which sources have put rows into it; a hit in `det` records the rows its detector found in
each table it read, so that a hit on rows that are gone, or on a table that was empty, can be seen.
A detector skips itself by the coverage snapshot (`Needs`) and then reads the tables as they are
(`Fires`): it must find rows in those it selects from (`Drives`), whereas of a table that it only
anti-joins, as `hidden_process` does `mem_pslist` and `amcache_ghost` does `mft`, nothing may be left:
then every row is a hit. `mixed` remembers that another run of the detectors was between its
DELETE and its last INSERT (`Between`) when the last DELETE came. `cov`, `at` and `left` are the loops of
`detect.RunAll` and of the RAM wipe and fill. `cache`, `built` and `warm` are the timeline
cache, what a builder holds between its build and its store, and where that builder is;
`clock`, `newest` and `overtaken` are history variables that say whether a build was stored
past something newer. `Bypassed` says that a RAM analysis has reached its detectors or that an
import has been stored: both change what the timeline shows and do not touch the cache. `Build`
gathers the content of one moment, or nothing at all (`Nothing`), as `safeQuery` swallows the error
of its query. The fill of a RAM run goes table by table, natively ("fill") or by Volatility's plugins
("plugins"); a plugin whose output is malformed spins (`PluginSpins`), the analysis is then "hung"
in `wg.Wait` for good, and the other plugins go on storing.
Actions follow `Start`, `handleRunDetect`,
`runRAMAnalysis`, `handleMergeArtifact`, `handleIOCImport`, `handleTimeline`,
`WarmTimelineCache` and `InvalidateTimelineCache`.

### The display: `Progress`

`rows`, `lines` and `stopped` are the fields of `ProgressDisplay`; `frame` is a renderer's
snapshot and the lines it has built outside the lock; `screen`, `cursor` and `visible` are the
terminal. `LineOf` is the line that a row has in a frame, with the headings of the groups
before it, and `FrameOf` the frame of given rows: what `render` would draw if nothing changed
under it. A frame is moved up, erased and rewritten in one write; snapshots, status changes
and writes interleave between the goroutines. `late` remembers a frame that the animation had
begun and not finished when `Stop` was called.

### Images: `DiskImage` over `Ewf` and `Vmdk`

`Ewf`: segments are opened one by one (`ParseSegment`, `Opened`), then `ReadAt` copies chunk
after chunk, from the ring (`FromCache`), from a segment (`FromSegment`), or stops (`ChunkFails`,
`Outside`). `Vmdk`: the sparse form goes over directory and tables, the stream form over an
index that the opening scan makes. `DiskImage` chooses by extension. An image comes with the
disk it was made from and the offsets it has lost (`cut`); only `ImageContract` looks at those:
an answer is a prefix of the disk at the offset, a lost byte may be zero, EOF is the end.
A chunk or grain that inflates to less than lies before the offset makes the slice expression
panic: the reader is then "panicked", which `EveryCallReturns` allows and nothing else. What
it is for an image to be made from a disk (`EwfMadeFrom`, `SparseMadeFrom`, `StreamMadeFrom`)
is a named assumption, so that TLC evaluates it for the instances and the proofs rest on it.

### The walk: `MftWalk`

A record is what NTFS says it is: whether it can be read and passes its fixup, the record it
extends, its names with their rank, its unnamed `$DATA` with VCN, runs and sizes, and its
attribute list. `Skip`, `IndexOnly` and `Collect` are one turn of the first pass each, with
`extractDataRef`, `collectExtDataRuns` and `fileNameFromExtRecs` as operators; `last` is the
compression flag that one record leaves for the next. `LeaveOut` and `CallFn` are turns of the
second pass, and `BuildPath` is `buildPath`: `Climb` follows the parents that the index has,
`Height` is where it stops. What a record says is an operator on the MFT `v` and a record's
number, so that a theorem can speak of it. The callback's error is left out: the only callback,
`DiskAnalyze`'s, returns nil.

`Rooted` says when NTFS has a path for a file: its directories live and have names up to the
root. Record 0 is no directory, where `buildPath` stops, and the root itself has no path.

### Streams: `StreamReader`

`ReadRun` is one `runStreamReader.Read`; `FromCache`, `LoadUnit`, `LoadFails` and `UnitIsLost` are
`compressedRunStreamReader.Read`; `ReadRuns` is `readRuns`. Every call may be of any size in
`ReadSizes`, and `ReadAt` may fail `MaxFaults` times in between. LZNT1 is the constant operator
`Inflate`. `StreamContract` is `io.Reader` over a file: its bytes in order, EOF after the last;
a file that is damaged or cut short may end early (`loss`). `MadeFrom` is the assumption that
ties the volume's bytes to the file: each byte is in its run, a hole or behind the cut, each
unit inflates to its part of the file.

### The parsers of one artifact: `Decoders`

The readers above, the seven below and the rule engines have one shape. An *artifact* is a record with `file`,
what the parser gets to see, and next to it what it was made from (`holds` or `truth`: rows
of the one who wrote it, what was damaged). Actions look at `file` alone, properties compare
the rows with the rest. An artifact's other part is what the system had written, also where the
code does not find it: what the code loses is taken off in the property, in words that name the
line. A behaviour is the reading of one artifact: a case gives each file to
a parser of its own, one after another, and nothing but the database is common to two of them.
`Decoders` makes that one specification: `job` is the parser that reads, and the variables
`made`, `stage`, `pos`, `mem`, `aux`, `out` and `done` are instantiated into each module
(`Streams!`, `Walk!`, `Images!`, `Registry!`, ...). `out` are the rows, or bytes, handed out;
`done` is how it ended; `aux` counts the inserts that have failed, `MaxRowFaults` at most.

| Module | A step is | Kept from the code |
|---|---|---|
| `Registry` | an entry of a log (`ApplyEntry`), then a parser's whole walk of the tree | which sizes and counts end a log; lists of lists with missing cells; both Amcache layouts and the scan of allocated cells behind them; that a list of values is read from its size word; the first control set's cache; the three passes of `registry`, each with its rows; both logs without a look at their sequence numbers; lists of lists and folders that lead back, which end the process (`Overflow`, `WalkForEver`) |
| `BrowserDb` | a frame of the log (`ApplyFrame`), then a table | salts; pages that are lost; the reader's own limits of what a cell holds; overflow chains; both browsers' tables; interior pages that lead back, which end the process (`Overflow`) |
| `Journals` | a record, a block, a page, a chunk | `SkipBlock`, `Resync` in the change journal, a damaged length believed if it fits the file; restart pages, `NextPage`, `Retry` in the log; chunks that panic, routing by number and channel, the transaction that stores all or nothing |
| `Ese` | a page (`VisitPage`, `PassPage`), a record (`InsertRecord`), a commit | the walk with its set of pages seen; the catalog and its other names; the map of names; the searches when a table is missing or nothing was stored |
| `Memory` | a page, a block, a row that is stored | runs; the search for the kernel's tables; four levels with large pages; the choice of a profile, and whether it has the time of exit; what the body of any page gives when it is read as a process or a module (`junk`); lists, trees and the limits at which each walk gives up; the searches and what they leave out |
| `Prefetch` | a table, a symbol | canonical codes; which words are loaded when, and the bytes and tables between them; copies that overlap; where a cut stream is noticed, where not, and where it is waited for (`Waits`) |
| `Rules` | one rule of `sigma`, one target of a rule of `yaralite` | the parser of conditions word by word; where brackets are put and where not; unknown names and fields; patterns; SQL's precedence and NULL; a statement that fails |
| `Documents` | a sector, a part, a line, a row | the FAT through the DIFAT; chains, with and without a set of what was seen (`Circles`, `DifatTurns`); trees and directories that are damaged or cut off, which end the process (`TreeFails`, `HeaderIsCut`); mini streams; DestList and the links it does not name; the mbox splitter; message, attachments and addresses in one go or none |

The repository has the hive reader three times, the ESE reader three times and the compound
file reader twice. Where the copies do the same one definition stands for them; where they
differ (`IsMsg`, `parser`) both forms are there.

In `Prefetch` a byte has `ByteBits` bits and a word twice as many, so that the offsets, code lengths
and look-ahead keep the relations they have with 8 and 16. The instances (`MCPrefetch`) lay out
the words where a compressor of the format puts them, computed from the number of bits written
and not from a reader's state.

In `Rules` a text is what SQL makes of it: a sequence of conjunctions of truth values, so that
joining two texts without brackets around them changes what they say, as it does in the code.
A comparison (`LIKE`, `=`, `>`) is a test that holds for a row or not. An instance builds each
condition together with the set of rows it speaks of, so the reference is no second parser. The
table of hits is a bag. The order in which the targets of a `yaralite` rule are scanned is a
slice's in Go; the model leaves it open, since no hit depends on it.

In `Documents` the rows of one message are queued and stored one by one, the message first; the
next message is read when the queue is empty.

## 3. What the runs show

| Run | Instance | Shows |
|---|---|---|
| `ingest_files` | channel of 2, an archive and an image, each way a parser can fail | `ReportsAreTrue`, `ReturnedComplete`, `CaseIsQuiet`, `KeepsContract` |
| `ingest_ram` | channel of 1, the archive and a RAM dump with two plugins | `WaitGroups`, `NoSendOnClosed`, `NativeOrFallback`, `OnlyRamReportsAreLost`; live: `RunReturns`, `FailureSurfaces` |
| `plugin_malformed` | a plugin that may print text | violated: `PluginFinishes` (finding 1) |
| `case_cache` | start-up, one run-detect, one merge, one import, one request that builds inline; any build's query may fail | `StaleOnlyByRace` |
| `case_ram` | one RAM analysis, started with the server or requested, next to start-up's detectors and a merge; two memory tables, `hidden_process` over both | `MemoryHitsAreLive`, `DuplicatesByOverlap`; live: `AnalysesEnd` |
| `case_uncovered` | the same without the merge | violated: `HitsAreCovered` (finding 6) |
| `case_slow_warm` | start-up and one run-detect | violated: `RebuiltTimelineIsFresh` (finding 2) |
| `progress_frames` | three parsers in two groups, four events, two ticks | `OneFrame`, `FinalFrame` |
| `decoders` | the artifacts below, each read to its end | the properties below; live: `EveryCallReturns`, `ReadsEnd` |
| `walk_split` | the same | violated: `PrimaryStreamsAreWhole` (finding 3) |
| `sigma_conditions` | the rule sets of `decoders` | violated: `ConditionsAreRead` (finding 4) |
| `wal_uncommitted` | the same | violated: `OnlyCommittedFrames` (finding 5) |

| Artifacts of `decoders` | Its safety properties |
|---|---|
| sixteen streams on seven clusters, calls of 1, 2, 3 and 5 bytes, two faults | `CacheIsTheUnit`; refinement `StreamIsTheFile` |
| some 1200 MFTs of eight records | `StreamsAreTrue`, `PathsAreTrue`, `WalkIsComplete` |
| thirteen images of a seven-byte disk, two calls after another | `CachesAreTrue`; refinement `AnswersAreTheDisk` |
| 33 hives of the four parsers, without logs, with logs in order and with a stale second one; values that are their key's last; lists and folders that lead back | `RowsAreTheHive` |
| 12 browser databases, whole, stopped in a transaction, damaged, with pages that lead back | `RowsAreCommitted` |
| 33 journals, logs, event logs and MFTs, one failing insert; damaged lengths that end inside later records, between them and behind the file | `RecordsSurviveDamage` |
| 12 ESE databases, one failing insert or commit | `PagesAreTheTable` |
| 25 dumps of one machine under three profiles, with and without the time of exit, whole and damaged, lists that lead to what is no process, one failing insert | `MemoryIsTheMachine`, `ConnectionsAreOwned` |
| 37 jump lists and messages, whole, cut at every part, chains, DIFAT and trees that lead back, one failing insert | `DestinationsAreTrue`, `MessagesAreTrue` |
| 548 compressed files of two codes, one and two chunks, whole and cut, also where the decoder waits | `FileIsInflated` |
| 466 conditions and six rules of `yaralite` over eleven and six rows, one failing statement | `HitsAreTheRules` |

Together these are 1997 artifacts, 75,639 distinct states. `TypeOK` is the conjunction of the
components'.

What a property allows, it says; the reader of a row above should know:

* `RowsAreTheHive`: a row is of a key or an entry that the system had stored, once, whatever the
  hive and the logs. That nothing is lost is said of an undamaged hive (and of an Amcache damaged above
  its layout's key) whose logs are in order, and there of all values but the last of each key
  (`OfLast`), though the comment on `values` claims all of them.
* `RecordsSurviveDamage`: a damaged record costs its page, and those into which its damaged length
  reaches, as far as the file goes.
* `MemoryIsTheMachine`: under a profile without the time of exit an ended process passes for hidden,
  and regions are only found of listed processes. Both are findings. Of a damaged dump nothing is
  listed twice, and a number and a name are given together only if they stand together in a page.
* `DestinationsAreTrue`: the rows are the list's links less two kinds that the code never stores, and
  that comments claim: those behind the first of a custom list (`later`), and those of streams that
  DestList names without a path (`pathless`). Both are findings.
* `FileIsInflated`: no instance is cut inside a word, where the code ends in bytes that were never
  there; of a stream where the decoder waits only what it has put out by then is compared.
* `HitsAreTheRules`: of a rule that is not `plain` (regular expressions, NOT over a column that may be
  NULL, brackets, lists and words that the compiler misreads) only that each of its hits is there once.
* `ReadsEnd`: every reader comes to its end or stays at one of three places, which it names; an end may
  be that of the process, at the places that `Decoders` lists beside it.

Every property has a mutant in `PROJECT.json`: an operator of the model changed the way a
plausible bug would change the code (marked FAULTY next to the original), under which TLC finds
the property violated.

### The findings

1. `parseVolOutput` continues its loop after a JSON error that every later `Decode` repeats, so
   a plugin that prints text never ends, and `Run` with it.
2. `WarmTimelineCache` builds outside the lock and stores whatever it built: the start-up build,
   finishing late, replaces the one that `run-detect` made, for good.
3. When a file's `$DATA` begins in its base record and goes on in an extension record, the
   walker hands out the full size and a reader over the first segment.
4. `conditionToSQL` splits a condition at blanks only. A bracket that touches a word makes it a
   name that no selection has, and an unknown name is TRUE: shipped rules with `(1 of selection*)
   and not filter` make a hit of every row of their table.
5. `applyWAL` lays over the database every frame of the log's salt, also those that no commit
   follows: rows of a transaction that never was are reported.
6. A detector is skipped by a coverage snapshot taken before the enrichments. When a RAM analysis
   empties `mem_pslist` after it and has not emptied `mem_psscan`, `hidden_process` takes every process
   for a hidden one, until the analysis runs the detectors itself.

Met while reading, stated in `PROJECT.json` without a run of their own; the model does the same as the
code unless said otherwise:

* *Server*: runs of the detectors that overlap store hits twice (`DuplicatesByOverlap` allows exactly
  this); the timeline of a failed query is cached.
* *Hives*: `values` reads a key's list from where its cell begins, so that the size word is taken for
  the first value and the last is lost (three copies); LOG2 is laid over LOG1 whatever the sequence
  numbers; an ri list or a folder that leads back to itself overflows the stack; inline data longer
  than four bytes panics (not modelled); `shellbags` reads a key's name four bytes early.
* *SQLite*: the limits of index pages are used for table leaves (the model has both, `Local` and
  `StoredLocal`, and `RowsAreCommitted` asks for whole rows where they agree); an interior page that
  leads back overflows the stack.
* *Journals*: a damaged length that fits the file is believed, however many records it reaches over.
* *ESE*: the header's fields are taken four bytes early (the model's pages are what `readPage` makes of
  them); `buildIDMap` takes users for programs.
* *Memory*: two of the profiles do not read the time of exit, so that ended processes pass for hidden;
  the regions of a hidden process are looked for at a physical address.
* *Documents*: a jump list's chain and a message's DIFAT that lead back are followed for ever; a tree of
  properties that leads back overflows the stack; a directory or a header that is cut off is indexed all
  the same; a custom jump list gives one row at most; a stream that DestList names without a path is
  passed over; any line that looks like `From ` and has a second space splits an mbox (not modelled).
* *Rules*: a list of maps and `1 of` a pattern are put into a condition without brackets; `1 of them` is
  TRUE; a regular expression of `yaralite` matches nothing.
* *Prefetch*: a file cut just before a long match's offset keeps the decompressor waiting for ever, and
  one cut inside a word ends in bytes that were never there.

### Bounds, and why they are enough

* Channels of one and two slots make every send block with two or three producers; a larger
  channel only makes blocking rarer.
* Units are one per way of failing, since what the code does next depends on nothing else;
  two files per walk give a file before and after a failing one.
* One run-detect, or one RAM analysis, next to start-up gives two concurrent `RunAll`s, and the first
  two concurrent builders, the number that the races need; each is a pair's property. The two memory tables that
  `hidden_process` needs give a wipe between its coverage and its SELECT, on either side of its anti-join.
* `MaxUpdates` and `MaxTicks` let the animation draw before, between and after the events that
  register the second group and finish a parser.
* Chunks, grains and clusters of two bytes and caches of one or two entries make every
  boundary, eviction and wrap of a real image happen in seven bytes.
* An MFT of eight records holds a parent before and after its child, deleted parents, a loop,
  names and segments in extension records in and out of order, and a compressed file just
  before one that is not. `MaxDepth` of four stands for 64.
* Read sizes of one to five cross a run, a unit and the end from every position.
* Hives, databases and compound files of some twenty cells, pages and sectors have each link
  (list, list of lists, folder, child, sibling, overflow, chain, DIFAT) intact, missing, and leading
  back, whether the code keeps a set of what it saw or not; two logs with an entry of the first after one
  that ends it, and with a second that is older than the first; two tables of one name.
* Journals of three pages with blocks of four cells put a damaged record before, between
  and behind whole ones, at the end of a block and of the file, with a length that is none, ends
  elsewhere in its page, inside a later record, or behind the file. `MaxRowFaults` of one fails
  every single insert and commit; a second failure meets no state that the first did not.
* Compressed files have every sequence of up to three of their codes' tokens behind two or three
  literals, so that long matches and the end of a chunk fall on each bit of a word.
* Conditions are every literal, every literal joined with every name, and two levels of brackets
  over three literals: what the parser does at a bracket, an operator or a name depends on nothing
  further away. Eight rows are all assignments of the three tests; two more have a NULL column.
* A machine of 32 pages has tables of four entries on four levels, pages of three sizes, three
  processes on the list and others off it. `Limits` are the code's counts scaled down, each
  small enough for one dump to reach it. Lists and endpoints lead to pages of every other kind, whose
  body is no process, one without a name or a number, or one that passes for a process.

### Fairness, and why the code justifies it

* `Ingest`: weak fairness per goroutine, since Go's scheduler is preemptive; strong fairness for
  a producer's `Send`, because a channel hands a free slot to the sender that has waited longest.
  A plugin's process is assumed to end.
* `CaseServer`: weak fairness for goroutines that have started; requests need never come. Nothing
  makes a plugin that spins return: `AnalysesEnd` says that a RAM analysis ends or hangs in `wg.Wait`,
  and that no other request, merge or build is held up by one that does.
* `Decoders`: a parser is one goroutine that nothing holds up, and reads until EOF as `io.ReadAll`
  does; an image's caller may stop between two calls. This is weak fairness of `Next`, written
  without `ENABLED`, which TLC is slow to evaluate here: `[]<>~Working \/ []<><<Working>>_vars`. The
  two are the same because TLC checks for deadlock, so that a reader which is working has a step,
  and because every step changes `turn`, so that a loop which changes nothing else is a loop and
  not the end of the behaviour. The places where the code goes round for ever (`GoesRound`) are such loops.
* Safety runs assume no fairness.

## 4. What is proved

Each theorem holds for every value of the constants that meets the module's assumptions.

| Module | Theorem | Statement |
|---|---|---|
| `IngestProofs` | `TypeCorrect` | `Spec => []TypeOK` |
| | `WaitGroupsHold` | `Spec => []WaitGroups` |
| | `SendsBeforeClose` | `Spec => []NoSendOnClosed` |
| | `QuietAfterReturn` | `Spec => CaseIsQuiet` |
| | `ReportsTrue` | `Spec => []ReportsAreTrue` |
| | `CompleteAtReturn` | `Spec => []ReturnedComplete` |
| | `LossIsCounted` | `Spec => []OnlyRamReportsAreLost` |
| | `OneMemoryParser` | `Spec => []NativeOrFallback` |
| | `RunKeepsContract` | `Spec => KeepsContract`: `Ingest` implements `RunContract` |
| `CaseServerProofs` | `TypeCorrect` | `Spec => []TypeOK` |
| | `StaleTimelines` | `Spec => []StaleOnlyByRace`: the three ways to a stale timeline, and no fourth |
| | `MemoryHits` | `Spec => []MemoryHitsAreLive`, anti-joins included |
| | `HitsOncePerRun` | `Spec => []OnceEach`: a run's hits are there once, however runs overlap |
| | `Duplicates` | `Spec => []DuplicatesByOverlap`: what is there twice comes of an overlap, and the next run that is alone removes it |
| `ProgressProofs` | `DisplayTypes` | `CalmSpec => []TypeOK` |
| | `FramesReplace` | `CalmSpec => []OneFrame` |
| | `LastFrame` | `CalmSpec => []FinalFrame` |
| `ImageProofs` | `ImageCaches` | `Spec => []CachesAreTrue` |
| | `ImageAnswers` | `Spec => AnswersAreTheDisk`: both readers implement `ImageContract` |
| `WalkProofs` | `WalkPaths` | `Spec => []PathsAreTrue` |
| | `WalkCompletes` | `Spec => []WalkIsComplete` |
| | `WalkStreams` | `Spec => []OwnStreams`: a file is read as its own record says |
| `StreamProofs` | `StreamCache` | `Spec => []CacheIsTheUnit` |
| | `StreamAnswers` | `Spec => StreamIsTheFile`: all three readers implement `StreamContract` |
| `ParserProofs` | `RecordsSurvive` | `Spec => []RecordsSurviveDamage`: damage to a journal costs its page and those its length reaches into |
| | `EngineHits` | `Spec => []HitsAreSelected`: the table has the hits of each rule's compiled statement, each once, those of the engine's earlier run are gone and nobody else's are touched |
| | `LogLaidOver` | `Spec => []LogIsLaidOver`: a browser's tables are read from the log's last pages |
| | `LogsLaidOver` | `Spec => []LogsAreLaidOver`: likewise the Amcache hive and its two logs |
| | `AccountsOnce` | `Spec => []AccountsAreDistinct`: `ntds` stores an account's name once |
| | `MailboxInOrder` | `Spec => []MailIsInOrder`: a mailbox's parts follow their message, numbers differ |
| `MemoryProofs` | `ConnectionsOwned` | `Spec => []ConnectionsAreOwned`: a connection of a dump has one row, and a name that stands beside its owner's number |

### From which assumptions

* `IngestAssumption`: the channel has a slot, plugins are finitely many, files are sequences
  of units. `UnitsAreCalls`: a unit is one call of one parser on one file, so two files,
  volumes or producers share none; that is what a unit is, not a restriction on the input.
* `ServerAssumption`: requests of different kinds are different, the ids of the built-in
  detectors differ, as they do in `builtin.go`, and a detector reads the tables that it requires.
* `ProgressAssumption`: a parser is not called like one of the display's own marks, which are
  values of the model and not texts on the screen.
* `ImageAssumption`: sizes are positive and every image is made from its disk, whatever it
  has lost.
* `WalkAssumption`: an MFT is a sequence of records, which may say anything and refer to each
  other in any way, in circles too; `RootRef` and `MaxDepth` are positive.
* `StreamAssumption`: likewise that a file's runs and units hold its content. How a unit is
  put together from its runs (`Stored`) and the first cluster of a run (`StartVcn`) are folds
  over the list of runs, and stay folded in the proofs.
* `JournalAssumption`: what a journal or log is, and what damage may do. The records are in
  the file where `made.at` says, one behind another. The head of one in a page that is hurt may hold
  anything, any length included; what it reaches over (`Covers`) is no longer whole, with its
  page (`Reached`). Excluded is that a head arises by chance where no record was written, outside of
  whole records, that the row of a damaged record changes, and that a
  whole record begins behind four zero bytes in their block, which the code skips to its end.
  Of an event log `holds` are the
  events of the chunks that can be read; of an MFT listing it is the rows.
* `RuleAssumption`: the rules are a sequence, a row is known by its number, the table is a bag.
* `BrowserAssumption`, `HiveAssumption`: a write-ahead log is a sequence of frames, a hive has two
  logs of entries, each a sequence of pages. Frames, sizes, counts and pages may say anything.
* `DumpAssumption`: a dump has a sequence of runs and one of pages, which may say anything and refer to
  each other in any way. `truth.known` has every number and name that stand together in a page, of processes, ended
  ones included, and of anything that is read as a process: the code takes any body for one
  (`readEPROC`), so no more than this could be called true of a name.
* `AccountsOnce` and `MailboxInOrder` need no assumption: the database or mailbox is any value.

TLC evaluates every assumption on the instances of the runs, damaged and cut files included.

### The arguments

**No send on the closed channel** is not inductive: one has to know that whoever could send
keeps the closer waiting. The inductive invariant is `SafeClose`: the type
invariant; `WaitGroups`, by which the two counters are the numbers of goroutines not yet gone
and a plugin that runs holds the RAM producer at `join`; that the channel is closed only when
the first counter is zero; that `Run` has returned only then; and that no send has panicked.
`RunningMeansOpen` follows: a goroutine that is not gone is a producer, or a plugin for which the
RAM producer waits, so the counter is positive and the channel open. Each action then preserves
`SafeClose` because it either keeps the set of those running, or removes one and decrements; the
cardinality facts come from `FiniteSetTheorems`. `QuietAfterReturn` is an action property of
`SafeClose`: after the return no goroutine is left to take a step that stores.

**Every report arrives once.** `RunInv` adds two parts to it. `ReportInv`: the report of a
unit is in one place, the channel, the hands of one producer, or the tally, and it is the one
its outcome calls for; a missing one is a RAM unit's, and counted in `dropped`. The
producers' work (`TriageWork`, `DiskWork`, `RamWork`): what a producer still holds has not been
parsed, and no unit is held twice; the phases of the memory parser or the plugins are
untouched. The second part gives the first its step: a unit is reported at the one time it
ends. When `Run` has returned, nothing is in flight (`NothingInFlight`), so a reliable unit is
in the tally or blamed. `StepEffect` reduces the thirty-odd actions to a few ways of touching
reports, and the refinement follows from those: a step ends units, delivers one report,
returns, or is a stutter of the contract.

**A stale timeline** has one of three causes. `FreshInv`: unless the cache was bypassed or
overtaken, the cache is the case's content, or somebody is *due*, that is past a change and before
the invalidation or build that answers it, or a build of the present content waits to be stored;
and every build under way is the present content, older than the newest stamp, or older than one that
waits. The last two alternatives are what makes it inductive: an inline build of a request may
be stored between a warmer's build and its store, and is then replaced.

**Hits.** `LiveInv`: once every RAM analysis is past its DELETE of the earlier hits, no
memory row changes, so what is inserted was read from rows that stay; that holds of what an anti-join
did not find as well, since a hit records the joined table too. `OnceInv`: a run's hits are
those of the detectors it is past, however runs overlap. Nothing in the code keeps runs apart. So
`Duplicates` makes no such assumption: `AloneInv` says that unless runs have `mixed` since the last
DELETE at most one is between its DELETE and its last INSERT, and that the hits are its own. The other
alternative is the finding.

**One frame.** `ProgressInv`: where the two goroutines can be at the same time (`Places`), that a parser has one
row (`Types`), and that a frame under construction covers the rows it was begun with, though
statuses change under it and, in the animation, rows are added (`FrameOK`); and, as long as no
animation frame was caught unfinished by `Stop` (`~late`), that the screen is what stands above
and the last frame, the cursor below it, and that the frame in the making moves up by the
height of the one on the screen (`ScreenOK`). `lines` is written before the frame is, so the
height is that of one frame or the next according to where the writer is. The theorems are
about `CalmSpec`, in which no signal comes: the handler ends the process at any point.

**Answers of image readers.** `CacheInv`: a cached chunk, table or grain is what the image
holds at its key, nothing is cached before the image is open, a ring's slot is not used
twice. `CallInv`: the chunk map is the one that the segments read so far make, or the index
names the last block of each grain, and what a running call has copied is the disk's at the
offset, or a zero where the disk is lost. A turn of the loop then appends the bytes of one chunk or
grain (`CallGrows`), and the answer is one of the contract's (`CallAnswers`). What the map of
the first segments is (`ChunksAre`) is an induction over the segments.

**The walk.** `WalkOK`: the index has the names of the records read so far, and no others;
the files delivered and those pending are the wanted ones met so far, in the order of their
records, less those left out; and nothing is delivered before the last record was read. So
the index is whole when the first path is built, which is why a parent may lie behind its
child. What a path is then does not depend on the walk: `Chain` follows pointers, in the
index for the code and in the volume for `Rooted`; both chains agree up to the root
(`ChainsAgree`), the code's ends below it (`HeightIs`), and so the path is the file's
(`RootedPath`). `OwnOK` adds, for `WalkStreams`, that what waits has its own record's runs, size
and, unless it is resident, unit. `WalkStreams` says nothing of the order of the segments that extension
records hold: that part of `StreamsAreTrue` is checked by TLC.

The induction in these proofs is stated for sets (`Induction`: a set with 0 and the successor of
each of its numbers has all of them), since the library's theorems with an operator as
parameter cannot be cited; its base is `WFMin` of the library. A recursive
function is first shown to exist and then known by its steps (`ChainDefined`, `JoinedExists`).

**Bytes of a stream.** `StreamOK`: what was handed out is a beginning of the file, as long
as the position is far while the stream goes on; the cached unit is that of its index,
not behind the position's unit and not before that of the last byte handed out. A run's
bytes are the file's as far as the image has them (`RunIsTrue`), a unit's rest lies in the unit
and is empty only where the unit is damaged (`RestIsTrue`), and so EOF comes early only there.

**Records of damaged journals.** `JournalOK` has one part for each of the four formats. The position is at no
place within a whole record, so that no step can take the inside of a record for a
head; the rows are elements of what was written, of those before the position, in order
(`Collected`), and every whole record before the position is there, unless an insert failed.
Of a `$LogFile` and an MFT listing, whose transaction stores all or nothing, the rows are then a beginning of
what was written (`Complete`); of an event log, whose chunks may panic, every row of another table
stands behind the row of its event. A skip of a block
preserves this because nothing whole begins in it behind the zero bytes; a damaged record that is
believed may end inside a record, which is then one that it `Covers` and not whole; the proof's largest part is that the next
place the code looks at, after a record, a bad block, or a page header, is a head or no record.

**Hits of a run of rules.** `EngineOK`: the others' hits are those there were before; once the
engine's earlier hits are deleted, its own are exactly those of the rules it is past, each once,
except for what a failed statement left out; within a rule of `yaralite`, of the targets scanned. A
hit names its rule and row, so no two rules insert the same one. Whether a statement selects what its
rule means is a question to a recursive parser, and TLC's.

**Logs laid over pages.** For the write-ahead log (`BrowserOK`): the pages are the file's with the frames
before the position laid over (`IsLaidOver`), so each page is its last frame's, and frames
of another salt, left from before the log was reset, play no part. For a hive (`HiveOK`): a page
of a log is the triple of log, entry and place, ordered as they are applied (`Precedes`); the
cells are the hive's with the pages before the position over them (`IsOverlay`). Only entries that
are `Reached`, with no bad size before, count, and an entry with a bad count adds none.

**Accounts and messages.** `EseOK`: the rows have the names noted as seen, no two the same
one, whichever of the searches made them. `MboxOK`: the queue is the rest of the last message's rows; it
begins with the message itself, of whose number nothing is stored yet, or the message
is stored; no number is above the counter. So what is stored next is a message with a new number,
or a part of one that is there.

**Connections of a dump.** `MemoryOK`: until the blocks of each connection have been brought together no
connection is stored or in the queue; from then on those stored and those in the queue have
different ends, unless the table had reached its limit and was taken as it is. That the blocks kept
are of different connections rests on their order: of two blocks of one connection both cannot
be the best, since the better one wins and of equals the first (`DistinctIs`). A name comes
from the block that the endpoint points to, whose number must agree, or from the list or the search
of processes, whose members are what was read as a block from some page (`BlocksKnown`, `NameIs`). What the other scans
store is shown to be no connection, for which the flattening of lists (`FlattenFacts`), the tree of
regions (`TreeHits`) and the joining of their hits (`AllHitsAre`) are each an induction.

### What is model-checked only, and why

* All liveness (`RunReturns`, `FailureSurfaces`, `AnalysesEnd`,
  `EveryCallReturns`, `ReadsEnd`): TLAPS does not reach liveness under fairness.
* `Decoders!TypeOK`, which speaks of all eleven readers; and of `StreamsAreTrue` what `WalkStreams`
  leaves open, the order of segments that extension records hold.
* What is made of the pages, cells and records once they are there: `RowsAreTheHive` and
  `RowsAreCommitted` (that the logs are laid over rightly is proved), `PagesAreTheTable` (that no account
  comes twice is), `MessagesAreTrue` (that a mailbox is in order is), `MemoryIsTheMachine`,
  `DestinationsAreTrue`, `FileIsInflated`, and `HitsAreTheRules` (that the hits are those that the
  statements select is). They compare the
  outcome of a recursive function over the artifact (a tree, a chain, a text) with a
  reference, or speak of the order in which a filter, a flattening or a fold leaves its elements.
  Induction over numbers is within reach, as said above; an induction over trees needs a theorem
  with an operator as parameter, and `SelectSeq` and the folds are recursive inside, so that
  the provers know of their results only what lemmas built for each tell, as those for `FlattenSeq` in
  `MemoryProofs` do.

## 5. What is not modelled, and why

* **DuckDB**: a statement is atomic and durable, a transaction commits or leaves nothing.
  Two connections that write the same table may conflict in the real database; only the
  detectors' clear may fail in the model (`ClearFails`).
* **Record and row content**: names, sizes and timestamps matter only where a property tells
  them apart: a record is what its bytes are read as. SQL text of the detectors is data.
* **Slices of a record's bytes by lengths that it gives itself**: a parser may panic there
  (`amcache/regf.go:269`, findings). Records are what they are read as, so these panics are not in the
  models; `Decoders` says so at `ReadsEnd`.
* **Trees that `walkVAD` reads more than once** (`malfind.go:88`): it is stopped by its depth and gives a
  region more than once; the model does the same, and nothing is promised of such a dump's regions.
* **Message numbers across processes** (`email.go:16`): a behaviour is the reading of one file.
* **Lines of a message's text that begin with `From `**: the instances have none (`mbox.go:74`, findings).
* **Transfer encodings**: `email` leaves base64 as it is; the data of a part are what is stored.
* **Crashes**: nothing is resumed after one; a case that was being filled is filled again.
* **Overlapping RAM runs** of the server: nothing keeps them apart. The module and the theorems have any
  number of them, `case_ram` and `case_uncovered` one, next to start-up's detectors.
* **Memory and time**: buffers of up to 16 GiB, HTTP time-outs.
* **NTFS layout**: boot sector, attributes, run lists, the mapping of a fragmented `$MFT`, MBR and
  GPT; LZNT1 is the constant operator `Inflate`.
* **Fields of prefetch files, links, recycle bin, Linux logs, WER, AnyDesk**: fixed layouts and lines, a row each,
  without state from one to the next.
* **IOC extraction**: regular expressions over columns; what matters there are strings, which
  TLC does not reach well. In `Rules` likewise: quoting, `LIKE` patterns and their escapes, and that
  DuckDB's `LIKE` tells upper from lower case.
* **Routing** (`RouteAll`): a table from file names to parsers; `Ingest` takes its result as the
  sequence of parsers of a file.
* **Cut images under a compressed or a whole stream**: zeros are answered for what is lost; the
  contract says nothing there, and the hazards say so.
* **Reports, exports, prompts, terminal UI, web page**: views of query results.

## 6. Plan

Built in this order: `Ingest` (the behaviour every other part depends on), `CaseServer`,
`Progress`, the image readers, the walk, the streams, then the parsers with state of their own
(`Registry`, `BrowserDb`, `Journals`, `Ese`, `Memory`, `Documents`, `Prefetch`), the rule engines (`Rules`), and
`Decoders` over them.

The theorems were built in the same order; of the parsers those came first whose properties
are about a step and not about a recursive function. To come:

* `MftWalk`: `StreamsAreTrue` for files whose segments lie in extension records.
* `Ese`: a page is visited once; `Memory`: a list's walk stores an entry once.
* `Decoders!TypeOK`, reader by reader.

What could be modelled next: `DiskAnalyze`'s callback with the Amcache buffers as the caller of `fn` in `MftWalk`; triage
decisions and `ExtractAll` over `iocs` in the server.
