-------------------------------- MODULE Decoders --------------------------------
(***************************************************************************)
(* The readers that turn one artifact into rows, each a component of its    *)
(* own, and the rule engines that read the rows: a case runs them one after *)
(* another on artifacts that have nothing in common, so one behaviour is    *)
(* the reading of one artifact, or of the case by one set of rules.  They   *)
(* share the variables below, and say in their modules what they keep in    *)
(* them.                                                                    *)
(***************************************************************************)
EXTENDS Integers, Sequences, FiniteSets

CONSTANTS Zero, None,
          Files, Inflate(_), ReadSizes, MaxFaults,                        \* StreamReader
          Mfts, RootRef, MaxDepth, Wanted, DollarI, RecycleNames, DefaultUnit,    \* MftWalk
          ClusterSize,                                                    \* either
          EwfFiles, VmdkFiles, EwfRequests, VmdkRequests,                 \* DiskImage
          ChunkSize, CacheSize, GrainSize, NumGTEs, GtCacheMax, GrainMax,
          Hives, Databases, PageSize,
          JournalFiles, BlockCells, MinCells, LogHeader, LogFirst, LogCells, MaxRowFaults,
          EseFiles,
          Dumps, Profiles, Width, Limits,
          DocumentFiles, SectorEntries,                   \* the readers of one format each
          PrefetchFiles, ByteBits, Literals, MatchMark, ChunkLimit, MaxInflated, MinHeader,   \* Prefetch
          RuleSets, Targets                               \* Rules

VARIABLES job,         \* the component that reads
          turn,        \* auxiliary: alternates, so that a step that changes nothing else is one
          made,        \* the artifact, and what it was made from
          stage, pos, mem, aux,
          out,         \* what was read so far
          done,        \* "no", "eof", "err" or "crashed"
          image, ask, ans, seg, total, chunkMap, keys, data, next, scan, index, tables, grains

shared == <<made, stage, pos, mem, aux, out, done>>
imageVars == <<image, ask, ans, seg, total, chunkMap, keys, data, next, scan, index, tables, grains>>
vars == <<job, turn, shared, imageVars>>

Streams == INSTANCE StreamReader WITH cachedUnit <- stage, cachedData <- mem, faults <- aux
Walk == INSTANCE MftWalk WITH mft <- made, recNo <- pos, index <- mem, last <- stage,
                              pendings <- aux, delivered <- out
Images == INSTANCE DiskImage WITH phase <- stage
Registry == INSTANCE Registry
Browser == INSTANCE BrowserDb
Journals == INSTANCE Journals
Ese == INSTANCE Ese
Memory == INSTANCE Memory
Documents == INSTANCE Documents
Prefetch == INSTANCE Prefetch
Rules == INSTANCE Rules

ASSUME DecoderAssumptions ==
  /\ Streams!StreamAssumption /\ Walk!WalkAssumption /\ Images!ImageAssumption
  /\ Registry!HiveAssumption /\ Browser!BrowserAssumption /\ Journals!JournalAssumption
  /\ Memory!DumpAssumption /\ Rules!RuleAssumption

NoImage == /\ image = None /\ ask = None /\ ans = None /\ Images!NoEwf /\ Images!NoVmdk

Init ==
  /\ turn = FALSE
  /\ \/ job = "stream" /\ Streams!Init /\ NoImage
     \/ job = "walk" /\ Walk!Init /\ done = "no" /\ NoImage
     \/ job = "image" /\ Images!Init /\ pos = 0 /\ mem = None /\ aux = None /\ done = "no"
     \/ job = "registry" /\ Registry!Init /\ aux = None /\ NoImage
     \/ job = "browser" /\ Browser!Init /\ aux = None /\ NoImage
     \/ job = "journals" /\ Journals!Init /\ NoImage
     \/ job = "ese" /\ Ese!Init /\ NoImage
     \/ job = "memory" /\ Memory!Init /\ NoImage
     \/ job = "documents" /\ Documents!Init /\ NoImage
     \/ job = "prefetch" /\ Prefetch!Init /\ NoImage
     \/ job = "rules" /\ Rules!Init /\ NoImage

Reads(j) == job = j /\ UNCHANGED <<job, imageVars>>
Next ==
  /\ turn' = ~turn
  /\ \/ Reads("stream") /\ Streams!Next
     \/ Reads("walk") /\ Walk!Next /\ UNCHANGED done
     \/ job = "image" /\ Images!Next /\ UNCHANGED <<job, pos, mem, aux, done>>
     \/ Reads("registry") /\ Registry!Next /\ UNCHANGED aux
     \/ Reads("browser") /\ Browser!Next /\ UNCHANGED aux
     \/ Reads("journals") /\ Journals!Next
     \/ Reads("ese") /\ Ese!Next
     \/ Reads("memory") /\ Memory!Next
     \/ Reads("documents") /\ Documents!Next
     \/ Reads("prefetch") /\ Prefetch!Next
     \/ Reads("rules") /\ Rules!Next

\* Where a reader may stop: at the end or when the process is gone, and an image between two calls.
Working == CASE job = "walk" -> ~Walk!Over [] job = "image" -> ask # None /\ stage # "panicked" [] OTHER -> done = "no"
Stopped == ~Working /\ UNCHANGED vars

Spec == Init /\ [][Next \/ Stopped]_vars

\* A parser is one goroutine that nothing holds up: while it is working it takes its steps.
\* It has one then, or TLC would report a deadlock, and every step changes turn, so this is
\* WF_vars(Next) for every reader but the image's, whose caller may stop calling.
FairSpec == Spec /\ ([]<>~Working \/ []<><<Working>>_vars)
-----------------------------------------------------------------------------
\* Every variable has its type.
TypeOK ==
  /\ done \in {"no", "eof", "err", "crashed"}
  /\ job = "stream" => Streams!TypeOK
  /\ job = "walk" => Walk!TypeOK
  /\ job = "image" => Images!TypeOK
  /\ job = "registry" => Registry!TypeOK
  /\ job = "browser" => Browser!TypeOK
  /\ job = "journals" => Journals!TypeOK
  /\ job = "ese" => Ese!TypeOK
  /\ job = "memory" => Memory!TypeOK
  /\ job = "documents" => Documents!TypeOK
  /\ job = "prefetch" => Prefetch!TypeOK
  /\ job = "rules" => Rules!TypeOK

\* The properties of the components.  DecompressReader.load: the unit in the cache is the
\* one cachedUnit names, also after a load has failed.
CacheIsTheUnit == job = "stream" => Streams!CacheIsTheUnit
\* DataRunReader and DecompressReader hand out the bytes of the file, in order, and end
\* early only where the file is damaged: the stream implements StreamContract.
StreamIsTheFile ==
  /\ job = "stream" => Streams!Contract!Init
  /\ [][job = "stream" => Streams!Contract!Next \/ UNCHANGED <<made, out, done>>]_vars
\* Walk gives a file its own streams, whatever record was read before it and in whatever
\* order the records of an attribute list lie.
StreamsAreTrue == job = "walk" => Walk!StreamsAreTrue
\* Walk gives a file the path that its parents make, deleted and later records included.
PathsAreTrue == job = "walk" => Walk!PathsAreTrue
\* Walk delivers every wanted file of the volume, and each once.
WalkIsComplete == job = "walk" => Walk!WalkIsComplete
\* The caches of the image readers hold the chunk, grain or table of their key.
CachesAreTrue == job = "image" => Images!CachesAreTrue
\* ReadAt of both image readers implements ImageContract: what it copies is the disk's.
AnswersAreTheDisk ==
  /\ job = "image" => Images!Contract!Init
  /\ [][job = "image" => Images!Contract!Next \/ UNCHANGED <<made, ask, ans>>]_vars
\* A call of ReadAt returns, unless a chunk or grain that inflates to less than lies before
\* the offset takes the process down.
EveryCallReturns == ask # None ~> ans # None \/ (job = "image" /\ stage = "panicked")
\* The registry parsers' rows are those of the hive, its log applied, and no others.
RowsAreTheHive == job = "registry" => Registry!RowsAreTheHive
\* The browser parser's rows are those of the pages that were last committed.
RowsAreCommitted == job = "browser" => Browser!RowsAreCommitted
\* A damaged record costs the journals' and logs' parsers what it reaches into, and a page or a
\* chunk at most where it reaches no further.
RecordsSurviveDamage == job = "journals" => Journals!RecordsSurviveDamage
\* The readers of ESE tables give the rows of the table's leaves, each once.
PagesAreTheTable == job = "ese" => Ese!PagesAreTheTable
\* The processes and regions of a dump are the machine's, each listed once.
MemoryIsTheMachine == job = "memory" => Memory!MemoryIsTheMachine
\* A connection is listed once, with a name that stands in a page with its owner's number.
ConnectionsAreOwned == job = "memory" => Memory!ConnectionsAreOwned
\* The rows of a jump list are its links, a stream that DestList names listed once.
DestinationsAreTrue == job = "documents" => Documents!DestinationsAreTrue
\* Attachments and addresses stand beside the message they came with.
MessagesAreTrue == job = "documents" => Documents!MessagesAreTrue
\* A compressed prefetch file is inflated to what it was made from.
FileIsInflated == job = "prefetch" => Prefetch!FileIsInflated
\* A run of the rule engines leaves their hits of this run alone, those the rules speak of.
HitsAreTheRules == job = "rules" => Rules!HitsAreTheRules

\* The places where a reader is known to go round for ever: the wait for the bits of a stream
\* that is cut before them (xpress_huffman.go:99), a chain of a jump list's sectors that leads
\* back (jumplists.go:198), and a message's DIFAT that leads back (msg.go:270).
GoesRound == \/ job = "prefetch" /\ Prefetch!Waits
             \/ job = "documents" /\ (Documents!Circles \/ Documents!DifatTurns)

\* Every reader comes to its end or stays at one of those three places, also on artifacts that
\* are damaged or cut.  The end may be the process's: where a list of lists of keys (regf.go:158),
\* a folder (shellbags.go:121), a page of pages (browser/sqlite.go:376) or a tree of properties
\* (msg.go:447) leads back, the stack overflows, and a header or a directory that is cut off is
\* indexed all the same (jumplists.go:132, msg.go:470).  Of panics, these are the ones that the
\* models have: slices of a record's bytes by lengths that it gives itself are not among them.
ReadsEnd == <>(~Working \/ job = "image") \/ <>[]GoesRound

\* "an io.Reader over the file's primary $DATA stream": also of a stream that begins in the
\* base record and goes on in an extension record, of which the code reads the beginning.
PrimaryStreamsAreWhole == job = "walk" => Walk!PrimaryStreamsAreWhole
\* What the comment on the compiler says: the rule's condition becomes the statement's.
ConditionsAreRead == job = "rules" => Rules!ConditionsAreRead
\* What the comment on the write-ahead log says: only committed frames are applied.
OnlyCommittedFrames == job = "browser" => Browser!OnlyCommittedFrames
=============================================================================
