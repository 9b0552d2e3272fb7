--------------------------------- MODULE Memory ---------------------------------
(***************************************************************************)
(* memparse, the reader of memory dumps: from the header or from the pages   *)
(* it finds the kernel's page tables, then walks the lists of processes and   *)
(* modules and searches the pages for what is on no list.                     *)
(*                                                                           *)
(* A virtual address is the four indices of its page, a physical one the      *)
(* number of its page, and one object fills a page.  Pages are                *)
(*   [kind |-> "table", entries]    entries [present, large, to]              *)
(*   [kind |-> "head", flink]       of a list                                 *)
(*   [kind |-> "eproc", layout, pid, name, flink, cr3, peb, exited, vad, sane]*)
(*   [kind |-> "peb", cmd]                                                    *)
(*   [kind |-> "ldr", name, flink, cut]                                       *)
(*   [kind |-> "vad", left, right, start, prot]                               *)
(*   [kind |-> "code", mz]                                                    *)
(*   [kind |-> "endpoint", tag, socks, ptrs, state, pid, owner]               *)
(*   [kind |-> "sock", sock]                                                  *)
(* A block is of one Windows' layout, and sane when its fields are in the      *)
(* ranges the search asks for.  A reader does not know what it reads: junk of   *)
(* a page is the record of what stands where the fields of something else, or   *)
(* of another layout, would be; base says that a module's address does.         *)
(***************************************************************************)
EXTENDS Integers, Sequences, SequencesExt, FiniteSets, Functions

CONSTANTS Dumps,        \* [file: [paged, cr3, build, head, mods, good, runs, pages], truth]
          Profiles,     \* a sequence of [name, min, max, exit: is the time of exit read]
          Width,        \* entries of a page table
          Limits,       \* [procs, scanned, conns, mods, hits, depth, self, brute, pid]
          MaxRowFaults  \* bound: inserts that fail

\* Runs and pages follow one another; what leads from a block of a process or a region of its
\* memory is an address, and truth knows of every process that a page could be taken for.
DumpAssumption ==
  /\ {Limits.conns, Limits.scanned, Limits.depth, MaxRowFaults} \subseteq Nat
  /\ \A m \in Dumps :
       /\ m.file.runs \in Seq([base : Nat, count : Nat])
       /\ m.file.pages \in Seq(ToSet(m.file.pages))
       /\ \A page \in ToSet(m.file.pages) :
            /\ page.kind = "vad" => {page.left, page.right} \subseteq Seq(Int)
            /\ page.kind = "eproc" => page.vad \in Seq(Int) /\ (page.pid # 0 => <<page.pid, page.name>> \in m.truth.known)
            /\ {page.junk.left, page.junk.right, page.junk.vad} \subseteq Seq(Int)
            /\ page.junk.pid # 0 => <<page.junk.pid, page.junk.name>> \in m.truth.known

VARIABLES made, stage,
          pos,     \* where a list is being followed
          mem,     \* [runs, cr3, profile, seen, procs, scanned, conns, mods, queue]; queue: rows to be stored
          aux,     \* inserts that have failed
          out, done
vars == <<made, stage, pos, mem, aux, out, done>>
file == made.file

UpTo(n, s) == IF Len(s) <= n THEN s ELSE SubSeq(s, 1, n)
Null == <<0, 0, 0, 0>>
IsKernelAddr(va) == va[1] >= Width \div 2
IsUserAddr(va) == va # Null /\ ~IsKernelAddr(va)
SelfMap == Width \div 2

Init == /\ made \in Dumps /\ stage = "open" /\ pos = Null /\ aux = 0 /\ out = <<>> /\ done = "no"
        /\ mem = [runs |-> <<>>, cr3 |-> 0, profile |-> "", seen |-> {}, procs |-> <<>>,
                  scanned |-> <<>>, conns |-> <<>>, mods |-> <<>>, queue |-> <<>>]
-----------------------------------------------------------------------------
(* openDump: a raw image is one run; runs of a dump follow one another in it.  *)
(* A run of no pages has none.                                                *)

Starts[i \in Nat] == IF i <= 1 THEN 1 ELSE Starts[i - 1] + file.runs[i - 1].count
RunsOf == IF file.paged THEN [i \in DOMAIN file.runs |-> [base |-> file.runs[i].base, count |-> file.runs[i].count, start |-> Starts[i]]]
          ELSE <<[base |-> 0, count |-> Len(file.pages), start |-> 1]>>
IsReadable == ~file.paged \/ (file.good /\ file.cr3 # 0 /\ \E i \in DOMAIN file.runs : file.runs[i].count > 0)

OpenFails == /\ stage = "open" /\ done = "no" /\ ~IsReadable
             /\ done' = "err" /\ UNCHANGED <<made, stage, pos, mem, aux, out>>
OpenDump ==
  /\ stage = "open" /\ done = "no" /\ IsReadable
  /\ mem' = [mem EXCEPT !.runs = RunsOf]
  /\ stage' = "cr3" /\ UNCHANGED <<made, pos, aux, out, done>>

\* ReadPhys: the page, unless no run has it or the file ends before it.
Absent == [kind |-> "absent"]
FirstOf(S, otherwise) == IF S = {} THEN otherwise ELSE Min(S)
Phys(p) ==
  LET has == {i \in DOMAIN mem.runs : p >= mem.runs[i].base /\ p < mem.runs[i].base + mem.runs[i].count}
      run == mem.runs[FirstOf(has, 0)]
      at == run.start + (p - run.base)
  IN IF has = {} THEN Absent ELSE IF at \in DOMAIN file.pages THEN file.pages[at] ELSE Absent

\* virtToPhys: four levels, of which the second and the third may be a page already.
NoPage == 0 - 1
NotPresent == [present |-> FALSE, large |-> FALSE, to |-> 0]
Entry[p \in Int, i \in Int] == IF Phys(p).kind = "table" THEN Phys(p).entries[i + 1] ELSE NotPresent
Within(va, level) == CASE level = 2 -> Width * va[3] + va[4] [] level = 3 -> va[4] [] OTHER -> 0
Translate[cr3 \in Int, va \in Seq(Int)] ==
  LET down[level \in 1..4, table \in Int] ==
        LET e == Entry[table, va[level]]
        IN IF ~e.present THEN NoPage
           ELSE IF level = 4 \/ (e.large /\ level # 1) THEN e.to + Within(va, level)
           ELSE down[level + 1, e.to]
  IN down[1, cr3]
View(cr3, va) == IF cr3 = 0 THEN Absent ELSE Phys(Translate[cr3, va])
IsThere(page) == page.kind # "absent"
\* What a page is taken for, whatever it is.
As(kinds, page) == IF page.kind \in kinds THEN page ELSE page.junk
Link(cr3, va) == LET page == View(cr3, va)
                 IN IF IsThere(page) THEN As({"head", "eproc", "ldr"}, page).flink ELSE Null
FirstEntry(head) == LET first == Link(mem.cr3, head)
               IN IF IsKernelAddr(head) /\ IsKernelAddr(first) THEN first ELSE Null

\* findKernelCR3: the header's tables, unless they lead nowhere; of the first pages one that
\* maps itself, then any.
Leads(cr3) == cr3 # 0 /\ IsKernelAddr(Link(cr3, file.head))
MapsItself(p) == Entry[p, SelfMap].present /\ Entry[p, SelfMap].to = p
HeaderCR3 == file.cr3      \* FAULTY: whatever process was running when the dump was made
KernelCR3 ==
  IF ~IsKernelAddr(file.head) \/ Leads(file.cr3) THEN file.cr3
  ELSE FirstOf({p \in 1..Limits.self : MapsItself(p) /\ Leads(p)},
               FirstOf({p \in 1..Limits.brute : Leads(p)}, file.cr3))

FindCR3 == /\ stage = "cr3" /\ done = "no"
           /\ mem' = [mem EXCEPT !.cr3 = KernelCR3]
           /\ stage' = "profile" /\ UNCHANGED <<made, pos, aux, out, done>>
-----------------------------------------------------------------------------
(* The profile of the build, the first of all if it has none; a dump's own     *)
(* header is not trusted when the first process does not look like System.     *)

ByBuild == LET fit == SelectSeq(Profiles, LAMBDA p : file.build >= p.min /\ file.build <= p.max)
           IN (fit \o Profiles)[1].name
\* readEPROC refuses nothing but numbers out of range, and no number without a name.
Block(page, profile) == IF page.kind = "eproc" /\ page.layout = profile THEN page ELSE page.junk
EProc(page, profile) ==
  IsThere(page) /\ LET b == Block(page, profile) IN b.pid <= Limits.pid /\ (b.pid # 0 \/ b.name # "")
Validates(profile) ==
  LET first == Link(mem.cr3, file.head)
      page == View(mem.cr3, first)
      block == Block(page, profile)
  IN IsKernelAddr(first) /\ EProc(page, profile) /\ block.pid = 4 /\ block.name = "System"
Chosen ==
  LET others == SelectSeq(Profiles, LAMBDA p : p.name # ByBuild /\ Validates(p.name))
  IN IF ~file.paged \/ file.head = Null \/ Validates(ByBuild) \/ others = <<>> THEN ByBuild ELSE others[1].name

ChooseProfile ==
  /\ stage = "profile" /\ done = "no"
  /\ mem' = [mem EXCEPT !.profile = Chosen, !.seen = {file.head}]
  /\ pos' = FirstEntry(file.head)
  /\ stage' = "walk" /\ UNCHANGED <<made, aux, out, done>>
-----------------------------------------------------------------------------
(* walkProcesses and walkModules, an entry at a time.                          *)

At(s) == stage = s /\ done = "no"
\* Of two of the three profiles the offset of the time of exit is 0, and it is not read.
ReadsExit == \E p \in ToSet(Profiles) : p.name = mem.profile /\ p.exit
Process(at, page) ==
  LET b == Block(page, mem.profile)
  IN [at |-> at, pid |-> b.pid, name |-> b.name, cr3 |-> b.cr3, peb |-> b.peb,
      exited |-> b.exited /\ ReadsExit, stale |-> FALSE]
Ahead == pos \notin mem.seen /\ IF stage = "walk" THEN IsKernelAddr(pos) ELSE pos # Null
After(va, full) == IF full THEN Null ELSE Link(mem.cr3, va)
WalkProcess ==
  /\ At("walk") /\ Ahead
  /\ LET page == View(mem.cr3, pos)
         procs == IF EProc(page, mem.profile) THEN Append(mem.procs, Process(pos, page)) ELSE mem.procs
     IN /\ mem' = [mem EXCEPT !.seen = @ \cup {pos}, !.procs = procs]
        /\ pos' = After(pos, Len(procs) >= Limits.procs)
  /\ UNCHANGED <<made, stage, aux, out, done>>

\* An entry that has an address or a name is a module.
ModuleRow(name) == [table |-> "modules", name |-> name, at |-> pos]
ModuleOf(page) == CASE ~IsThere(page) -> <<>>
                    [] page.kind = "ldr" -> IF page.cut THEN <<>> ELSE <<ModuleRow(page.name)>>
                    [] OTHER -> IF page.junk.base THEN <<ModuleRow("")>> ELSE <<>>
WalkModule ==
  /\ At("modules") /\ mem.queue = <<>> /\ Ahead
  /\ LET mods == mem.mods \o ModuleOf(View(mem.cr3, pos))
     IN /\ mem' = [mem EXCEPT !.seen = @ \cup {pos}, !.mods = mods]
        /\ pos' = After(pos, Len(mods) >= Limits.mods)
  /\ UNCHANGED <<made, stage, aux, out, done>>

\* scanProcesses: blocks by their tag, in the order of memory.  A block is at its physical
\* address, which is later taken for a virtual one.
AsVirtual(p) == <<p \div (Width * Width * Width), (p \div (Width * Width)) % Width, (p \div Width) % Width, p % Width>>
BlockAt(p) == IF EProc(Phys(p), mem.profile) /\ Block(Phys(p), mem.profile).sane THEN <<Process(AsVirtual(p), Phys(p))>> ELSE <<>>
Blocks ==
  UpTo(Limits.scanned, FlattenSeq([i \in DOMAIN mem.runs |-> FlattenSeq([j \in 1..mem.runs[i].count |->
    BlockAt(mem.runs[i].base + j - 1)])]))

CommandLine(p) ==
  LET page == IF IsUserAddr(p.peb) THEN View(p.cr3, p.peb) ELSE Absent
  IN IF page.kind # "peb" THEN <<>> ELSE <<[table |-> "cmdline", pid |-> p.pid, cmd |-> page.cmd]>>
ListRow(p) == [table |-> "pslist", pid |-> p.pid, name |-> p.name, at |-> p.at]
EndWalk ==
  /\ At("walk") /\ ~Ahead
  /\ LET procs == IF mem.procs = <<>> THEN Blocks ELSE mem.procs
     IN mem' = [mem EXCEPT !.procs = procs,
                           !.queue = FlattenSeq([i \in DOMAIN procs |-> <<ListRow(procs[i])>> \o CommandLine(procs[i])])]
  /\ stage' = "psscan" /\ UNCHANGED <<made, pos, aux, out, done>>

\* Rows are stored one by one; one that cannot be is left out.
StoreRow ==
  /\ done = "no" /\ mem.queue # <<>>
  /\ mem' = [mem EXCEPT !.queue = Tail(@)]
  /\ \/ out' = Append(out, Head(mem.queue)) /\ UNCHANGED aux
     \/ aux < MaxRowFaults /\ aux' = aux + 1 /\ UNCHANGED out
  /\ UNCHANGED <<made, stage, pos, done>>
-----------------------------------------------------------------------------
(* psscan: a block of a process that is not listed and has not, as far as the   *)
(* profile reads, ended is stale when its page tables do not have the kernel     *)
(* where it is.                                                                 *)

Listed == {mem.procs[i].pid : i \in DOMAIN mem.procs}
KernelVA == IF file.mods # Null THEN file.mods ELSE file.head
Kept == IF KernelVA = Null THEN NoPage ELSE Translate[mem.cr3, KernelVA]
IsStale(p) ==
  /\ p.pid \notin Listed /\ ~p.exited
  /\ IF Kept # NoPage /\ p.cr3 # 0 THEN Translate[p.cr3, KernelVA] # Kept ELSE p.cr3 = 0
ScanRow(p) == [table |-> "psscan", pid |-> p.pid, name |-> p.name, stale |-> p.stale, exited |-> p.exited, at |-> p.at]

ScanPool ==
  /\ At("psscan") /\ mem.queue = <<>>
  /\ LET judged == [i \in DOMAIN Blocks |-> [Blocks[i] EXCEPT !.stale = IsStale(Blocks[i])]]
     IN mem' = [mem EXCEPT !.scanned = judged, !.queue = [i \in DOMAIN judged |-> ScanRow(judged[i])]]
  /\ stage' = "net" /\ UNCHANGED <<made, pos, aux, out, done>>
-----------------------------------------------------------------------------
(* scanNetwork: in the block of an endpoint the first address that could be    *)
(* local and the first after it that could be remote.  A sock is [class, ip],   *)
(* its class what the address looks like.                                      *)

OnHost == {"any", "private"}
Local4 == OnHost \cup {"public"}
Remote4 == {"private", "public"}
Local6 == {"any6", "local6"}
Remote6 == {"local6", "global6"}
Picked(socks, local, remote) ==
  LET from == SelectInSeq(socks, LAMBDA s : s.class \in local)
      behind == SelectSeq(SubSeq(socks, from + 1, Len(socks)), LAMBDA s : s.class \in remote)
  IN IF from = 0 THEN <<>> ELSE <<socks[from]>> \o UpTo(1, behind)

\* Addresses that the block of a TCP endpoint only points to.
PointedTo(page) ==
  LET views == [i \in DOMAIN page.ptrs |-> View(mem.cr3, page.ptrs[i])]
      socks == SelectSeq(views, LAMBDA v : v.kind = "sock")
  IN IF page.tag = "UDP" THEN <<>> ELSE [i \in DOMAIN socks |-> socks[i].sock]
Entries(page) ==
  LET tries == <<Picked(page.socks, OnHost, Remote4), Picked(page.socks, Local4, Remote4),
                 Picked(page.socks, Local6, Remote6),
                 Picked(PointedTo(page), Local4 \cup Local6, Remote4 \cup Remote6)>>
  IN (SelectSeq(tries, LAMBDA t : t # <<>>) \o <<<<>>>>)[1]

\* A public address alone is the other side's.
LocalOf(e) == IF Len(e) = 1 /\ e[1].class = "public" THEN "" ELSE e[1].ip
RemoteOf(e) == IF Len(e) = 2 THEN e[2].ip ELSE IF e[1].class = "public" THEN e[1].ip ELSE ""
StateOf(page) == CASE page.tag = "TCPL" -> "LISTEN" [] page.tag = "UDP" -> "" [] OTHER -> page.state
PoolOwner(page) == LET owner == View(mem.cr3, page.owner)
                       block == Block(owner, mem.profile)
                   IN IF IsThere(owner) /\ page.pid \in {0, block.pid} THEN block.name ELSE ""
Conn(page, e) ==
  [table |-> "netscan", proto |-> IF page.tag = "UDP" THEN "UDP" ELSE "TCP", local |-> LocalOf(e),
   remote |-> RemoteOf(e), state |-> StateOf(page), pid |-> page.pid, name |-> PoolOwner(page)]
IsNoise(page, c) == \/ page.tag = "UDP" /\ c.pid = 0 /\ c.remote # ""
                    \/ page.tag = "TCPL" /\ c.local = ""

ConnOf(page) ==
  IF page.kind # "endpoint" THEN <<>>
  ELSE LET e == Entries(page)
           c == Conn(page, e)
       IN IF e = <<>> \/ IsNoise(page, c) THEN <<>> ELSE <<c>>
Endpoints ==
  UpTo(Limits.conns, FlattenSeq([i \in DOMAIN mem.runs |-> FlattenSeq([j \in 1..mem.runs[i].count |->
    ConnOf(Phys(mem.runs[i].base + j - 1))])]))

\* Of one connection's blocks the one that says most, the first of several; a table that
\* reaches the limit is taken as it is.
Key(c) == <<c.proto, c.local, c.remote>>
StatePri(s) == CASE s = "ESTABLISHED" -> 7 [] s = "LISTEN" -> 6 [] s = "SYN-SENT" -> 5 [] s = "FIN-WAIT-1" -> 4
                 [] s = "TIME-WAIT" -> 3 [] s = "CLOSED" -> 2 [] s = "DELETE-TCB" -> 1 [] OTHER -> 0
Score(c) == StatePri(c.state) + (IF c.pid # 0 THEN 4 ELSE 0) + (IF c.name # "" THEN 2 ELSE 0)
Worse(c, d) == Score(c) < Score(d)
AnyBlock(conns, i) == TRUE      \* FAULTY: a connection for every block
IsBest(conns, i) ==
  \A j \in DOMAIN conns : Key(conns[j]) = Key(conns[i]) /\ j # i =>
     Worse(conns[j], conns[i]) \/ (Score(conns[j]) = Score(conns[i]) /\ i < j)
IsReal(c) == ~(c.remote # "" /\ (c.local = c.remote \/ c.state = "LISTEN"))
Distinct(conns) ==
  FlattenSeq([i \in DOMAIN conns |-> IF IsBest(conns, i) /\ IsReal(conns[i]) THEN <<conns[i]>> ELSE <<>>])

NameOfPid(pid) ==
  LET listed == {i \in DOMAIN mem.procs : mem.procs[i].pid = pid}
      found == {i \in DOMAIN mem.scanned : mem.scanned[i].pid = pid}
  IN IF listed # {} THEN mem.procs[Max(listed)].name
     ELSE IF found # {} THEN mem.scanned[Min(found)].name ELSE "?"
Owned(c) == IF c.name = "" /\ c.pid # 0 THEN [c EXCEPT !.name = NameOfPid(c.pid)] ELSE c

ScanNetwork ==
  /\ At("net") /\ mem.queue = <<>>
  /\ mem' = [mem EXCEPT !.conns = Endpoints]
  /\ stage' = "conns" /\ UNCHANGED <<made, pos, aux, out, done>>
DedupConns ==
  /\ At("conns")
  /\ LET kept == IF Len(mem.conns) >= Limits.conns THEN mem.conns ELSE Distinct(mem.conns)
     IN mem' = [mem EXCEPT !.queue = [i \in DOMAIN kept |-> Owned(kept[i])], !.seen = {file.mods}]
  /\ pos' = FirstEntry(file.mods)
  /\ stage' = "modules" /\ UNCHANGED <<made, aux, out, done>>

EndModules ==
  /\ At("modules") /\ mem.queue = <<>> /\ ~Ahead
  /\ mem' = [mem EXCEPT !.queue = mem.mods]
  /\ stage' = "malfind" /\ UNCHANGED <<made, pos, aux, out, done>>
-----------------------------------------------------------------------------
(* scanMalfind: the regions of each process that can be written and executed,  *)
(* or begin like a program; the tree is followed to a depth and no further.     *)

Region(p, vad) ==
  LET code == View(p.cr3, vad.start)
      mz == code.kind = "code" /\ code.mz
      isHit == IsUserAddr(vad.start) /\ (vad.prot = "rwx" \/ (vad.prot = "rx" /\ mz))
  IN IF isHit THEN <<[table |-> "malfind", pid |-> p.pid, start |-> vad.start]>> ELSE <<>>
Hits(p) ==
  LET under[n \in 0..(Limits.depth + 1)] ==
        [va \in Seq(Int) |->
          LET page == View(mem.cr3, va)
              vad == As({"vad"}, page)
          IN IF n = 0 \/ ~IsKernelAddr(va) \/ ~IsThere(page) THEN <<>>
             ELSE Region(p, vad) \o under[n - 1][vad.left] \o under[n - 1][vad.right]]
      page == View(mem.cr3, p.at)
  IN IF p.at # Null /\ IsThere(page) THEN under[Limits.depth + 1][Block(page, mem.profile).vad] ELSE <<>>
Unlisted == FlattenSeq([i \in DOMAIN mem.scanned |->
              IF mem.scanned[i].pid \in Listed THEN <<>> ELSE <<mem.scanned[i]>>])
AllHits ==
  LET procs == mem.procs \o Unlisted
      upTo[i \in 0..Len(procs)] ==
        IF i = 0 THEN <<>>
        ELSE IF Len(upTo[i - 1]) >= Limits.hits THEN upTo[i - 1] ELSE upTo[i - 1] \o Hits(procs[i])
  IN upTo[Len(procs)]

ScanMalfind ==
  /\ At("malfind") /\ mem.queue = <<>>
  /\ mem' = [mem EXCEPT !.queue = AllHits]
  /\ stage' = "sysinfo" /\ UNCHANGED <<made, pos, aux, out, done>>

InsertSysInfo ==
  /\ At("sysinfo") /\ mem.queue = <<>>
  /\ out' = Append(out, [table |-> "sysinfo", profile |-> mem.profile]) /\ done' = "eof"
  /\ UNCHANGED <<made, stage, pos, mem, aux>>

Next == \/ OpenFails \/ OpenDump \/ FindCR3 \/ ChooseProfile \/ WalkProcess \/ EndWalk \/ StoreRow \/ ScanPool
        \/ ScanNetwork \/ DedupConns \/ WalkModule \/ EndModules \/ ScanMalfind \/ InsertSysInfo
-----------------------------------------------------------------------------
\* Every variable has its type.
TypeOK == /\ made \in Dumps
          /\ stage \in {"open", "cr3", "profile", "sysinfo", "walk", "modules", "psscan", "malfind", "net", "conns"}
          /\ pos \in Seq(0..(Width - 1)) /\ Len(pos) = 4 /\ mem.cr3 \in Nat
          /\ aux \in 0..MaxRowFaults /\ done \in {"no", "eof", "err"}

\* truth: the machine's own processes and modules; sound when its memory is all there.  known is
\* every number and name that stand together in a page; ended are the processes that are no more
\* and whose page tables still have the kernel.
Of(table) == SelectSeq(out, LAMBDA r : r.table = table)
Truth == made.truth
Plain(rows) == [i \in DOMAIN rows |-> <<rows[i].pid, rows[i].name>>]
Running(rows) == SelectSeq(rows, LAMBDA r : ~r.stale /\ ~r.exited /\ r.pid \notin Listed)

\* Whatever tables were current and wherever the lists lead, nothing is listed twice, and a
\* process's number is never given with another's name.  Of a dump that is whole and sound, all
\* of the machine's processes are listed and no others, its modules are its own, and those on no
\* list are told from the ones that are no more - where the profile reads the time of exit; where
\* it does not (profile.go:60, 132) one that has ended and whose page tables still have the
\* kernel passes for hidden.  The regions are those of the listed processes: of the ones "found
\* only by pool scan", which memparse.go:213 would have searched too, none is found.
MemoryIsTheMachine ==
  done = "eof" =>
    /\ IsInjective(Of("pslist")) /\ IsInjective(Of("psscan")) /\ IsInjective(Of("modules"))
    /\ \A p \in ToSet(Plain(Of("pslist") \o Of("psscan"))) : p[1] # 0 => p \in Truth.known
    /\ Truth.sound /\ aux = 0 =>
         /\ ToSet(Plain(Of("pslist"))) = Truth.listed
         /\ ToSet(Plain(Running(Of("psscan")))) = Truth.hidden \cup (IF ReadsExit THEN {} ELSE Truth.ended)
         /\ [i \in DOMAIN Of("modules") |-> Of("modules")[i].name] = Truth.modules
         /\ IsInjective(Of("malfind")) /\ {r \in Truth.regions : r.pid \in Listed} = ToSet(Of("malfind"))

\* A connection has one row, unless there are as many blocks as are looked at, and no program's
\* name but one that stands in a page together with its number.
ConnectionsAreOwned ==
  LET conns == {i \in DOMAIN out : out[i].table = "netscan"}
  IN done = "eof" =>
       /\ Len(mem.conns) < Limits.conns => \A i, j \in conns : Key(out[i]) = Key(out[j]) => i = j
       /\ \A i \in conns : out[i].pid # 0 /\ out[i].name # "?" => <<out[i].pid, out[i].name>> \in Truth.known
=============================================================================
