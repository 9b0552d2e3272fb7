-------------------------------- MODULE Progress --------------------------------
(***************************************************************************)
(* The live progress display (internal/display) on a terminal: Run's       *)
(* goroutine records events and stops the display, the animation goroutine *)
(* redraws it on every tick, and a signal goroutine ends the process.  The *)
(* lock guards the fields; a frame is built from shared rows and written   *)
(* outside it.                                                             *)
(***************************************************************************)
EXTENDS Naturals, Sequences, FiniteSets

CONSTANTS Names,       \* parser names
          GroupOf(_),  \* classifyGroup
          Above,       \* lines already on the terminal when the display starts
          MaxUpdates,  \* bound: progress events
          MaxTicks     \* bound: ticks of the animation

\* A line is marked by what it shows: a parser's name, or one of three marks that no parser has.
ASSUME ProgressAssumption ==
  /\ MaxUpdates \in Nat /\ MaxTicks \in Nat /\ Above \in Seq(STRING \X STRING)
  /\ {"group", "bar", "blank"} \cap Names = {}

VARIABLES rows,     \* pd.rows: [name, status], in order of registration
          lines,    \* pd.lines
          stopped,  \* stopCh is closed
          frame,    \* renderer |-> its local snapshot and the lines built so far
          pc,       \* goroutine |-> where it is
          screen,   \* lines of the terminal
          cursor,   \* the line the cursor is on: 0 is the topmost
          visible,  \* the cursor is shown
          updates, ticks,
          late      \* the animation drew a frame that it had not finished when Stop was called

vars == <<rows, lines, stopped, frame, pc, screen, cursor, visible, updates, ticks, late>>
term == <<screen, cursor, visible>>

Main == "main"
Loop == "loop"
Signal == "signal"

Status == {"running", "ok", "err"}
NoFrame == [n |-> 0, up |-> 0, i |-> 0, buf |-> <<>>]

Init ==
  /\ rows = <<>> /\ lines = 0 /\ stopped = FALSE
  /\ frame = [x \in {Main, Loop} |-> NoFrame]
  /\ pc = [x \in {Main, Loop, Signal} |->
             IF x = Main THEN "start" ELSE IF x = Signal THEN "notify" ELSE "none"]
  /\ screen = Above /\ cursor = Len(Above) /\ visible = TRUE
  /\ updates = 0 /\ ticks = 0 /\ late = FALSE

Running == pc[Signal] # "exited"        \* os.Exit ends every goroutine
At(x, l) == Running /\ pc[x] = l
Goto(x, l) == pc' = [pc EXCEPT ![x] = l]

-----------------------------------------------------------------------------
(* The terminal. *)

\* Fprint of a frame: up `up` lines, then each line erased and rewritten.
Write(up, ls) ==
  LET top == IF cursor < up THEN 0 ELSE cursor - up
      end == top + Len(ls)
  IN /\ screen' = [k \in 1..(IF end > Len(screen) THEN end ELSE Len(screen)) |->
                     IF k > top /\ k <= end THEN ls[k - top] ELSE screen[k]]
     /\ cursor' = end

NewLine ==
  /\ cursor' = cursor + 1
  /\ screen' = IF cursor < Len(screen) THEN screen ELSE Append(screen, <<"blank", "">>)

-----------------------------------------------------------------------------
(* render: snapshot under the lock, rows read without it, lines published, written. *)

Snapshot(x) ==
  /\ At(x, "snapshot") /\ Goto(x, "build")
  /\ frame' = [frame EXCEPT ![x] = [n |-> Len(rows), up |-> lines, i |-> 0, buf |-> <<>>]]
  /\ UNCHANGED <<rows, lines, stopped, term, updates, ticks, late>>

\* A row under another group than the row before it gets that group's line first.
Opens(rs, i) == i = 1 \/ GroupOf(rs[i-1].name) # GroupOf(rs[i].name)

RowLines(f, i) ==
  LET r == rows[i]
  IN (IF Opens(rows, i) THEN <<<<"group", GroupOf(r.name)>>>> ELSE <<>>) \o <<<<r.name, r.status>>>>

\* One row's lines; its status is read as it is at this moment.
BuildRow(x) ==
  /\ At(x, "build") /\ frame[x].i < frame[x].n /\ UNCHANGED pc
  /\ frame' = [frame EXCEPT ![x].i = @ + 1,
                            ![x].buf = @ \o RowLines(frame[x], frame[x].i + 1)]
  /\ UNCHANGED <<rows, lines, stopped, term, updates, ticks, late>>

BuildBar(x) ==
  /\ At(x, "build") /\ frame[x].i = frame[x].n /\ Goto(x, "publish")
  /\ frame' = [frame EXCEPT ![x].buf = Append(@, <<"bar", "parsers">>)]
  /\ UNCHANGED <<rows, lines, stopped, term, updates, ticks, late>>

PublishRowsOnly(x) ==      \* FAULTY: counts the rows, not the group headers
  /\ At(x, "publish") /\ Goto(x, "write") /\ lines' = frame[x].n + 1
  /\ UNCHANGED <<rows, stopped, frame, term, updates, ticks, late>>

Publish(x) ==
  /\ At(x, "publish") /\ Goto(x, "write") /\ lines' = Len(frame[x].buf)
  /\ UNCHANGED <<rows, stopped, frame, term, updates, ticks, late>>

WriteFrame(x) ==
  /\ At(x, "write") /\ Goto(x, IF x = Loop THEN "select" ELSE "show")
  /\ Write(frame[x].up, frame[x].buf) /\ frame' = [frame EXCEPT ![x] = NoFrame]
  /\ UNCHANGED <<rows, lines, stopped, visible, updates, ticks, late>>

Render(x) == Snapshot(x) \/ BuildRow(x) \/ BuildBar(x) \/ Publish(x) \/ WriteFrame(x)

-----------------------------------------------------------------------------
(* Run's goroutine: Start, Update for every event, Stop, then the deferred cleanup. *)

Hide ==        \* Start hides the cursor and starts the animation
  /\ At(Main, "start") /\ visible' = FALSE
  /\ pc' = [pc EXCEPT ![Main] = "update", ![Loop] = "select"]
  /\ UNCHANGED <<rows, lines, stopped, frame, screen, cursor, updates, ticks, late>>

Row(name) == {i \in DOMAIN rows : rows[i].name = name}

\* The status an event leaves: an error wins, then done; later events overwrite it.
After(status, done, err) == IF err THEN "err" ELSE IF done THEN "ok" ELSE status

UpdateUnindexed(name, done, err) ==      \* FAULTY: registers the parser every time
  /\ At(Main, "update") /\ updates < MaxUpdates /\ UNCHANGED pc
  /\ updates' = updates + 1
  /\ rows' = Append(rows, [name |-> name, status |-> After("running", done, err)])
  /\ UNCHANGED <<lines, stopped, frame, term, ticks, late>>

Update(name, done, err) ==
  /\ At(Main, "update") /\ updates < MaxUpdates /\ UNCHANGED pc
  /\ updates' = updates + 1
  /\ rows' = IF Row(name) = {}
             THEN Append(rows, [name |-> name, status |-> After("running", done, err)])
             ELSE [i \in DOMAIN rows |->
                     IF i \in Row(name) THEN [rows[i] EXCEPT !.status = After(@, done, err)]
                     ELSE rows[i]]
  /\ UNCHANGED <<lines, stopped, frame, term, ticks, late>>

StopUndrawn ==      \* FAULTY: no final frame
  /\ At(Main, "update") /\ Goto(Main, "show") /\ stopped' = TRUE
  /\ late' = (pc[Loop] # "select")
  /\ UNCHANGED <<rows, lines, frame, term, updates, ticks>>

Stop ==        \* close(stopCh), then the final render
  /\ At(Main, "update") /\ Goto(Main, "snapshot") /\ stopped' = TRUE
  /\ late' = (pc[Loop] # "select")
  /\ UNCHANGED <<rows, lines, frame, term, updates, ticks>>

Show ==        \* ShowCursor and a newline, and cleanup's ShowCursor
  /\ At(Main, "show") /\ Goto(Main, "returned") /\ visible' = TRUE
  /\ NewLine
  /\ UNCHANGED <<rows, lines, stopped, frame, updates, ticks, late>>

(* The animation: a tick and a closed stopCh may both be ready. *)

Tick ==
  /\ At(Loop, "select") /\ ticks < MaxTicks /\ Goto(Loop, "snapshot")
  /\ ticks' = ticks + 1 /\ late' = (late \/ stopped)
  /\ UNCHANGED <<rows, lines, stopped, frame, term, updates>>

LoopEnd ==
  /\ At(Loop, "select") /\ stopped /\ Goto(Loop, "ended")
  /\ UNCHANGED <<rows, lines, stopped, frame, term, updates, ticks, late>>

(* The signal goroutine. *)

SignalShow ==
  /\ At(Signal, "notify") /\ pc[Main] # "returned" /\ Goto(Signal, "shown")
  /\ visible' = TRUE /\ NewLine
  /\ UNCHANGED <<rows, lines, stopped, frame, updates, ticks, late>>

Exit ==
  /\ At(Signal, "shown") /\ Goto(Signal, "exited")
  /\ UNCHANGED <<rows, lines, stopped, frame, term, updates, ticks, late>>

MainStep == Hide \/ Stop \/ Show \/ Render(Main)
            \/ \E name \in Names, done, err \in BOOLEAN : Update(name, done, err)
LoopStep == Tick \/ LoopEnd \/ Render(Loop)
SignalStep == SignalShow \/ Exit

Next == MainStep \/ LoopStep \/ SignalStep
Quietly == MainStep \/ LoopStep           \* runs in which no signal arrives

Spec == Init /\ [][Next]_vars
CalmSpec == Init /\ [][Quietly]_vars

-----------------------------------------------------------------------------
(* Properties. *)

TypeOK ==
  /\ rows \in Seq([name : Names, status : Status]) /\ lines \in Nat
  /\ cursor \in 0..Len(screen) /\ visible \in BOOLEAN /\ stopped \in BOOLEAN
  /\ \A x \in {Main, Loop} : frame[x].i \in 0..frame[x].n /\ frame[x].n <= Len(rows)
  /\ \A i, j \in DOMAIN rows : rows[i].name = rows[j].name => i = j

Drawing(x) == pc[x] \in {"snapshot", "build", "publish", "write"}

\* The frame of the rows as they are: the line of a row, under its group's when it opens
\* one, and the bar.
LineOf(rs, i) == i + Cardinality({j \in 1..i : Opens(rs, j)})
FrameOf(rs) ==
  LET end == LineOf(rs, Len(rs)) + 1
      RowsOn(l) == {i \in DOMAIN rs : l = LineOf(rs, i)}
      r(l) == rs[CHOOSE i \in RowsOn(l) : TRUE]
  IN [k \in 1..end |-> IF k = end THEN <<"bar", "parsers">>
                       ELSE IF RowsOn(k) # {} THEN <<r(k).name, r(k).status>>
                       ELSE <<"group", GroupOf(r(k + 1).name)>>]

\* Unless the animation is drawing when Stop comes, every frame replaces the one before
\* it: a parser has one line, there is one bar, and what was on the terminal above the
\* display is untouched (Publish's count is the height of the frame it goes with).
OneFrame ==
  ~late =>
    /\ SubSeq(screen, 1, Len(Above)) = Above
    /\ \A j, k \in (Len(Above) + 1)..Len(screen) :
         screen[j][1] = screen[k][1] /\ screen[j][1] \in Names \cup {"bar"} => j = k

Final == Above \o FrameOf(rows) \o <<<<"blank", "">>>>
Over == pc[Main] = "returned" /\ pc[Loop] = "ended"

\* When Run has returned and the animation drew nothing late, the terminal shows the last
\* status of every parser and nothing else, and the cursor.
FinalFrame == Over /\ ~late => screen = Final /\ visible
=============================================================================
