-------------------------------- MODULE CLog --------------------------------
(***************************************************************************)
(* The CLog object of amxmodx/amxxlog.cpp:227-555 on the game thread, over *)
(* the asynchronous queue seen from outside (LogQueue shows that it is the *)
(* channel used here): where lines go, which mode writes them, when a file *)
(* is created and closed, and what is on disk.  The writer thread runs     *)
(* between the calls.  File operations may fail; the process may crash and *)
(* be started again over the files it left.                                *)
(*                                                                         *)
(* A handler is an operator from the state s it finds to the state it      *)
(* leaves, so that the calls CLog makes to itself nest as in the code; f   *)
(* is the set of the file operations that fail while it runs.              *)
(***************************************************************************)
EXTENDS Naturals, Sequences, FiniteSets

CONSTANTS QCap,        \* lines the ring holds: KTP_ALOGQ_SIZE - 1
          Settings,    \* values an operator gives amxx_logging
          Modes,       \* values an operator gives amxx_log_async
          Faults,      \* which of AllFaults may happen
          MaxCalls,    \* bound on the calls to CLog
          MaxMaps,     \* bound on the map changes
          MaxCrashes   \* bound on the crashes

AllFaults == {"spawn",     \* no ring or no writer thread
              "create",    \* fopen(m_LogFile, "w")
              "append",    \* the first fopen(..., "a+") of a call
              "retry",     \* the second one
              "writer"}    \* fopen or fputs on the writer thread

ASSUME FaultsAssumption == Faults \subseteq AllFaults
ASSUME QCapAssumption == QCap \in Nat \ {0}
ASSUME SettingsAssumption == Settings \subseteq Nat /\ Modes \subseteq BOOLEAN
ASSUME BoundsAssumption == MaxCalls \in Nat /\ MaxMaps \in Nat /\ MaxCrashes \in Nat

VARIABLES
  log,     \* the members of g_log: type, file, found, errMap, async
  local,   \* localinfo: amxx_logging and amxx_log_async
  chan,    \* the queue: pending lines, drops, up (s_ktpALogThreadRunning)
  hand,    \* what the writer took from the ring and has not written: <<>> or <<line>>
  disk,    \* existing file -> its contents
  map,     \* number of map changes
  calls,   \* number of calls, which also numbers the lines
  joining, \* the game thread is in AsyncShutdown
  tally,   \* history: files started, lines issued, drops reported, alerts raised,
           \* lines and uncounted drops destroyed by crashes, and mishaps: whether
           \* the writer failed, a file was not created, and a map change turned
           \* the writer off with lines to write ("bypass")
  crashes

vars == <<log, local, chan, hand, disk, map, calls, joining, tally, crashes>>

\* Files: one daily log, one error log, and the per-map logs L<date><i>.
Daily == [kind |-> "daily", i |-> 0]
Error == [kind |-> "error", i |-> 0]
PerMap(i) == [kind |-> "map", i |-> i]

NoFile == [kind |-> "none", i |-> 0]

\* CLog::CLog
NewLog == [type |-> 0, file |-> NoFile, found |-> FALSE, errMap |-> FALSE,
           async |-> TRUE]

Init ==
  /\ log = NewLog
  /\ local \in [logging : Settings, async : Modes]
  /\ chan = [pending |-> <<>>, drops |-> 0, up |-> FALSE]
  /\ hand = <<>> /\ disk = << >>
  /\ map = 0 /\ calls = 0 /\ crashes = 0 /\ joining = FALSE
  /\ tally = [sessions |-> 0, issued |-> 0, reported |-> 0, alerts |-> 0,
              destroyed |-> 0, mishaps |-> {}]

-----------------------------------------------------------------------------
(* Operators on the state s of a handler *)

State == [log |-> log, local |-> local, chan |-> chan, disk |-> disk,
          tally |-> tally]

\* fputs on a file opened for appending, which creates it.
AppendTo(d, p, l) ==
  [q \in DOMAIN d \cup {p} |->
     IF q # p THEN d[q] ELSE IF p \in DOMAIN d THEN Append(d[p], l) ELSE <<l>>]

Alert(s) == [s EXCEPT !.tally.alerts = @ + 1]

\* KTP_ALogEnqueue: "handled" unless there is no writer, "queued" unless full.
HandledIfSpawned(s, f) == s.log.async /\ "spawn" \notin f
Handled(s, f) == s.log.async /\ (s.chan.up \/ "spawn" \notin f)
Queued(s) == Len(s.chan.pending) < QCap
Enqueue(s, l) ==
  IF Queued(s)
  THEN [s EXCEPT !.chan.up = TRUE, !.chan.pending = Append(@, l)]
  ELSE [s EXCEPT !.chan.up = TRUE, !.chan.drops = @ + 1]

Line(s, path, kind) == [path |-> path, kind |-> kind, n |-> calls, map |-> map,
                        session |-> s.tally.sessions, head |-> FALSE]

\* CLog::CloseFile
CloseFile(s, f) ==
  LET l == Line(s, s.log.file, "closed")
      put == IF Handled(s, f) THEN Enqueue(s, l)
             ELSE IF s.log.file \in DOMAIN s.disk /\ "append" \notin f
                  THEN [s EXCEPT !.disk = AppendTo(@, s.log.file, l)]
                  ELSE s
  IN  IF s.log.file = NoFile THEN s ELSE [put EXCEPT !.log.file = NoFile]

\* The first name that no existing file has, as CreateNewFile probes for it.
FreeName(d) ==
  PerMap(CHOOSE i \in 0 .. Cardinality(DOMAIN d) :
           /\ PerMap(i) \notin DOMAIN d
           /\ \A j \in 0 .. i - 1 : PerMap(j) \in DOMAIN d)

Started(s, f) ==
  LET c == CloseFile(s, f)
  IN  [c EXCEPT !.log.file = FreeName(c.disk), !.tally.sessions = @ + 1]

\* What the comment at amxxlog.cpp:331 warns of: the writer creates the file.
CreateDeferred(s, f) ==
  LET c == Started(s, f)
  IN  IF Handled(c, f) THEN Enqueue(c, Line(c, c.log.file, "header"))
      ELSE [c EXCEPT !.disk = AppendTo(@, c.log.file, Line(c, c.log.file, "header"))]

\* CLog::CreateNewFile: the old file is closed, the new one exists when the
\* call returns, and its header is queued or written.
CreateNewFile(s, f) ==
  LET c == Started(s, f)
      file == c.log.file
      l == Line(c, file, "header")
      made == [c EXCEPT !.disk = [q \in DOMAIN @ \cup {file} |->
                                    IF q = file THEN <<>> ELSE @[q]]]
  IN  IF "create" \in f THEN [Alert(c) EXCEPT !.local.logging = 0,
                                               !.tally.mishaps = @ \cup {"create"}]
      ELSE IF Handled(made, f) THEN Enqueue(made, l)
      ELSE IF made.log.async /\ "append" \in f THEN Alert(made)
      ELSE [made EXCEPT !.disk = AppendTo(@, file, l)]

\* The file CLog::Log writes to.
Target(s) == IF s.log.type = 2 THEN s.log.file ELSE Daily

\* CLog::Log with m_LogType 1 or 2; 0 and 3 write no file.
LogLine(s0, kind, f) ==
  LET s == IF s0.log.type = 2 /\ s0.log.file = NoFile THEN CreateNewFile(s0, f) ELSE s0
      again == CreateNewFile(s, f)
      Direct(t) == [t EXCEPT !.disk = AppendTo(@, Target(t), Line(t, Target(t), kind))]
  IN  IF s.log.type \notin {1, 2} THEN s
      ELSE IF Handled(s, f) THEN Enqueue(s, Line(s, Target(s), kind))
      ELSE IF "append" \notin f THEN Direct(s)
      ELSE IF s.log.type = 2 /\ "retry" \notin f THEN Direct(again)
      ELSE [Alert(IF s.log.type = 2 THEN again ELSE s) EXCEPT !.log.type = 0]

ErrorLine(s) == [Line(s, Error, "error") EXCEPT !.head = ~s.log.errMap]

LogErrorLatchAlways(s, f) ==
  IF s.log.found THEN s
  ELSE IF Handled(s, f) THEN [Enqueue(s, ErrorLine(s)) EXCEPT !.log.errMap = TRUE]
  ELSE IF "append" \notin f
       THEN [s EXCEPT !.disk = AppendTo(@, Error, ErrorLine(s)), !.log.errMap = TRUE]
       ELSE [Alert(s) EXCEPT !.log.found = TRUE]

\* CLog::LogError: the first batch of a map carries the session header, and
\* m_LoggedErrMap remembers that it was queued or written.
LogErrorLine(s, f) ==
  IF s.log.found THEN s
  ELSE IF Handled(s, f)
       THEN [Enqueue(s, ErrorLine(s)) EXCEPT !.log.errMap = @ \/ Queued(s)]
  ELSE IF "append" \notin f
       THEN [s EXCEPT !.disk = AppendTo(@, Error, ErrorLine(s)), !.log.errMap = TRUE]
       ELSE [Alert(s) EXCEPT !.log.found = TRUE]

\* CLog::SetLogType
SetLogType(s) ==
  IF s.local.logging \in 0 .. 3
  THEN [s EXCEPT !.log.type = s.local.logging]
  ELSE [s EXCEPT !.log.type = 1, !.local.logging = 1]

ReportNothing(s) == [s EXCEPT !.chan.drops = 0]
ReportDrops(s) == [s EXCEPT !.chan.drops = 0,
                            !.tally.reported = @ + s.chan.drops]

\* CLog::MapChange
MapChangeTo(s, f) ==
  LET typed == SetLogType(s)
      latched == [ReportDrops(typed) EXCEPT
                    !.log.async = s.local.async, !.log.errMap = FALSE,
                    !.tally.mishaps = @ \cup IF s.local.async \/ hand \o s.chan.pending = <<>>
                                              THEN {} ELSE {"bypass"}]
  IN  IF latched.log.type = 2 THEN CreateNewFile(latched, f)
      ELSE IF latched.log.type = 1 THEN LogLine(latched, "mapchange", f)
      ELSE latched

Leave(s) == /\ log' = s.log /\ local' = s.local /\ chan' = s.chan
            /\ disk' = s.disk /\ tally' = s.tally

-----------------------------------------------------------------------------
(* Actions *)

Ready == ~joining /\ calls < MaxCalls

\* An operator sets localinfo; it counts only at the next map change.
Configure(l, a) ==
  /\ ~joining /\ local # [logging |-> l, async |-> a]
  /\ local' = [logging |-> l, async |-> a]
  /\ UNCHANGED <<log, chan, hand, disk, map, calls, joining, tally, crashes>>

MapChange(f) ==
  /\ Ready /\ map < MaxMaps
  /\ Leave(MapChangeTo(State, f))
  /\ map' = map + 1 /\ calls' = calls + 1
  /\ UNCHANGED <<hand, joining, crashes>>

Issued(s, on) == IF on THEN [s EXCEPT !.tally.issued = @ + 1] ELSE s

Log(f) ==
  /\ Ready
  /\ Leave(LogLine(Issued(State, log.type \in {1, 2}), "line", f))
  /\ calls' = calls + 1
  /\ UNCHANGED <<hand, map, joining, crashes>>

LogError(f) ==
  /\ Ready
  /\ Leave(LogErrorLine(Issued(State, ~log.found), f))
  /\ calls' = calls + 1
  /\ UNCHANGED <<hand, map, joining, crashes>>

\* Meta_Detach and ~CLog: CloseFile, then AsyncShutdown waits for the writer,
\* if there is one, ...
Detach(f) ==
  /\ Ready
  /\ Leave(CloseFile(State, f))
  /\ joining' = TRUE /\ calls' = calls + 1
  /\ UNCHANGED <<hand, map, crashes>>

\* ... which leaves when nothing is left to write.
Joined ==
  /\ joining /\ chan.pending = <<>> /\ hand = <<>>
  /\ chan' = [chan EXCEPT !.up = FALSE]
  /\ joining' = FALSE
  /\ UNCHANGED <<log, local, hand, disk, map, calls, tally, crashes>>

\* The writer takes the oldest line ...
WriterTake ==
  /\ hand = <<>> /\ chan.pending # <<>>
  /\ hand' = <<Head(chan.pending)>>
  /\ chan' = [chan EXCEPT !.pending = Tail(@)]
  /\ UNCHANGED <<log, local, disk, map, calls, joining, tally, crashes>>

\* ... and puts it in its file ...
WriterWrite ==
  /\ hand # <<>>
  /\ disk' = AppendTo(disk, hand[1].path, hand[1])
  /\ hand' = <<>>
  /\ UNCHANGED <<log, local, chan, map, calls, joining, tally, crashes>>

\* ... or counts it as dropped.
WriterFail ==
  /\ hand # <<>> /\ "writer" \in Faults
  /\ chan' = [chan EXCEPT !.drops = @ + 1]
  /\ hand' = <<>>
  /\ tally' = [tally EXCEPT !.mishaps = @ \cup {"writer"}]
  /\ UNCHANGED <<log, local, disk, map, calls, joining, crashes>>

\* The process dies and is started again: only the files and the operator's
\* settings survive.
Crash ==
  /\ crashes < MaxCrashes
  /\ log' = NewLog
  /\ chan' = [pending |-> <<>>, drops |-> 0, up |-> FALSE]
  /\ hand' = <<>> /\ joining' = FALSE
  /\ tally' = [tally EXCEPT !.destroyed = @ + Len(chan.pending) + Len(hand) + chan.drops]
  /\ crashes' = crashes + 1
  /\ UNCHANGED <<local, disk, map, calls>>

Next ==
  \/ \E l \in Settings, a \in Modes : Configure(l, a)
  \/ \E f \in SUBSET (Faults \ {"writer"}) :
       MapChange(f) \/ Log(f) \/ LogError(f) \/ Detach(f)
  \/ Joined \/ WriterTake \/ WriterWrite \/ WriterFail \/ Crash

Spec == Init /\ [][Next]_vars
-----------------------------------------------------------------------------
(* Properties *)

Kinds == {"line", "mapchange", "header", "closed", "error"}
PerMaps == [kind : {"map"}, i : Nat]
Files == {Daily, Error} \cup PerMaps
Entry == [path : Files, kind : Kinds, n : Nat, map : 0 .. MaxMaps,
          session : Nat, head : BOOLEAN]

TypeOK ==
  /\ log \in [type : 0 .. 3, file : PerMaps \cup {NoFile}, found : BOOLEAN,
              errMap : BOOLEAN, async : BOOLEAN]
  /\ local \in [logging : Settings \cup {0, 1}, async : BOOLEAN]
  /\ chan \in [pending : Seq(Entry), drops : Nat, up : BOOLEAN]
  /\ Len(chan.pending) <= QCap
  /\ hand \in Seq(Entry) /\ Len(hand) <= 1
  /\ DOMAIN disk \subseteq Files /\ \A p \in DOMAIN disk : disk[p] \in Seq(Entry)
  /\ tally \in [sessions : Nat, issued : Nat, reported : Nat, alerts : Nat, destroyed : Nat,
                mishaps : SUBSET {"writer", "create", "bypass"}]
  /\ map \in 0 .. MaxMaps /\ calls \in 0 .. MaxCalls /\ joining \in BOOLEAN
  /\ crashes \in 0 .. MaxCrashes

\* The lines on their way, and a file as it will be once the writer has caught up:
\* the lines at Spots(p) of Future(p).
Coming == hand \o chan.pending
OnDisk(p) == IF p \in DOMAIN disk THEN disk[p] ELSE <<>>
Future(p) == OnDisk(p) \o Coming
Spots(p) == {i \in 1 .. Len(Future(p)) : Future(p)[i].path = p}

Touched == DOMAIN disk \cup {Coming[k].path : k \in 1 .. Len(Coming)}

\* Asynchronous lines and the synchronous ones of a failed thread creation share
\* each file in the order in which they were logged; nothing follows the line
\* that closes a per-map file.  (As long as no map change turns amxx_log_async
\* off and writes past the lines still queued, and each file could be created.)
FileOrder ==
  /\ TypeOK
  /\ {"bypass", "create"} \cap tally.mishaps = {} =>
       \A p \in Touched : LET s == Future(p) IN
         \A i, j \in Spots(p) :
           i < j => s[i].n <= s[j].n /\ s[i].kind # "closed" /\ s[j].kind # "header"

\* Two map changes in a row never log into the same per-map file, although the
\* name is found by probing the disk and the lines reach it later.  (As long as
\* each file could be created: CLog goes on logging to the name otherwise.)
OneSessionPerFile ==
  "create" \notin tally.mishaps =>
    \A p \in Touched \ {Daily, Error} : LET s == Future(p) IN
      \A i, j \in Spots(p) : s[i].session = s[j].session

\* The comment at amxxlog.cpp:533, "Latch only on an actual write": full queues,
\* failed openings, map changes and mode switches leave every error under the
\* header of its map.  (As long as the writer can write what it was given.)
ErrorsHaveHeader ==
  LET s == Future(Error) IN
    "writer" \notin tally.mishaps =>
      \A j \in Spots(Error) :
        \E i \in Spots(Error) : i <= j /\ s[i].head /\ s[i].map = s[j].map

\* The calls whose log line or error line is in a file or on its way.
Lines == {Coming[k] : k \in 1 .. Len(Coming)}
         \cup UNION {{disk[p][i] : i \in 1 .. Len(disk[p])} : p \in DOMAIN disk}
Kept == {l.n : l \in {x \in Lines : x.kind \in {"line", "error"}}}

\* No line is lost without a trace: what was logged while logging was on and is
\* neither on disk nor on its way is covered by the drop count, the drops
\* reported at map changes, the alerts raised, or a crash.
NothingLostSilently ==
  tally.issued <= Cardinality(Kept) + chan.drops + tally.reported + tally.alerts + tally.destroyed

=============================================================================
