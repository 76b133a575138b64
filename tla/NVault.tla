------------------------------- MODULE NVault -------------------------------
(***************************************************************************)
(* A vault of the nvault module (modules/nvault): a map from keys to       *)
(* values with time stamps, kept in memory, saved to its file when it is   *)
(* closed, and journaled in between so that a crash of the server loses    *)
(* no more than the last operations.  Files are modelled by what reading   *)
(* them yields: the vault file by its complete entries, the journal by its *)
(* complete records.  A write to either may fail, and nobody looks.        *)
(***************************************************************************)
EXTENDS Integers, Sequences, FiniteSets, Functions

CONSTANTS Keys, Values,
          Misread,     \* records that bytes out of their frame may read as
          MaxTime,     \* bound on the clock, in seconds
          MaxRecords,  \* bound on the records of a journal, or on past without one
          MaxFaults    \* bound on the crashes and failed writes to a journal together

ASSUME VaultAssumption ==
  MaxTime \in Nat \ {0} /\ MaxRecords \in Nat /\ MaxFaults \in Nat

NoText == ""

Records == [op : {"insert"}, key : Keys, value : Values \cup {NoText}, stamp : 0 .. MaxTime]
           \cup [op : {"remove"}, key : Keys]
           \cup [op : {"clear"}]
           \cup [op : {"prune"}, start : 0 .. MaxTime, end : 0 .. MaxTime]

ASSUME MisreadAssumption == Misread \subseteq Records

VARIABLES
  phase,      \* "closed", "open", and in Close: "saving", "saved"
  mem,        \* m_Hash
  journaling, \* m_Journal is not NULL
  file,       \* the .vault file
  jrnl,       \* the .journal file, including what stdio still buffers
  torn,       \* a write to it failed: what follows need not read as it was written
  now,        \* time(NULL)
  restored,   \* history: mem holds records of an earlier journal
  mishaps,    \* history: what first went wrong since the vault was opened or saved
  past,       \* history: what mem has been in that time, while nothing did
  faults

vaultVars == <<phase, mem, journaling, file, jrnl, torn, now, restored, past, mishaps,
               faults>>

Empty == << >>

Entry == [value : Values \cup {NoText}, stamp : 0 .. MaxTime]

VaultInit ==
  /\ phase = "closed" /\ mem = Empty /\ journaling = FALSE
  /\ file = Empty /\ jrnl = <<>> /\ torn = FALSE /\ now = 1
  /\ restored = FALSE /\ past = {Empty} /\ mishaps = {} /\ faults = 0

-----------------------------------------------------------------------------
(* The map and the journal *)

Put(m, k, v, stamp) ==
  [x \in DOMAIN m \cup {k} |-> IF x = k THEN [value |-> v, stamp |-> stamp] ELSE m[x]]
Without(m, S) == Restrict(m, DOMAIN m \ S)

\* Entries set with nvault_pset have the stamp 0 and are not pruned; 0 is also
\* the open end of a range.
Prunable(stamp, start, end) ==
  /\ stamp # 0
  /\ start = 0 \/ stamp > start
  /\ end = 0 \/ stamp < end

Pruned(m, start, end) == Without(m, {k \in DOMAIN m : Prunable(m[k].stamp, start, end)})

Insert(k, v, stamp) == [op |-> "insert", key |-> k, value |-> v, stamp |-> stamp]
Drop(k) == [op |-> "remove", key |-> k]
Wipe == [op |-> "clear"]
Cut(start, end) == [op |-> "prune", start |-> start, end |-> end]

\* One record in Journal::Replay.
Apply(m, r) ==
  CASE r.op = "insert" -> Put(m, r.key, r.value, r.stamp)
    [] r.op = "remove" -> Without(m, {r.key})
    [] r.op = "clear"  -> Empty
    [] r.op = "prune"  -> Pruned(m, r.start, r.end)

\* The map after each record of the journal j, and after all of them.
After(m, j) == LET a[i \in 0 .. Len(j)] == IF i = 0 THEN m ELSE Apply(a[i - 1], j[i])
               IN  a
Replay(m, j) == After(m, j)[Len(j)]

-----------------------------------------------------------------------------
(* Open *)

\* nvault_open on a vault that is not open: the file is read, the journal that a
\* crash left is replayed and erased, and a new one begins unless that fails.
Open ==
  /\ phase = "closed"
  /\ mem' = Replay(file, jrnl)
  /\ jrnl' = <<>>
  /\ journaling' \in BOOLEAN
  /\ phase' = "open"
  /\ restored' = (jrnl # <<>>) /\ past' = {mem'} /\ mishaps' = {}
  /\ UNCHANGED <<file, torn, now, faults>>

-----------------------------------------------------------------------------
(* The operations on an open vault *)

\* The bound on operations that leave no record.
Room == past # {} /\ Len(jrnl) < MaxRecords /\ Cardinality(past) <= MaxRecords

\* A record cannot be written whole: nothing of it is in the file, or a part that
\* reading stops at.
WriteFails ==
  /\ ~torn /\ Room
  /\ faults < MaxFaults /\ faults' = faults + 1
  /\ torn' = TRUE
  /\ UNCHANGED jrnl

\* A record is written behind such a place, where also records that stdio still
\* held may be missing.  It reads as it is, or its bytes complete the other or pass
\* for another record, or it fails too or reading still stops before it.
WriteBehind(r) ==
  /\ torn /\ Room
  /\ \/ UNCHANGED jrnl
     \/ \E i \in 0 .. Len(jrnl), x \in {r} \cup Misread :
          i < MaxRecords /\ jrnl' = Append(SubSeq(jrnl, 1, i), x)
  /\ UNCHANGED <<torn, faults>>

Write(r) == /\ ~torn /\ Len(jrnl) < MaxRecords
            /\ jrnl' = Append(jrnl, r)
            /\ UNCHANGED <<torn, faults>>

\* Journal::Write_..., when there is a journal; the callers ignore its result.
Log(r) ==
  IF journaling THEN Write(r) \/ WriteFails \/ WriteBehind(r)
                ELSE Room /\ UNCHANGED <<jrnl, torn, faults>>

Blame(wrong) == mishaps' = IF mishaps = {} THEN wrong ELSE mishaps

\* The map becomes m; wrong says what that does to the journal, if anything.
Become(m, wrong) ==
  /\ phase = "open"
  /\ mem' = m
  /\ Blame(wrong \cup (IF torn /\ jrnl' # jrnl THEN {"gap"} ELSE {}))
  /\ past' = IF mishaps' = {} THEN past \cup {m} ELSE {}
  /\ UNCHANGED <<phase, journaling, file, restored>>

\* nvault_set asks for the time twice, for the journal and for the map.
Set(k, v) ==
  \E later \in {now, now + 1} :
    /\ later <= MaxTime
    /\ Log(Insert(k, v, now))
    /\ Become(Put(mem, k, v, later), IF later = now THEN {} ELSE {"second"})
    /\ now' = later

\* nvault_pset
SetPermanent(k, v) ==
  Log(Insert(k, v, 0)) /\ Become(Put(mem, k, v, 0), {}) /\ UNCHANGED now

\* nvault_remove
RemoveUnlogged(k) == UNCHANGED <<jrnl, torn, faults, now>> /\ Become(Without(mem, {k}), {})
RemoveKey(k) == Log(Drop(k)) /\ Become(Without(mem, {k}), {}) /\ UNCHANGED now

\* NVault::Clear, for modules that use the vault through IVault
Clear == Log(Wipe) /\ Become(Empty, {}) /\ UNCHANGED now

\* nvault_prune
Prune(start, end) ==
  Log(Cut(start, end)) /\ Become(Pruned(mem, start, end), {}) /\ UNCHANGED now

Stamp(param) == IF param = -1 THEN now ELSE param

\* nvault_touch: the journal learns of a new entry, but of no stamp.
Touch(k, param) ==
  /\ IF k \in DOMAIN mem
     THEN /\ Room /\ UNCHANGED <<jrnl, torn, faults>>
          /\ Become(Put(mem, k, mem[k].value, Stamp(param)), {"touch"})
     ELSE Log(Insert(k, NoText, now)) /\ Become(Put(mem, k, NoText, Stamp(param)), {"touch"})
  /\ UNCHANGED now

-----------------------------------------------------------------------------
(* Close *)

\* What a save that is cut short leaves of the map.
Partial == {Restrict(mem, S) : S \in SUBSET DOMAIN mem}

\* _SaveToFile truncates the file ...
StartSave ==
  /\ phase = "open"
  /\ file' = Empty /\ phase' = "saving"
  /\ UNCHANGED <<mem, journaling, jrnl, torn, now, restored, past, mishaps, faults>>

\* ... and writes the entries.
FinishSave ==
  /\ phase = "saving"
  /\ file' = mem /\ phase' = "saved"
  /\ restored' = FALSE
  /\ UNCHANGED <<mem, journaling, jrnl, torn, now, past, mishaps, faults>>

\* The next journal begins as a new file.
Gone == phase' = "closed" /\ mem' = Empty /\ journaling' = FALSE /\ torn' = FALSE

EndJournalKept ==
  /\ phase = "saved"
  /\ Gone
  /\ past' = {mem} /\ mishaps' = {}
  /\ UNCHANGED <<file, jrnl, now, restored, faults>>

\* The journal is closed and erased.
EndJournal ==
  /\ phase = "saved"
  /\ jrnl' = <<>> /\ Gone
  /\ past' = {mem} /\ mishaps' = {}
  /\ UNCHANGED <<file, now, restored, faults>>

\* The file cannot be opened, or not all of it be written: Close does not look at
\* the result and erases the journal all the same.
SaveFails ==
  /\ \/ phase = "open" /\ UNCHANGED file
     \/ phase = "saving" /\ file' \in Partial
  /\ jrnl' = <<>> /\ Gone
  /\ restored' = FALSE
  /\ Blame({"save"}) /\ past' = {}
  /\ UNCHANGED <<now, faults>>

-----------------------------------------------------------------------------
(* The server crashes: what stdio had not written to a file is lost. *)

Crash ==
  /\ phase # "closed" /\ faults < MaxFaults
  /\ \E i \in 0 .. Len(jrnl) : jrnl' = SubSeq(jrnl, 1, i)
  /\ IF phase = "saving" THEN file' \in Partial ELSE UNCHANGED file
  /\ Blame((IF restored THEN {"again"} ELSE {})
             \cup (IF phase # "open" THEN {"save"} ELSE {}))
  /\ past' = IF phase = "open" THEN past ELSE {}
  /\ Gone /\ restored' = FALSE
  /\ faults' = faults + 1
  /\ UNCHANGED now

Tick == now < MaxTime /\ now' = now + 1
        /\ UNCHANGED <<phase, mem, journaling, file, jrnl, torn, restored, past, mishaps,
                       faults>>

VaultNext ==
  \/ Open
  \/ \E k \in Keys :
       \/ \E v \in Values : Set(k, v) \/ SetPermanent(k, v)
       \/ RemoveKey(k)
       \/ \E param \in {-1} \cup 0 .. MaxTime : Touch(k, param)
  \/ Clear
  \/ \E start, end \in 0 .. MaxTime : Prune(start, end)
  \/ StartSave \/ FinishSave \/ EndJournal \/ SaveFails
  \/ Crash \/ Tick

VaultSpec == VaultInit /\ [][VaultNext]_vaultVars

-----------------------------------------------------------------------------
(* Properties *)

Vaults == UNION {[S -> Entry] : S \in SUBSET Keys}

VaultTypeOK ==
  /\ phase \in {"closed", "open", "saving", "saved"}
  /\ mem \in Vaults /\ file \in Vaults /\ past \subseteq Vaults
  /\ jrnl \in Seq(Records)
  /\ Len(jrnl) <= MaxRecords
  /\ now \in 1 .. MaxTime /\ torn \in BOOLEAN /\ journaling \in BOOLEAN /\ restored \in BOOLEAN
  /\ mishaps \subseteq {"second", "touch", "save", "again", "gap"}
  /\ faults \in 0 .. MaxFaults

\* While a vault that was opened without an old journal is open, and no write to
\* its journal failed, the file and the journal together hold everything the
\* plugins stored, as Open would read it.
JournalCoversSession ==
  /\ VaultTypeOK
  /\ phase = "open" /\ journaling /\ ~torn /\ ~restored /\ mishaps = {}
       => Replay(file, jrnl) = mem

Opened == phase = "closed" /\ phase' = "open"

\* A vault is opened with the contents it was closed with or, after a crash, with
\* contents that it had at some moment of the session: operations are lost from
\* the end only, also when the journal fails for the rest of the session.  The
\* exceptions are the mishaps: a time stamp that the journal does not know
\* ("touch", "second"), a record written behind one that failed ("gap"), a save
\* that was cut short ("save") and a second crash before the first recovery was
\* saved ("again").
RecoversAState == [][Opened /\ mishaps = {} => mem' \in past]_vaultVars

=============================================================================
