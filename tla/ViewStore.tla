------------------------------ MODULE ViewStore -----------------------------
(***************************************************************************)
(* The materialised view (Store-P): the rows of a gram, one per head, in   *)
(* one slot of a file.  The commands view build and view verify of the CLI *)
(* (crates/engramdb/src/main.rs over crates/engramdb-io/src/view.rs) write *)
(* and check the view, its manifest, its keys file and its slot index,     *)
(* while a Python process (ViewReader behind PleMemory.fetch_raw, alone,   *)
(* with the slot index on disk or with one of its own in memory) reads     *)
(* records.  A command may stop between any two writes.                    *)
(*                                                                         *)
(* A row is its rowid (GatherPp shows that a gather returns the rows it is *)
(* asked for) and a file is counted in rows.  The slot index is the set of *)
(* its <<gram, slot>>, every gram in a bucket of its own; SlotIndex is the *)
(* index in full.                                                          *)
(***************************************************************************)
EXTENDS Integers, Sequences, FiniteSets, SequencesExt

CONSTANTS Heads,    \* rows of a record
          Slots,    \* slot widths a command may be given, in rows
          Lists,    \* lists of rowids a command may be given, with Bad for a
                    \* line that is not a number
          Batches,  \* batches of grams a reader may ask for
          ChunkGrams,  \* grams gathered at once
          MaxCommands  \* bound: build commands

Bad == -1
Pad == -2
None == -1

ASSUME ViewStoreAssumption ==
  /\ Heads \in Nat \ {0} /\ ChunkGrams \in Nat \ {0} /\ MaxCommands \in Nat
  /\ \A s \in Slots : s \in Nat /\ s >= Heads
  /\ \A l \in Lists : l \in Seq(Nat \cup {Bad})
  /\ \A b \in Batches : b \in Seq([1..Heads -> Nat])

VARIABLES
  view,     \* the view file
  keysFile, \* the keys file written beside it
  manifest, \* <view>.manifest.json
  index,    \* the records of the slot index
  indexCount, \* the count in its index.json, None without one
  cmd,      \* the build command in progress, or the last one
  reader,   \* a ViewReader of Python, and where it takes slots from
  fetch,    \* its fetch_raw
  verdict,  \* what view verify said last
  \* History variables.
  widths,   \* slot widths of all commands that have touched the view
  written,  \* grams of all of them
  commands  \* build commands given

vars == <<view, keysFile, manifest, index, indexCount, cmd, reader, fetch, verdict,
          widths, written, commands>>

NoCommand == [pc |-> "idle", mode |-> "random", keys |-> <<>>, slot |-> Heads, at |-> 0,
              rows |-> <<>>, lines |-> <<>>, todo |-> {}, withIndex |-> FALSE, complete |-> FALSE]
NoReader == [state |-> "closed", slot |-> Heads, grans |-> 0, count |-> 0, by |-> "order",
             start |-> 0, memory |-> {}, fresh |-> FALSE]
NotVerified == [asked |-> FALSE, withIndex |-> FALSE, ok |-> FALSE]
NoFetch == [state |-> "none", rows |-> <<>>, slots |-> <<>>, got |-> <<>>]

Init ==
  /\ view = <<>> /\ keysFile = <<>> /\ manifest = [state |-> "none"]
  /\ index = {} /\ indexCount = None
  /\ cmd = NoCommand /\ reader = NoReader /\ fetch = NoFetch /\ verdict = NotVerified
  /\ widths = {} /\ written = {} /\ commands = 0

-----------------------------------------------------------------------------
(* Grams and slots.                                                        *)

GramCount(keys) == Len(keys) \div Heads
GramAt(keys, i) == SubSeq(keys, i * Heads + 1, (i + 1) * Heads)
GramsOf(keys) == {GramAt(keys, i) : i \in 0..(GramCount(keys) - 1)}
Whole(keys) == Len(keys) % Heads = 0

\* A record, padded to the width of a slot.
SlotRows(gram, slot) == gram \o [x \in 1..(slot - Heads) |-> Pad]

SlotsOf(keys, slot) ==
  FlattenSeq([i \in 1..GramCount(keys) |-> SlotRows(GramAt(keys, i - 1), slot)])

IndexOf(keys) == {<<GramAt(keys, i), i>> : i \in 0..(GramCount(keys) - 1)}

-----------------------------------------------------------------------------
(* view build.                                                             *)

\* MUTANT of Numeric: any line is taken for a number.
NumericAny(list) == TRUE

Numeric(list) == \A n \in 1..Len(list) : list[n] # Bad

\* What a command refuses before it touches anything: --keys reads the whole
\* list first and wants n grams of it; the built-in sampler makes n grams.
Refused(mode, list, n) ==
  \/ mode = "keys" /\ (~Numeric(list) \/ Len(list) < n * Heads)
  \/ mode = "random" /\ (~Numeric(list) \/ Len(list) # n * Heads)

\* The rowids a command works on: --keys takes n grams, --keys-stream all.
Taken(mode, list, n) == IF mode = "stream" THEN list ELSE SubSeq(list, 1, n * Heads)

Begin(mode, list, n, slot) ==
  /\ cmd.pc = "idle" /\ commands < MaxCommands
  /\ commands' = commands + 1
  /\ IF Refused(mode, list, n)
     THEN UNCHANGED <<cmd, reader, verdict, widths, written>>
     ELSE /\ cmd' = [NoCommand EXCEPT !.pc = IF mode = "random" THEN "keys1" ELSE "view1",
                                      !.mode = mode, !.slot = slot, !.keys = Taken(mode, list, n)]
          /\ reader' = [reader EXCEPT !.fresh = FALSE]
          /\ verdict' = NotVerified
          /\ widths' = widths \cup {slot} /\ written' = written \cup GramsOf(list)
  /\ UNCHANGED <<view, keysFile, manifest, index, indexCount, fetch>>

At(pc) == cmd.pc = pc
Goto(pc) == cmd' = [cmd EXCEPT !.pc = pc]
Quiet == UNCHANGED <<reader, fetch, verdict, widths, written, commands>>

\* The sampler opens its keys file first, the other two the view.
TruncateView ==
  /\ cmd.pc \in {"view1", "view2"}
  /\ view' = <<>> /\ Goto(IF At("view1") THEN "keys2" ELSE "chunk")
  /\ UNCHANGED <<keysFile, manifest, index, indexCount>> /\ Quiet

TruncateKeys ==
  /\ cmd.pc \in {"keys1", "keys2"}
  /\ keysFile' = <<>> /\ Goto(IF At("keys1") THEN "view2" ELSE "chunk")
  /\ UNCHANGED <<view, manifest, index, indexCount>> /\ Quiet

Rest == SubSeq(cmd.keys, cmd.at + 1, Len(cmd.keys))
ChunkLen == IF Len(Rest) < ChunkGrams * Heads THEN Len(Rest) ELSE ChunkGrams * Heads
Chunk == SubSeq(Rest, 1, ChunkLen)

\* Gather a chunk; slots and lines go to the buffers of their files.
WriteChunk ==
  /\ At("chunk") /\ Chunk # <<>> /\ Numeric(Chunk) /\ Whole(Chunk)
  /\ cmd' = [cmd EXCEPT !.at = @ + Len(Chunk), !.lines = @ \o Chunk,
                        !.rows = @ \o SlotsOf(Chunk, cmd.slot)]
  /\ UNCHANGED <<view, keysFile, manifest, index, indexCount>> /\ Quiet

\* A full buffer is written out: whole slots, or whole lines.
SpillView ==
  /\ cmd.pc # "idle" /\ cmd.rows # <<>>
  /\ view' = view \o cmd.rows /\ cmd' = [cmd EXCEPT !.rows = <<>>]
  /\ UNCHANGED <<keysFile, manifest, index, indexCount>> /\ Quiet

SpillKeys ==
  /\ cmd.pc # "idle" /\ cmd.lines # <<>>
  /\ keysFile' = keysFile \o cmd.lines /\ cmd' = [cmd EXCEPT !.lines = <<>>]
  /\ UNCHANGED <<view, manifest, index, indexCount>> /\ Quiet

\* A stream that does not parse, ends within a gram or holds nothing is found
\* out here, when the view is truncated and part of it may be written.
StreamRefused ==
  cmd.mode = "stream" /\ (~Numeric(Chunk) \/ ~Whole(Chunk) \/ cmd.keys = <<>>)

EndOfKeys ==
  /\ At("chunk") /\ Chunk = <<>> /\ ~StreamRefused
  /\ Goto("flush")
  /\ UNCHANGED <<view, keysFile, manifest, index, indexCount>> /\ Quiet

FlushView ==
  /\ At("flush") /\ cmd.rows = <<>>
  /\ Goto("manifest1")
  /\ UNCHANGED <<view, keysFile, manifest, index, indexCount>> /\ Quiet

CreateManifest ==
  /\ cmd.pc \in {"manifest1", "update1"}
  /\ manifest' = [state |-> "torn"]
  /\ Goto(IF At("manifest1") THEN "manifest2" ELSE "update2")
  /\ UNCHANGED <<view, keysFile, index, indexCount>> /\ Quiet

Grans == GramCount(cmd.keys)

\* The builder's manifest knows of no index; it is named when that is built.
WriteManifest ==
  /\ cmd.pc \in {"manifest2", "update2"}
  /\ manifest' = [state |-> "ok", slot |-> cmd.slot, grans |-> Grans, named |-> At("update2")]
  /\ Goto(IF At("manifest2") THEN "close" ELSE "verify")
  /\ UNCHANGED <<view, keysFile, index, indexCount>> /\ Quiet

\* MUTANT of CloseKeys: the index is built before the keys file is closed.
CloseKeysLate(withIndex) ==
  /\ At("close")
  /\ cmd' = [cmd EXCEPT !.withIndex = withIndex, !.pc = IF withIndex THEN "index" ELSE "verify",
                        !.todo = IF withIndex THEN GramsOf(keysFile) ELSE {}]
  /\ UNCHANGED <<view, keysFile, manifest, index, indexCount>> /\ Quiet

\* The buffer of the keys file is written when the builder returns, and the
\* index is built from the file.
CloseKeys(withIndex) ==
  /\ At("close")
  /\ keysFile' = keysFile \o cmd.lines
  /\ cmd' = [cmd EXCEPT !.lines = <<>>, !.withIndex = withIndex,
                        !.pc = IF withIndex THEN "index" ELSE "verify",
                        !.todo = IF withIndex THEN GramsOf(keysFile') ELSE {}]
  /\ UNCHANGED <<view, manifest, index, indexCount>> /\ Quiet

\* Bucket by bucket, over the buckets that are there.
IndexGram(g) ==
  /\ At("index") /\ g \in cmd.todo
  /\ index' = {r \in index : r[1] # g} \cup {r \in IndexOf(keysFile) : r[1] = g}
  /\ cmd' = [cmd EXCEPT !.todo = @ \ {g}]
  /\ UNCHANGED <<view, keysFile, manifest, indexCount>> /\ Quiet

\* MUTANT of IndexCount: a gram that occurs twice is counted once.
IndexCountDistinct == Cardinality(GramsOf(keysFile))

IndexCount == GramCount(keysFile)

FinishIndex ==
  /\ At("index") /\ cmd.todo = {}
  /\ indexCount' = IndexCount /\ Goto("update1")
  /\ UNCHANGED <<view, keysFile, manifest, index>> /\ Quiet

-----------------------------------------------------------------------------
(* Opening and checking.                                                   *)

\* MUTANT of SlotOf: the width the manifest gives is ignored.
SlotOfRecord == Heads

\* slot_of: a manifest that is missing or torn leaves the record width.
SlotOf == IF manifest.state = "ok" THEN manifest.slot ELSE Heads
GransOf == IF manifest.state = "ok" THEN manifest.grans ELSE 0

\* Records of the view: what the file holds and the manifest admits.
CountFor(slot, grans) ==
  IF grans > 0 /\ grans < Len(view) \div slot THEN grans ELSE Len(view) \div slot

\* MUTANT of RecordAt: records follow one another without padding.
RecordAtDense(slot, i) == SubSeq(view, i * Heads + 1, (i + 1) * Heads)

RecordAt(slot, i) == SubSeq(view, i * slot + 1, i * slot + Heads)

\* verify_view: all of the records, against as many grams of the keys.
ViewMatches(keys) ==
  LET count == CountFor(SlotOf, GransOf) IN
  /\ count > 0 /\ keys # <<>> /\ GramCount(keys) >= count
  /\ \A i \in 0..(count - 1) : RecordAt(SlotOf, i) = GramAt(keys, i)

\* build --verify, or the end of a build without it.
EndBuild(check) ==
  /\ At("verify")
  /\ cmd' = [NoCommand EXCEPT !.complete = (check => ViewMatches(keysFile)), !.keys = cmd.keys,
                              !.slot = cmd.slot, !.withIndex = cmd.withIndex]
  /\ UNCHANGED <<view, keysFile, manifest, index, indexCount>> /\ Quiet

\* What verify-from-keys finds in the index: every gram at its slot, and the count.
IndexMatches(keys) ==
  indexCount = GramCount(keys) /\ Whole(keys) /\ IndexOf(keys) \subseteq index

\* view verify --keys, with or without --slot-index.
Verify(withIndex) ==
  /\ cmd.pc = "idle"
  /\ verdict' = [asked |-> TRUE, withIndex |-> withIndex,
                 ok |-> ViewMatches(keysFile) /\ (withIndex => IndexMatches(keysFile))]
  /\ UNCHANGED <<view, keysFile, manifest, index, indexCount, cmd, reader, fetch, widths, written,
                 commands>>

\* The command ends early: by an error, with its buffers written, or for good.
Abort(flushed) ==
  /\ view' = IF flushed THEN view \o cmd.rows ELSE view
  /\ keysFile' = IF flushed THEN keysFile \o cmd.lines ELSE keysFile
  /\ cmd' = NoCommand
  /\ UNCHANGED <<manifest, index, indexCount>> /\ Quiet

RejectStream == At("chunk") /\ StreamRefused /\ Abort(TRUE)
Stop(flushed) == cmd.pc # "idle" /\ Abort(flushed)

-----------------------------------------------------------------------------
(* Reading.                                                                *)

\* _rebuild_sorted is stable, so lookup gives a gram's first place.
FirstSlots(keys) == {r \in IndexOf(keys) : \A q \in IndexOf(keys) : r[1] = q[1] => r[2] <= q[2]}

\* SlotIndex.from_view_manifest: the keys file that the manifest names is read
\* into memory; it must not end within a gram.
LoadIndex ==
  /\ reader.state = "closed" /\ manifest.state = "ok" /\ Whole(keysFile)
  /\ reader' = [NoReader EXCEPT !.state = "indexed", !.by = "memory",
                                !.memory = FirstSlots(keysFile), !.fresh = cmd.complete]
  /\ UNCHANGED <<view, keysFile, manifest, index, indexCount, cmd, fetch, verdict, widths, written,
                 commands>>

\* ViewReader::open reads the manifest, and then the size of the file.
OpenManifest(by, start) ==
  /\ reader.state = (IF by = "memory" THEN "indexed" ELSE "closed") /\ widths # {}
  /\ by = "disk" => indexCount # None
  /\ reader' = [reader EXCEPT !.state = "opening", !.slot = SlotOf, !.grans = GransOf,
                              !.by = by, !.start = start,
                              !.fresh = cmd.complete /\ (by = "memory" => @)]
  /\ UNCHANGED <<view, keysFile, manifest, index, indexCount, cmd, fetch, verdict, widths, written,
                 commands>>

OpenView ==
  /\ reader.state = "opening"
  /\ reader' = [reader EXCEPT !.state = "open", !.grans = 0,
                              !.count = CountFor(reader.slot, reader.grans)]
  /\ UNCHANGED <<view, keysFile, manifest, index, indexCount, cmd, fetch, verdict, widths, written,
                 commands>>

\* The slots of a batch: looked up, or counted from the start slot.
SlotChoices(rows) ==
  IF reader.by # "order"
  THEN LET table == IF reader.by = "disk" THEN index ELSE reader.memory IN
       {c \in [1..Len(rows) -> {r[2] : r \in table}] :
          \A j \in 1..Len(rows) : <<rows[j], c[j]>> \in table}
  ELSE {[j \in 1..Len(rows) |-> reader.start + j - 1]}

\* All slots are checked before the first is read.
InRange(slots) == \A j \in DOMAIN slots : slots[j] < reader.count

\* fetch_raw: a gram the index lacks raises, and so does a slot out of range.
Ask(rows) ==
  /\ reader.state = "open" /\ fetch.state # "reading"
  /\ \/ \E slots \in SlotChoices(rows) :
          fetch' = [state |-> IF InRange(slots) THEN "reading" ELSE "error", rows |-> rows,
                    slots |-> slots, got |-> [j \in 1..Len(rows) |-> <<>>]]
     \/ /\ SlotChoices(rows) = {}
        /\ fetch' = [NoFetch EXCEPT !.state = "error", !.rows = rows]
  /\ UNCHANGED <<view, keysFile, manifest, index, indexCount, cmd, reader, verdict, widths, written,
                 commands>>

\* The records are read by jobs of the pool, in any order; one that the file no
\* longer holds fails the call.
ReadRecord(j) ==
  /\ fetch.state = "reading" /\ fetch.got[j] = <<>>
  /\ fetch' = IF (fetch.slots[j] + 1) * reader.slot <= Len(view)
              THEN [fetch EXCEPT !.got[j] = RecordAt(reader.slot, fetch.slots[j])]
              ELSE [fetch EXCEPT !.state = "error"]
  /\ UNCHANGED <<view, keysFile, manifest, index, indexCount, cmd, reader, verdict, widths, written,
                 commands>>

Answered ==
  /\ fetch.state = "reading" /\ \A j \in DOMAIN fetch.got : fetch.got[j] # <<>>
  /\ fetch' = [fetch EXCEPT !.state = "ok"]
  /\ UNCHANGED <<view, keysFile, manifest, index, indexCount, cmd, reader, verdict, widths, written,
                 commands>>

Close ==
  /\ reader.state = "open" /\ fetch.state # "reading"
  /\ reader' = NoReader /\ fetch' = NoFetch
  /\ UNCHANGED <<view, keysFile, manifest, index, indexCount, cmd, verdict, widths, written, commands>>

-----------------------------------------------------------------------------
\* Bound: the grams a command asks for.
MaxGrams == 2

Next ==
  \/ \E mode \in {"random", "keys", "stream"}, list \in Lists, n \in 0..MaxGrams, slot \in Slots :
       Begin(mode, list, n, slot)
  \/ TruncateView \/ TruncateKeys \/ WriteChunk \/ SpillView \/ SpillKeys
  \/ EndOfKeys \/ FlushView \/ CreateManifest \/ WriteManifest
  \/ \E withIndex \in BOOLEAN : CloseKeys(withIndex)
  \/ (\E g \in cmd.todo : IndexGram(g)) \/ FinishIndex
  \/ \E check \in BOOLEAN : EndBuild(check)
  \/ RejectStream \/ \E flushed \in BOOLEAN : Stop(flushed)
  \/ \E withIndex \in BOOLEAN : Verify(withIndex)
  \/ LoadIndex
  \/ (\E by \in {"disk", "memory"} : OpenManifest(by, 0))
  \/ (\E start \in 0..1 : OpenManifest("order", start))
  \/ OpenView \/ (\E rows \in Batches : Ask(rows))
  \/ (\E j \in DOMAIN fetch.got : ReadRecord(j)) \/ Answered \/ Close

Spec == Init /\ [][Next]_vars

-----------------------------------------------------------------------------
(* Properties.                                                             *)

Rowids == (UNION {ToSet(l) : l \in Lists}) \ {Bad}

TypeOK ==
  /\ view \in Seq(Rowids \cup {Pad}) /\ keysFile \in Seq(Rowids)
  /\ manifest.state = "ok" => manifest.slot \in Slots /\ manifest.grans \in Nat
  /\ \A r \in index : r[1] \in [1..Heads -> Rowids] /\ r[2] \in Nat
  /\ cmd.at \in 0..Len(cmd.keys) /\ cmd.complete \in BOOLEAN
  /\ reader.count \in Nat /\ fetch.state \in {"none", "reading", "ok", "error"}
  /\ commands \in 0..MaxCommands

\* A build command that succeeds leaves a view, a manifest and a keys file, and
\* an index if it made one, that all speak of the same grams, whatever earlier
\* commands, finished or not, left in their place (main.rs 712-804).  verify accepts
\* them, unless the view is empty (view.rs 777).
BuildConsistent ==
  cmd.complete =>
    /\ keysFile = cmd.keys
    /\ view = SlotsOf(cmd.keys, cmd.slot)
    /\ manifest = [state |-> "ok", slot |-> cmd.slot, grans |-> GramCount(cmd.keys),
                   named |-> cmd.withIndex]
    /\ cmd.withIndex => {r \in index : r[1] \in GramsOf(cmd.keys)} = IndexOf(cmd.keys)
    /\ verdict.asked /\ cmd.keys # <<>> /\ (verdict.withIndex => cmd.withIndex) => verdict.ok

\* On a view that a successful command left and none has touched since, a fetch
\* of grams of the view succeeds and gives their records, in the order of the
\* request; a sequential one gives the records from its start slot on
\* (ple_memory.py 287-326).
FreshFetch ==
  reader.fresh /\ fetch.state \in {"ok", "error"} =>
    IF reader.by # "order"
    THEN (reader.by = "disk" => cmd.withIndex) /\ ToSet(fetch.rows) \subseteq GramsOf(cmd.keys) =>
           fetch.state = "ok" /\ fetch.got = fetch.rows
    ELSE IF fetch.rows = <<>> \/ reader.start + Len(fetch.rows) <= GramCount(cmd.keys)
    THEN /\ fetch.state = "ok"
         /\ \A j \in DOMAIN fetch.got : fetch.got[j] = GramAt(cmd.keys, reader.start + j - 1)
    ELSE fetch.state = "error"

\* While the slots of a view keep their width, no record that a fetch returns is
\* torn or made of two: it is a gram some command was given, even if commands
\* truncate and rewrite the view under the reader, or stop half way.
WholeRecords ==
  fetch.state = "ok" /\ widths \subseteq {reader.slot} => ToSet(fetch.got) \subseteq written
=============================================================================
