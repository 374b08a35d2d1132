------------------------------ MODULE Journal ------------------------------
(***************************************************************************)
(* The decision-event journal (internal/journal) and its two readers: the  *)
(* live stream (cmd/ppg/events.go) and `ppg report` (cmd/ppg/report.go).   *)
(* Every PPG process appends to events.jsonl under a lock on the file it   *)
(* opened; a process that starts and finds it too large renames it to an   *)
(* archive named after the second.  Neither reader takes the lock.         *)
(*                                                                         *)
(* A file keeps its number, as an inode does, when its name changes.  An   *)
(* event is known by its place in the order of all writes, every line is   *)
(* two units long, and a reader may see the first unit without the second. *)
(* A behaviour follows one reader, a stream or a report: readers change    *)
(* nothing that another process sees.                                      *)
(***************************************************************************)
EXTENDS Naturals, Sequences, FiniteSets, FiniteSetsExt

CONSTANTS
    Procs,       \* the processes that write events
    Limit,       \* lines from which a journal is rotated (rotateBytes)
    PerSecond,   \* bound on the lines written in one second
    MaxSecond,   \* bound on the clock
    MaxWrites,   \* bound on the events written
    Replays      \* the numbers of lines a stream's client may ask to replay

ASSUME LimitAssumption == Limit \in Nat \ {0} /\ PerSecond \in Nat
ASSUME RateAssumption == PerSecond < Limit
ASSUME BoundsAssumption == MaxSecond \in Nat /\ MaxWrites \in Nat
ASSUME ReplaysAssumption == Replays \subseteq Nat
ASSUME ProcsAssumption == IsFiniteSet(Procs)

Seconds == 0 .. MaxSecond
None == 0          \* no file of that name

VARIABLES
    files,      \* every file there ever was: its lines, and when it was created
    live,       \* the file named events.jsonl, or None
    archive,    \* archive[s]: the file named events-<s>.jsonl, or None
    now,        \* the second
    burst,      \* lines written in this second
    writes,     \* events written so far
    proc,       \* proc[p]: where the process stands
    overtaken,  \* history: a process renamed another file than the one it measured
    tail,       \* one stream: where it stands, its offset, what Stat said, and the
                \*   file it has open, whatever its name is by now
    sent,       \* the events sent to its client, in order
    origin,     \* history: the file the stream's offset is measured in, and the place
                \*   in the file it connected to where it began
    outgrown,   \* history: the stream read on at its offset in another file
    strayed,    \* history: the stream read, in a file taken away while it had it
                \*   open, an event later than one of the fresh journal
    report      \* one report: the archives still to be read and the files read so far

fileVars == <<files, live, archive>>
timeVars == <<now, burst>>
streamVars == <<tail, sent, origin, outgrown, strayed>>
vars == <<files, live, archive, now, burst, writes, proc, overtaken,
          tail, sent, origin, outgrown, strayed, report>>

-----------------------------------------------------------------------------
Files == 1 .. Len(files)
Linked == ({live} \cup {archive[s] : s \in Seconds}) \ {None}
Lines(f) == files[f].lines

\* A line is being written to file f, and its first half can be seen.
Torn(f) == \E p \in Procs : proc[p].at = "writing" /\ proc[p].file = f

Whole(f) == 2 * Len(Lines(f))
Size(f) == Whole(f) + IF Torn(f) THEN 1 ELSE 0

idle == [at |-> "idle"]
ready == [at |-> "ready"]
Goes(p, stage) == proc' = [proc EXCEPT ![p] = stage]

Init ==
    /\ files = <<>>
    /\ live = None
    /\ archive = [s \in Seconds |-> None]
    /\ now = 0
    /\ burst = 0
    /\ writes = 0
    /\ proc = [p \in Procs |-> idle]
    /\ overtaken = FALSE
    /\ tail = [at |-> "off", offset |-> 0, upto |-> 0, file |-> None]
    /\ sent = <<>>
    /\ origin = [file |-> None, first |-> None, from |-> 0]
    /\ outgrown = FALSE
    /\ strayed = FALSE
    /\ report = [at |-> "off"]

-----------------------------------------------------------------------------
(* The writers. *)

\* Open: the process starts and measures the journal.
Measure(p) ==
    /\ proc[p].at = "idle"
    /\ Goes(p, IF live # None /\ Size(live) >= 2 * Limit
               THEN [at |-> "measured", file |-> live, since |-> now]
               ELSE ready)
    /\ UNCHANGED <<fileVars, timeVars, writes, overtaken, streamVars, report>>

\* Slip: every archive has the same name.
RotateToOneName(p) ==
    /\ proc[p].at = "measured"
    /\ Goes(p, ready)
    /\ IF live = None
       THEN UNCHANGED <<fileVars, overtaken>>
       ELSE /\ archive' = [archive EXCEPT ![0] = live]
            /\ live' = None
            /\ overtaken' = (overtaken \/ live # proc[p].file)
            /\ UNCHANGED files
    /\ UNCHANGED <<timeVars, writes, streamVars, report>>

\* The name is made from a second after the measure; the rename takes whatever is
\* named events.jsonl by then, and replaces an archive of that name.
Rotate(p) ==
    /\ proc[p].at = "measured"
    /\ Goes(p, ready)
    /\ IF live = None
       THEN UNCHANGED <<fileVars, overtaken>>
       ELSE /\ \E s \in proc[p].since .. now : archive' = [archive EXCEPT ![s] = live]
            /\ live' = None
            /\ overtaken' = (overtaken \/ live # proc[p].file)
            /\ UNCHANGED files
    /\ UNCHANGED <<timeVars, writes, streamVars, report>>

\* append opens the journal, and creates it when there is none.
OpenJournal(p) ==
    /\ proc[p].at = "ready"
    /\ IF live = None
       THEN /\ files' = Append(files, [lines |-> <<>>, born |-> now])
            /\ live' = Len(files) + 1
            /\ Goes(p, [at |-> "opened", file |-> Len(files) + 1])
       ELSE /\ Goes(p, [at |-> "opened", file |-> live])
            /\ UNCHANGED <<files, live>>
    /\ UNCHANGED <<archive, timeVars, writes, overtaken, streamVars, report>>

\* Slip: the write does not wait for the lock.
BeginWriteUnlocked(p) ==
    /\ proc[p].at = "opened"
    /\ writes + Cardinality({q \in Procs : proc[q].at = "writing"}) < MaxWrites
    /\ Goes(p, [proc[p] EXCEPT !.at = "writing"])
    /\ UNCHANGED <<fileVars, timeVars, writes, overtaken, streamVars, report>>

\* With the lock on the file it opened, the write begins to show,
BeginWrite(p) ==
    /\ proc[p].at = "opened"
    /\ ~Torn(proc[p].file)
    /\ writes + Cardinality({q \in Procs : proc[q].at = "writing"}) < MaxWrites
    /\ Goes(p, [proc[p] EXCEPT !.at = "writing"])
    /\ UNCHANGED <<fileVars, timeVars, writes, overtaken, streamVars, report>>

\* and is all there when the lock is given back.
EndWrite(p) ==
    /\ proc[p].at = "writing"
    /\ burst < PerSecond
    /\ burst' = burst + 1
    /\ writes' = writes + 1
    /\ files' = [files EXCEPT ![proc[p].file].lines = Append(@, writes + 1)]
    /\ Goes(p, ready)
    /\ UNCHANGED <<live, archive, now, overtaken, streamVars, report>>

\* The process ends, is killed, or gives up on an event it could not write.
Leave(p) ==
    /\ proc[p].at \in {"measured", "ready", "opened"}
    /\ Goes(p, idle)
    /\ UNCHANGED <<fileVars, timeVars, writes, overtaken, streamVars, report>>

Tick ==
    /\ now < MaxSecond
    /\ now' = now + 1
    /\ burst' = 0
    /\ UNCHANGED <<fileVars, writes, proc, overtaken, streamVars, report>>

-----------------------------------------------------------------------------
(* The live stream. *)

\* Lines i to j of f are read when f is no longer the journal and the fresh one
\* holds an earlier event.
Strays(f, i, j) ==
    /\ live \notin {None, f}
    /\ \E k \in i .. j, e \in DOMAIN Lines(live) : Lines(live)[e] < Lines(f)[k]

\* tailLines opens the journal, and keeps it open under whatever name it has then;
Connect ==
    /\ tail.at = "off"
    /\ report.at = "off"
    /\ tail' = IF live = None
               THEN [tail EXCEPT !.at = "waiting"]
               ELSE [tail EXCEPT !.at = "connecting", !.file = live]
    /\ UNCHANGED <<fileVars, timeVars, writes, proc, overtaken, sent, origin, outgrown,
                   strayed, report>>

\* it replays the last n whole lines, and the stream goes on from there.
Replay(n) ==
    LET f == tail.file
        len == Len(Lines(f))
        from == IF n < len THEN len - n ELSE 0
    IN
    /\ tail.at = "connecting"
    /\ tail' = [at |-> "waiting", offset |-> 2 * len, upto |-> 0, file |-> None]
    /\ sent' = SubSeq(Lines(f), from + 1, len)
    /\ origin' = [file |-> f, first |-> f, from |-> from]
    /\ strayed' = Strays(f, from + 1, len)
    /\ UNCHANGED <<fileVars, timeVars, writes, proc, overtaken, outgrown, report>>

\* readNewLines asks for the size: there is something new, and it goes on to read;
SeeNew ==
    /\ tail.at = "waiting"
    /\ live # None
    /\ Size(live) > tail.offset
    /\ tail' = [tail EXCEPT !.at = "seen", !.upto = Size(live)]
    /\ UNCHANGED <<fileVars, timeVars, writes, proc, overtaken, sent, origin, outgrown,
                   strayed, report>>

\* Slip: the tail starts over whenever nothing is new.
StartOverWhenQuiet ==
    /\ tail.at = "waiting"
    /\ live # None => Size(live) <= tail.offset
    /\ tail' = [tail EXCEPT !.offset = 0]
    /\ UNCHANGED <<fileVars, timeVars, writes, proc, overtaken, sent, origin, outgrown,
                   strayed, report>>

\* or the journal is gone or shorter than the offset, and the tail starts over.
StartOver ==
    /\ tail.at = "waiting"
    /\ live # None => Size(live) < tail.offset
    /\ tail' = [tail EXCEPT !.offset = 0]
    /\ UNCHANGED <<fileVars, timeVars, writes, proc, overtaken, sent, origin, outgrown,
                   strayed, report>>

\* Then it opens the journal, by now perhaps another file; without one it waits for
\* the next tick.
OpenTail ==
    /\ tail.at = "seen"
    /\ tail' = IF live = None
               THEN [tail EXCEPT !.at = "waiting", !.upto = 0]
               ELSE [tail EXCEPT !.at = "reading", !.file = live]
    /\ UNCHANGED <<fileVars, timeVars, writes, proc, overtaken, sent, origin, outgrown,
                   strayed, report>>

\* The tail waits for the next tick: the file it opened is shorter than the size seen.
TooShort ==
    /\ tail.at = "reading"
    /\ Size(tail.file) < tail.upto
    /\ tail' = [tail EXCEPT !.at = "waiting", !.upto = 0, !.file = None]
    /\ UNCHANGED <<fileVars, timeVars, writes, proc, overtaken, sent, origin, outgrown,
                   strayed, report>>

\* Slip: the offset goes to what was read, a half line included.
ReadNewToEnd ==
    LET f == tail.file
        from == tail.offset \div 2
        to == tail.upto \div 2
        start == (tail.offset + 1) \div 2
    IN
    /\ tail.at = "reading"
    /\ Size(f) >= tail.upto
    /\ tail' = [at |-> "waiting", offset |-> tail.upto, upto |-> 0, file |-> None]
    /\ sent' = sent \o SubSeq(Lines(f), start + 1, to)
    /\ origin' = [origin EXCEPT !.file = f]
    /\ outgrown' = (outgrown \/ (from > 0 /\ f # origin.file))
    /\ strayed' = (strayed \/ Strays(f, from + 1, to))
    /\ UNCHANGED <<fileVars, timeVars, writes, proc, overtaken, report>>

\* It sends the whole lines between the offset and the size seen, of the file it
\* opened.
ReadNew ==
    LET f == tail.file
        from == tail.offset \div 2
        to == tail.upto \div 2
    IN
    /\ tail.at = "reading"
    /\ Size(f) >= tail.upto
    /\ tail' = [at |-> "waiting", offset |-> 2 * to, upto |-> 0, file |-> None]
    /\ sent' = sent \o SubSeq(Lines(f), from + 1, to)
    /\ origin' = [origin EXCEPT !.file = f]
    /\ outgrown' = (outgrown \/ (from > 0 /\ f # origin.file))
    /\ strayed' = (strayed \/ Strays(f, from + 1, to))
    /\ UNCHANGED <<fileVars, timeVars, writes, proc, overtaken, report>>

-----------------------------------------------------------------------------
(* ppg report. *)

\* Slip: the live journal is read first as well, so that a rotation cannot hide it.
ListAfterLive ==
    /\ report.at = "off"
    /\ tail.at = "off"
    /\ live # None
    /\ report' = [at |-> "archives", left |-> {s \in Seconds : archive[s] # None}, seen |-> <<live>>]
    /\ UNCHANGED <<fileVars, timeVars, writes, proc, overtaken, streamVars>>

\* readJournal lists the archives,
ListArchives ==
    /\ report.at = "off"
    /\ tail.at = "off"
    /\ report' = [at |-> "archives", left |-> {s \in Seconds : archive[s] # None}, seen |-> <<>>]
    /\ UNCHANGED <<fileVars, timeVars, writes, proc, overtaken, streamVars>>

\* reads them, the oldest first,
ReadArchive ==
    /\ report.at = "archives"
    /\ report.left # {}
    /\ LET s == Min(report.left) IN
       report' = [report EXCEPT !.left = @ \ {s}, !.seen = Append(@, archive[s])]
    /\ UNCHANGED <<fileVars, timeVars, writes, proc, overtaken, streamVars>>

\* and the live journal last.
ReadLive ==
    /\ report.at = "archives"
    /\ report.left = {}
    /\ report' = [at |-> "done",
                  seen |-> IF live = None THEN report.seen ELSE Append(report.seen, live)]
    /\ UNCHANGED <<fileVars, timeVars, writes, proc, overtaken, streamVars>>

-----------------------------------------------------------------------------
Next ==
    \/ \E p \in Procs :
          Measure(p) \/ Rotate(p) \/ OpenJournal(p) \/ BeginWrite(p) \/ EndWrite(p) \/ Leave(p)
    \/ Tick
    \/ Connect
    \/ \E n \in Replays : Replay(n)
    \/ SeeNew \/ StartOver \/ OpenTail \/ TooShort \/ ReadNew
    \/ ListArchives \/ ReadArchive \/ ReadLive

Spec == Init /\ [][Next]_vars

-----------------------------------------------------------------------------
(* Properties. *)

Stages ==
    {idle, ready}
    \cup [at : {"measured"}, file : Files, since : 0 .. now]
    \cup [at : {"opened", "writing"}, file : Files]

Tails == [at     : {"off", "connecting", "waiting", "seen", "reading"},
          offset : Nat, upto : Nat, file : {None} \cup Files]

Sent == {sent[i] : i \in DOMAIN sent}

\* Every variable has its type; one process at a time writes to a file, and events
\* are numbered in the order of their writes.
TypeOK ==
    /\ files \in Seq([lines : Seq(1 .. writes), born : 0 .. now])
    /\ live \in {None} \cup Files
    /\ archive \in [Seconds -> {None} \cup Files]
    /\ now \in Seconds
    /\ burst \in 0 .. PerSecond
    /\ writes \in 0 .. MaxWrites
    /\ proc \in [Procs -> Stages]
    /\ \A p, q \in Procs :
          proc[p].at = "writing" /\ proc[q].at = "writing" /\ proc[p].file = proc[q].file => p = q
    /\ overtaken \in BOOLEAN
    /\ tail \in Tails
    /\ sent \in Seq(1 .. writes)
    /\ origin \in [file : {None} \cup Files, first : {None} \cup Files, from : Nat]
    /\ outgrown \in BOOLEAN
    /\ strayed \in BOOLEAN
    /\ \/ report = [at |-> "off"]
       \/ report \in [at : {"archives"}, left : SUBSET Seconds, seen : Seq(Files)]
       \/ report \in [at : {"done"}, seen : Seq(Files)]

\* Every event written stays in a file that ppg report reads, unless a process
\* renamed a journal it had not measured: two processes that found the same one too
\* large may both rename, the second one the fresh journal over the archive.
NothingLost ==
    ~overtaken => \A e \in 1 .. writes : \E f \in Linked : \E i \in DOMAIN Lines(f) :
        Lines(f)[i] = e

\* No event is sent twice to a client; and none out of order, unless the stream read
\* a late event from a file taken away while it had it open.
SentInOrder ==
    /\ \A i, j \in DOMAIN sent : i # j => sent[i] # sent[j]
    /\ ~strayed => \A i, j \in DOMAIN sent : i < j => sent[i] < sent[j]

\* Rotation skips the end of the file it takes away and nothing else: of any file,
\* what the stream did not send comes after what it did, except before the replay -
\* unless the fresh journal had outgrown the offset before the next tick.
SkipsOnlyTheEnd ==
    ~outgrown =>
        \A f \in Files : \A j, k \in DOMAIN Lines(f) :
            j < k /\ Lines(f)[k] \in Sent /\ (f = origin.first => j > origin.from)
                => Lines(f)[j] \in Sent

\* A report reads no file twice, whatever is rotated meanwhile.
ReportCountsOnce ==
    report.at # "off" =>
        \A i, j \in DOMAIN report.seen : report.seen[i] = report.seen[j] => i = j

-----------------------------------------------------------------------------
(* What makes them hold. *)

\* Every event is in one file, each file holds its events in order, and a file of this
\* second holds no more than were written in it.
EventsFiled ==
    /\ writes + Cardinality({p \in Procs : proc[p].at = "writing"}) <= MaxWrites
    /\ \A f \in Files :
          /\ \A i, j \in DOMAIN Lines(f) : i < j => Lines(f)[i] < Lines(f)[j]
          /\ files[f].born = now => Len(Lines(f)) <= burst
    /\ \A f, g \in Files : \A i \in DOMAIN Lines(f), j \in DOMAIN Lines(g) :
          Lines(f)[i] = Lines(g)[j] => f = g
    /\ \A e \in 1 .. writes : \E f \in Files : \E i \in DOMAIN Lines(f) : Lines(f)[i] = e

\* A file has one name; an archive's is not later than the birth of the live journal,
\* and a journal that was found too large is older than the second it was measured in.
NamesInOrder ==
    /\ \A s \in Seconds :
          archive[s] # None =>
              /\ archive[s] # live
              /\ s <= now
              /\ live # None => s <= files[live].born
              /\ \A t \in Seconds : archive[t] = archive[s] => t = s
    /\ \A p \in Procs :
          proc[p].at = "measured" => files[proc[p].file].born < proc[p].since
    /\ ~overtaken => Files \subseteq Linked

\* The journal, and the file the stream has open.
Ahead == {live, tail.file} \ {None}

\* The stream reads files in the order of their creation.  What was sent is nothing
\* of what such a file holds beyond the offset, and comes before it unless the
\* stream strayed; nothing of the whole of it, when the offset is another file's.
StreamInOrder ==
    /\ tail.offset % 2 = 0
    /\ tail.at \in {"seen", "reading"} => tail.upto > tail.offset
    /\ tail.at \in {"off", "connecting"} => sent = <<>> /\ origin.file = None
    /\ tail.at \in {"connecting", "reading"} <=> tail.file # None
    /\ live # None => live = Len(files)
    /\ tail.file # None => origin.file <= tail.file
    /\ origin.file # None => tail.offset <= Whole(origin.file)
    /\ \A f \in Ahead : \A i \in DOMAIN sent, j \in DOMAIN Lines(f) :
          (f = origin.file => 2 * j > tail.offset) =>
              /\ sent[i] # Lines(f)[j]
              /\ ~strayed => sent[i] < Lines(f)[j]

\* Up to the offset everything was sent.
SentUpToOffset ==
    ~outgrown /\ origin.file # None =>
        \A j \in DOMAIN Lines(origin.file) :
            2 * j <= tail.offset /\ (origin.file = origin.first => j > origin.from)
                => Lines(origin.file)[j] \in Sent

\* A file that was read is not the live journal, nor an archive still to be read.
ReadBefore ==
    report.at = "archives" =>
        /\ \A i \in DOMAIN report.seen : report.seen[i] # live
        /\ \A s \in report.left :
              archive[s] # None /\ \A i \in DOMAIN report.seen : report.seen[i] # archive[s]

=============================================================================
