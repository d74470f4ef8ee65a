----------------------------- MODULE PipelineLog -----------------------------
(***************************************************************************)
(* The run log of observability/events.py: PipelineLog.write, read and     *)
(* follow over one JSONL file, and EventLog.write, which mirrors every     *)
(* event of an attempt's local log into it.                                *)
(*                                                                         *)
(* The file is a sequence of pieces.  A record is written as two pieces:   *)
(* its beginning, and its end with the newline, so a writer that dies or   *)
(* raises between them leaves an incomplete final line.  A reader takes no *)
(* lock and reads the bytes in two calls, as a whole-file read does that   *)
(* asks once more for the end of the file, and a buffered readline that    *)
(* has not met a newline yet.  When the incomplete line it met first was   *)
(* cut off and written over in between, the second call goes on inside     *)
(* another record, and the line is a mix of the two.                       *)
(***************************************************************************)
EXTENDS Naturals, Sequences, SequencesExt

CONSTANTS
    Writers,    \* processes that write events
    Followers,  \* processes that poll the log with a cursor
    Readers,    \* processes that read the whole log
    MaxEvents,  \* bound on events of one writer
    MaxPage,    \* records follow returns at most in one page
    NoWriter    \* the lock nobody holds

ASSUME LogWritersAssumption == NoWriter \notin Writers
ASSUME LogBoundsAssumption == MaxEvents \in Nat /\ MaxPage \in Nat \ {0}

VARIABLES
    file,     \* pipeline.jsonl, as pieces
    lock,     \* holder of pipeline.lock
    local,    \* events in the attempts' local logs
    done,     \* events whose write returned
    count,    \* per writer: events it began to write
    pc,       \* per writer: next step of its write
    seq,      \* per writer: sequence number of its record
    valid,    \* per writer: length of the complete records it found
    cursor,   \* per client: its EventCursor; anchor: its digest is the file's
    seen,     \* per client: the events its consumed lines begin and end with
    buffer,   \* per client: what the first read call of this page gave
    base,     \* per client: offset this page is read from
    mode      \* per client: idle, in follow, in read, or raised

writing == <<count, pc, seq, valid>>
reading == <<cursor, seen, buffer, base, mode>>
vars == <<file, lock, local, done, count, pc, seq, valid,
          cursor, seen, buffer, base, mode>>

Events == Writers \X (1..MaxEvents)
MaxSeq == MaxEvents * Cardinality(Writers)
Clients == Followers \cup Readers
Pieces == [ev : Events, seq : Nat, part : {"begin", "end"}]

(* EventCursor(): the beginning of the log.                                *)
NoCursor == [offset |-> 0, sequence |-> 0, anchor |-> TRUE]

TypeOK ==
    /\ file \in Seq(Pieces)
    /\ lock \in Writers \cup {NoWriter}
    /\ local \subseteq Events
    /\ done \subseteq Events
    /\ count \in [Writers -> 0..MaxEvents]
    /\ pc \in [Writers -> {"idle", "lock", "locate", "truncate", "begin", "end", "unlock"}]
    /\ seq \in [Writers -> Nat]
    /\ valid \in [Writers -> Nat]
    /\ cursor \in [Clients -> [offset : Nat, sequence : Nat, anchor : BOOLEAN]]
    /\ seen \in [Clients -> Seq(Events \X Events)]
    /\ buffer \in [Clients -> Seq(Pieces)]
    /\ base \in [Clients -> Nat]
    /\ mode \in [Clients -> {"idle", "follow", "read", "raised"}]

Init ==
    /\ file = <<>>
    /\ lock = NoWriter
    /\ local = {}
    /\ done = {}
    /\ count = [w \in Writers |-> 0]
    /\ pc = [w \in Writers |-> "idle"]
    /\ seq = [w \in Writers |-> 0]
    /\ valid = [w \in Writers |-> 0]
    /\ cursor = [r \in Clients |-> NoCursor]
    /\ seen = [r \in Clients |-> <<>>]
    /\ buffer = [r \in Clients |-> <<>>]
    /\ base = [r \in Clients |-> 0]
    /\ mode = [r \in Clients |-> "idle"]

-----------------------------------------------------------------------------
(* Lines. *)

(* Positions of the newlines.                                              *)
Ends(f) == {i \in 1..Len(f) : f[i].part = "end"}

(* Length of the complete lines: everything up to the last newline.        *)
ValidLength(f) == IF Ends(f) = {} THEN 0 ELSE Max(Ends(f))

(* The number of the line that ends at i.                                  *)
Line(f, i) == Cardinality({j \in Ends(f) : j <= i})

(* The record a complete line ends with, in the order of the lines.        *)
Records(f) ==
    [k \in 1..Cardinality(Ends(f)) |->
        LET i == CHOOSE j \in Ends(f) : Line(f, j) = k
        IN  <<f[i].ev, f[i].seq>>]

(* The line that ends at i is two pieces, and nothing is left before it.   *)
Framed(f, i) ==
    /\ i > 1
    /\ f[i - 1].part = "begin"
    /\ i > 2 => f[i - 2].part = "end"

(* They are the two pieces of one record.                                  *)
Whole(f, i) ==
    /\ Framed(f, i)
    /\ f[i - 1].ev = f[i].ev
    /\ f[i - 1].seq = f[i].seq

(* _valid_lines accepts: every complete line is a record, and they are     *)
(* numbered from first.                                                    *)
Valid(f, first) ==
    /\ \A i \in Ends(f) : Whole(f, i)
    /\ \A k \in 1..Len(Records(f)) : Records(f)[k][2] = first + k - 1

(* _valid_lines may accept: a line of two records raises as a rule, but it *)
(* is asked for no more than JSON with the expected number, and where the  *)
(* first record broke off decides whether it is that.                      *)
MayAccept(f, first) ==
    \A i \in Ends(f) :
        /\ Framed(f, i)
        /\ Whole(f, i) => f[i].seq = first + Line(f, i) - 1

(* _append_position: the number after the last complete record.            *)
NextSequence(f) == IF ValidLength(f) = 0 THEN 1 ELSE f[ValidLength(f)].seq + 1

-----------------------------------------------------------------------------
(* Writers. *)

Event(w) == <<w, count[w]>>
Piece(w, part) == [ev |-> Event(w), seq |-> seq[w], part |-> part]
Goto(w, step) == pc' = [pc EXCEPT ![w] = step]

(* EventLog.write appends to the local log, then calls the run log.        *)
WriteLocal(w) ==
    /\ pc[w] = "idle"
    /\ count[w] < MaxEvents
    /\ count' = [count EXCEPT ![w] = @ + 1]
    /\ local' = local \cup {<<w, count[w] + 1>>}
    /\ Goto(w, "lock")
    /\ UNCHANGED <<file, lock, done, seq, valid, reading>>

Acquire(w) ==
    /\ pc[w] = "lock"
    /\ lock = NoWriter
    /\ lock' = w
    /\ Goto(w, "locate")
    /\ UNCHANGED <<file, local, done, count, seq, valid, reading>>

(* Mutation: the incomplete final line is not looked for.                  *)
LocateUnrecovered(w) ==
    /\ pc[w] = "locate"
    /\ seq' = [seq EXCEPT ![w] = NextSequence(file)]
    /\ valid' = [valid EXCEPT ![w] = ValidLength(file)]
    /\ Goto(w, "begin")
    /\ UNCHANGED <<file, lock, local, done, count, reading>>

(* _append_position.  Complete lines that do not parse raise; LogValid     *)
(* says that there are none.                                               *)
Locate(w) ==
    /\ pc[w] = "locate"
    /\ Valid(file, 1)
    /\ seq' = [seq EXCEPT ![w] = NextSequence(file)]
    /\ valid' = [valid EXCEPT ![w] = ValidLength(file)]
    /\ Goto(w, IF Len(file) > ValidLength(file) THEN "truncate" ELSE "begin")
    /\ UNCHANGED <<file, lock, local, done, count, reading>>

(* Mutation: the last complete record is cut off with the torn one.        *)
TruncateRecord(w) ==
    /\ pc[w] = "truncate"
    /\ file' = SubSeq(file, 1, IF valid[w] > 1 THEN valid[w] - 2 ELSE 0)
    /\ Goto(w, "begin")
    /\ UNCHANGED <<lock, local, done, count, seq, valid, reading>>

Truncate(w) ==
    /\ pc[w] = "truncate"
    /\ file' = SubSeq(file, 1, valid[w])
    /\ Goto(w, "begin")
    /\ UNCHANGED <<lock, local, done, count, seq, valid, reading>>

(* The append, seen by others as two writes.                               *)
AppendBegin(w) ==
    /\ pc[w] = "begin"
    /\ file' = Append(file, Piece(w, "begin"))
    /\ Goto(w, "end")
    /\ UNCHANGED <<lock, local, done, count, seq, valid, reading>>

(* Mutation: the record is appended again when its end is not confirmed.   *)
AppendEndTwice(w) ==
    /\ pc[w] = "end"
    /\ file' = Append(file, Piece(w, "end"))
    /\ \E next \in {"unlock", "locate"} : Goto(w, next)
    /\ UNCHANGED <<lock, local, done, count, seq, valid, reading>>

AppendEnd(w) ==
    /\ pc[w] = "end"
    /\ file' = Append(file, Piece(w, "end"))
    /\ Goto(w, "unlock")
    /\ UNCHANGED <<lock, local, done, count, seq, valid, reading>>

Return(w) ==
    /\ pc[w] = "unlock"
    /\ lock' = NoWriter
    /\ done' = done \cup {Event(w)}
    /\ Goto(w, "idle")
    /\ UNCHANGED <<file, local, count, seq, valid, reading>>

(* The write ends early: the process dies, thirty seconds pass without the *)
(* lock, the record is over its bound or the device is full.               *)
Abandon(w) ==
    /\ pc[w] # "idle"
    /\ lock' = IF lock = w THEN NoWriter ELSE lock
    /\ Goto(w, "idle")
    /\ UNCHANGED <<file, local, done, count, seq, valid, reading>>

-----------------------------------------------------------------------------
(* Readers. *)

(* A line that begins with one record and ends with another.               *)
Mixed(lines) == \E k \in 1..Len(lines) : lines[k][1] # lines[k][2]

(* The cursor follow goes on from, and what its consumer then holds: an    *)
(* anchor that is not the file's resets both.                              *)
Cursor(r) == IF cursor[r].anchor THEN cursor[r] ELSE NoCursor
Derived(r) == IF cursor[r].anchor THEN seen[r] ELSE <<>>

(* Mutation: a follower that raised does not poll again.                   *)
BeginFollowOnce(r) ==
    /\ mode[r] = "idle"
    /\ mode' = [mode EXCEPT ![r] = "follow"]
    /\ base' = [base EXCEPT ![r] = Cursor(r).offset]
    /\ buffer' = [buffer EXCEPT ![r] = SubSeq(file, Cursor(r).offset + 1, Len(file))]
    /\ UNCHANGED <<file, lock, local, done, writing, cursor, seen>>

(* follow: the generation is checked, the first bytes after the cursor are *)
(* read.  The log is never replaced and never cut below a cursor           *)
(* (FollowerPrefix): only the anchor can reset it.                         *)
BeginFollow(r) ==
    /\ mode[r] \in {"idle", "raised"}
    /\ mode' = [mode EXCEPT ![r] = "follow"]
    /\ base' = [base EXCEPT ![r] = Cursor(r).offset]
    /\ buffer' = [buffer EXCEPT ![r] = SubSeq(file, Cursor(r).offset + 1, Len(file))]
    /\ UNCHANGED <<file, lock, local, done, writing, cursor, seen>>

(* read: the whole file.                                                   *)
BeginRead(r) ==
    /\ mode[r] \in {"idle", "raised"}
    /\ mode' = [mode EXCEPT ![r] = "read"]
    /\ base' = [base EXCEPT ![r] = 0]
    /\ buffer' = [buffer EXCEPT ![r] = file]
    /\ UNCHANGED <<file, lock, local, done, writing, cursor, seen>>

(* The incomplete line the first call met is no longer in the file.        *)
Replaced(r) ==
    LET n == base[r] + Len(buffer[r])
    IN  /\ buffer[r] # <<>>
        /\ buffer[r][Len(buffer[r])].part = "begin"
        /\ ~(n <= Len(file) /\ file[n] = buffer[r][Len(buffer[r])])

(* Where the second call goes on.  Lines differ in length, so the byte it  *)
(* asks for may lie in the line written over the incomplete one, in any    *)
(* later one, or past all complete lines.                                  *)
Resume(r) ==
    LET n == base[r] + Len(buffer[r])
    IN  IF Replaced(r)
        THEN {i \in Ends(file) : i > n} \cup {Len(file) + 1}
        ELSE {n + 1}

(* What the page holds after the second call.                              *)
Page(r, p) == buffer[r] \o SubSeq(file, p, Len(file))

(* follow stops after MaxPage records, so it does not look further.        *)
PageLength(r, p) ==
    LET ends == {i \in Ends(Page(r, p)) : Line(Page(r, p), i) <= MaxPage}
    IN  IF ends = {} THEN 0 ELSE Max(ends)

Taken(r, p) == SubSeq(Page(r, p), 1, PageLength(r, p))

(* The events its lines begin and end with.                                *)
PageRecords(r, p) ==
    [k \in 1..Cardinality(Ends(Taken(r, p))) |->
        LET i == CHOOSE j \in Ends(Taken(r, p)) : Line(Taken(r, p), j) = k
        IN  <<Taken(r, p)[i - 1].ev, Taken(r, p)[i].ev>>]

(* Mutation: the cursor also passes an incomplete line.                    *)
PageOffsetTorn(r, p) == base[r] + Len(Page(r, p))

(* The offset in the file after them, never past an incomplete line.       *)
PageOffset(r, p) ==
    IF PageLength(r, p) <= Len(buffer[r])
    THEN base[r] + PageLength(r, p)
    ELSE p - 1 + PageLength(r, p) - Len(buffer[r])

(* The new anchor is taken from the stream, which may still hold the bytes *)
(* of the first call: with a mix of records it may not be the file's.      *)
EndFollow(r) ==
    /\ mode[r] = "follow"
    /\ \E p \in Resume(r) :
        \/ /\ MayAccept(Taken(r, p), Cursor(r).sequence + 1)
           /\ \E anchor \in {TRUE, ~Mixed(PageRecords(r, p))} :
                cursor' = [cursor EXCEPT ![r] =
                            [offset |-> PageOffset(r, p),
                             sequence |-> Cursor(r).sequence + Len(PageRecords(r, p)),
                             anchor |-> anchor]]
           /\ seen' = [seen EXCEPT ![r] = Derived(r) \o PageRecords(r, p)]
           /\ mode' = [mode EXCEPT ![r] = "idle"]
        \/ /\ ~Valid(Taken(r, p), Cursor(r).sequence + 1)
           /\ mode' = [mode EXCEPT ![r] = "raised"]
           /\ UNCHANGED <<cursor, seen>>
    /\ buffer' = [buffer EXCEPT ![r] = <<>>]
    /\ base' = [base EXCEPT ![r] = 0]
    /\ UNCHANGED <<file, lock, local, done, writing>>

EndRead(r) ==
    /\ mode[r] = "read"
    /\ \E p \in Resume(r) :
        \/ MayAccept(Page(r, p), 1) /\ mode' = [mode EXCEPT ![r] = "idle"]
        \/ ~Valid(Page(r, p), 1) /\ mode' = [mode EXCEPT ![r] = "raised"]
    /\ buffer' = [buffer EXCEPT ![r] = <<>>]
    /\ base' = [base EXCEPT ![r] = 0]
    /\ UNCHANGED <<file, lock, local, done, writing, cursor, seen>>

-----------------------------------------------------------------------------

Write(w) ==
    \/ Acquire(w) \/ Locate(w) \/ Truncate(w)
    \/ AppendBegin(w) \/ AppendEnd(w) \/ Return(w)

Follow(r) == BeginFollow(r) \/ EndFollow(r)

Next ==
    \/ \E w \in Writers : WriteLocal(w) \/ Write(w) \/ Abandon(w)
    \/ \E r \in Followers : Follow(r)
    \/ \E r \in Readers : BeginRead(r) \/ EndRead(r)

Spec == Init /\ [][Next]_vars

(* A follower polls for as long as the run lives.                          *)
FairSpec == Spec /\ \A r \in Followers : WF_vars(Follow(r))

-----------------------------------------------------------------------------
(* Properties. *)

(* Whatever writers died in the middle of a record, every complete line of *)
(* the file is one whole record and the lines are numbered 1, 2, 3, ...    *)
LogValid == Valid(file, 1)

(* No complete record is ever cut off, replaced or renumbered: the next    *)
(* writer's recovery removes only an incomplete final line.                *)
NothingLost == [][IsPrefix(Records(file), Records(file'))]_vars

(* An event whose write returned is in the run log exactly once; one whose *)
(* write was abandoned is there at most once; and the run log holds no     *)
(* event that the local log does not hold.                                 *)
MirroredOnce ==
    LET logged(e) == {i \in 1..Len(Records(file)) : Records(file)[i][1] = e}
    IN  \A e \in Events :
          /\ e \in done => logged(e) # {}
          /\ Cardinality(logged(e)) <= 1
          /\ logged(e) # {} => e \in local

(* A follower consumes the records of the log in order, none left out and  *)
(* none twice, as many as its cursor says, and its offset is the end of    *)
(* the last of them.  The one way to go astray is a line of two records:   *)
(* it ends with a record of the log and begins with an event that the log  *)
(* does not have; only then may the offset have passed more lines than     *)
(* were consumed, and even then it is the end of a complete one.           *)
FollowerPrefix == \A r \in Followers :
    LET log == Records(file) IN
    /\ Len(seen[r]) = cursor[r].sequence
    /\ \A k \in 1..Len(seen[r]) :
        IF seen[r][k][1] = seen[r][k][2]
        THEN k <= Len(log) /\ seen[r][k][1] = log[k][1]
        ELSE /\ \A i \in 1..Len(log) : log[i][1] # seen[r][k][1]
             /\ \E i \in 1..Len(log) : log[i][1] = seen[r][k][2]
    /\ \E n \in Len(seen[r])..Len(log) :
        /\ cursor[r].offset = 2 * n
        /\ ~Mixed(seen[r]) => n = Len(seen[r])

(* A follower that keeps polling meets every complete record in the end,   *)
(* also after a page that raised, unless it consumed a line of two         *)
(* records: it may have passed the ones in between, and raises from then   *)
(* on.                                                                     *)
FollowerCatchesUp == \A r \in Followers : \A k \in 1..MaxSeq :
    (Len(Records(file)) >= k) ~> (Len(seen[r]) >= k \/ Mixed(seen[r]))

(* The stream is process-safe for readers: a reader that takes no lock     *)
(* never meets a malformed complete record.                                *)
ReadersNeverRaise == \A r \in Clients : mode[r] # "raised"

=============================================================================
