------------------------------ MODULE AuditLog ------------------------------
(***************************************************************************)
(* The hash-chained JSONL log of crates/lockrail-audit.  Relay handlers,   *)
(* the command line and the proxy append to one file under an advisory     *)
(* lock; `lockrail audit verify` reads it with no lock.  An append is two  *)
(* writes (the row, then its newline), and the row may reach the file in   *)
(* pieces: a reader may meet half a row, and a writer that is cut short (a *)
(* crash, a full disk) may leave one, or a row with no newline.            *)
(***************************************************************************)
EXTENDS Integers, Sequences

CONSTANTS
  Writer,     \* threads of the processes that append
  Event,      \* what is appended: each event once
  Genesis,    \* GENESIS_HASH
  Free        \* the lock nobody holds

ASSUME AuditAssumption == Free \notin Writer

Bad == [parses |-> FALSE]   \* a line that is no row

VARIABLES
  lines,     \* the lines of the file: rows, or Bad
  closed,    \* does the file end with a newline (or is it empty)
  lock,      \* audit.lock
  pc, draft, \* per writer: next step, the row it made
  used,      \* events some writer has started to append
  acked,     \* history: events whose append returned Ok, in that order
  cut,       \* history: some writer was cut short
  tampered   \* history: somebody edited the file

auditVars == <<lines, closed, lock, pc, draft, used, acked, cut, tampered>>

\* event_hash: collisions left aside, a hash is its preimage
EventHash(row) == <<row.seq, row.body, row.prev>>

\* read_all: every line parses
Readable(ls) == \A i \in 1..Len(ls) : ls[i] # Bad

LastHash(ls) == IF ls = <<>> THEN Genesis ELSE ls[Len(ls)].hash

NextRow(ls, e) ==
  LET row == [seq |-> Len(ls) + 1, body |-> e, prev |-> LastHash(ls)] IN
  [seq |-> row.seq, body |-> e, prev |-> row.prev, hash |-> EventHash(row)]

\* verify does not look at the rows' own hashes
RowOkUnhashed(ls, i) ==   \* faulty
  /\ ls[i].seq = i
  /\ ls[i].prev = IF i = 1 THEN Genesis ELSE ls[i - 1].hash

\* verify, at row i
RowOk(ls, i) ==
  /\ ls[i].seq = i
  /\ ls[i].prev = IF i = 1 THEN Genesis ELSE ls[i - 1].hash
  /\ ls[i].hash = EventHash(ls[i])

\* verify returns Ok((true, _)); an unreadable log is an error instead
VerifyOk(ls) == Readable(ls) /\ \A i \in 1..Len(ls) : RowOk(ls, i)

\* text written at the end of the file: a new line, or more of the last one
Written(x) ==
  IF closed THEN Append(lines, x) ELSE [lines EXCEPT ![Len(lines)] = Bad]

AuditInit ==
  /\ lines = <<>> /\ closed = TRUE /\ lock = Free
  /\ pc = [w \in Writer |-> "idle"]
  /\ draft = [w \in Writer |-> Bad]
  /\ used = {} /\ acked = <<>>
  /\ cut = FALSE /\ tampered = FALSE

CanAlwaysLock == lock \in {Free} \cup Writer   \* faulty: no lock is taken

CanLock == lock = Free

OpenUnread(w, e) ==   \* faulty: unreadable rows are skipped
  LET rows == SelectSeq(lines, LAMBDA l : l # Bad) IN
  /\ pc[w] = "idle" /\ e \notin used /\ CanLock
  /\ used' = used \cup {e}
  /\ lock' = w
  /\ draft' = [draft EXCEPT ![w] = NextRow(rows, e)]
  /\ pc' = [pc EXCEPT ![w] = "row"]
  /\ UNCHANGED <<lines, closed, acked, cut, tampered>>

\* append takes the lock and reads the log: the new row continues its chain,
\* but when a line does not parse the append fails
Open(w, e) ==
  /\ pc[w] = "idle" /\ e \notin used /\ CanLock
  /\ used' = used \cup {e}
  /\ IF Readable(lines)
     THEN /\ lock' = w
          /\ draft' = [draft EXCEPT ![w] = NextRow(lines, e)]
          /\ pc' = [pc EXCEPT ![w] = "row"]
     ELSE UNCHANGED <<lock, draft, pc>>
  /\ UNCHANGED <<lines, closed, acked, cut, tampered>>

\* the first piece of the row: what there is of it does not parse yet, and on a
\* line somebody left unended it never will
WriteRow(w) ==
  /\ pc[w] = "row"
  /\ lines' = Written(Bad)
  /\ closed' = FALSE
  /\ pc' = [pc EXCEPT ![w] = IF closed THEN "rest" ELSE "newline"]
  /\ UNCHANGED <<lock, draft, used, acked, cut, tampered>>

\* the rest of the row
WriteRest(w) ==
  /\ pc[w] = "rest"
  /\ lines' = [lines EXCEPT ![Len(lines)] = draft[w]]
  /\ pc' = [pc EXCEPT ![w] = "newline"]
  /\ UNCHANGED <<closed, lock, draft, used, acked, cut, tampered>>

WriteNewline(w) ==
  /\ pc[w] = "newline"
  /\ closed' = TRUE
  /\ pc' = [pc EXCEPT ![w] = "sync"]
  /\ UNCHANGED <<lines, lock, draft, used, acked, cut, tampered>>

Release(w) ==
  /\ lock' = Free
  /\ draft' = [draft EXCEPT ![w] = Bad]
  /\ pc' = [pc EXCEPT ![w] = "idle"]

\* the file and its directory are synced, the event is returned
Sync(w) ==
  /\ pc[w] = "sync"
  /\ acked' = Append(acked, draft[w].body)
  /\ Release(w)
  /\ UNCHANGED <<lines, closed, used, cut, tampered>>

\* the writer crashes or a write fails: what it has written so far is in the
\* file, and the lock is dropped
CutShort(w) ==
  /\ pc[w] # "idle"
  /\ Release(w)
  /\ cut' = TRUE
  /\ UNCHANGED <<lines, closed, used, acked, tampered>>

\* somebody edits the file, once, not at its end alone, and does not recompute
\* the chain
Tamper ==
  /\ ~tampered /\ Readable(lines)
  /\ \/ \E i \in 1..Len(lines), e \in Event :
          /\ e # lines[i].body
          /\ lines' = [lines EXCEPT ![i].body = e]
     \/ \E i \in 1..(Len(lines) - 1) :
          lines' = SubSeq(lines, 1, i - 1) \o SubSeq(lines, i + 1, Len(lines))
     \/ \E i \in 1..(Len(lines) - 1) :
          lines' = [lines EXCEPT ![i] = lines[i + 1], ![i + 1] = lines[i]]
  /\ closed' = TRUE
  /\ tampered' = TRUE
  /\ UNCHANGED <<lock, pc, draft, used, acked, cut>>

AuditNext ==
  \/ \E w \in Writer, e \in Event : Open(w, e)
  \/ \E w \in Writer :
       WriteRow(w) \/ WriteRest(w) \/ WriteNewline(w) \/ Sync(w) \/ CutShort(w)
  \/ Tamper

AuditSpec == AuditInit /\ [][AuditNext]_auditVars

-----------------------------------------------------------------------------
\* The file is a sequence of rows and unparsable lines, and only the holder of
\* the lock is in the middle of an append.
AuditTypeOK ==
  /\ \A i \in 1..Len(lines) : lines[i] = Bad \/ lines[i].body \in Event
  /\ closed \in BOOLEAN /\ cut \in BOOLEAN /\ tampered \in BOOLEAN
  /\ lock \in {Free} \cup Writer
  /\ pc \in [Writer -> {"idle", "row", "rest", "newline", "sync"}]
  /\ \A w \in Writer : pc[w] # "idle" <=> lock = w
  /\ used \subseteq Event

Bodies == [i \in 1..Len(lines) |-> lines[i].body]

HalfWritten == \E w \in Writer : pc[w] = "rest"

\* audit verify, which takes no lock, raises no false alarm: while no writer is
\* cut short and nobody edits the file it accepts the log at every instant of
\* every append, save while a row is half written: then it cannot read that last
\* line, and what stands before it verifies.
VerifyAcceptsHonestLog ==
  ~cut /\ ~tampered =>
    VerifyOk(IF HalfWritten THEN SubSeq(lines, 1, Len(lines) - 1) ELSE lines)

\* In a log that can be read, the acknowledged events stand in the order they
\* were acknowledged, whatever unacknowledged rows stand between them.
AckedInOrder ==
  Readable(lines) /\ ~tampered =>
    \E f \in [1..Len(acked) -> 1..Len(lines)] :
      /\ \A i \in 1..Len(acked) : Bodies[f[i]] = acked[i]
      /\ \A i, j \in 1..Len(acked) : i < j => f[i] < f[j]

\* Appending never alters a line that was ended, and a line that does not parse,
\* other than the row being written, stays so and no append begins: an unreadable
\* log is shut, never restarted.
AppendOnlyOrShut ==
  [][\/ tampered'
     \/ LET kept == IF closed THEN Len(lines) ELSE Len(lines) - 1 IN
        /\ SubSeq(lines', 1, kept) = SubSeq(lines, 1, kept)
        /\ ~Readable(lines) =>
             /\ ~Readable(lines') \/ HalfWritten
             /\ \A w \in Writer : pc[w] = "idle" => pc'[w] = "idle"]_auditVars

\* Changing a row, removing one that is not the last or exchanging two makes
\* verify fail, then and after every later append.  (A log without its last rows
\* is a shorter honest log; nothing outside the file says how long it was.)
TamperingDetected == tampered => ~VerifyOk(lines)

=============================================================================
