------------------------------ MODULE LogStore ------------------------------
(***************************************************************************)
(* The log of the host on its way to SQLite, and its pruning               *)
(* (src/src/logger/sqlite-stream.ts, pruner.ts, and the handlers at the    *)
(* end of src/src/logger.ts).                                              *)
(*                                                                         *)
(* An entry is its number and its day.  The file is as large as the most   *)
(* rows it has held since the last VACUUM: SQLite keeps freed pages.       *)
(* Bounds: Entries, Days.  FlushSize is 50, Retention retentionDays,       *)
(* MaxRows maxSizeMb.                                                      *)
(***************************************************************************)
EXTENDS Naturals, Sequences, FiniteSets, SequencesExt

CONSTANTS Entries, Days, FlushSize, Retention, MaxRows

ASSUME LogAssumption ==
  /\ Entries \in Nat /\ Days \in Nat /\ Retention \in Nat /\ MaxRows \in Nat
  /\ FlushSize \in Nat \ {0, 1}

VARIABLES
  logged,   \* the entries logged so far: the day of each
  today,
  unwritten,  \* rows not written yet
  rows,     \* the table
  pages,    \* the size of the file
  logHost,  \* "up", "dying" (exit in 200 ms) or "down"
  lost,     \* history: entries of a batch that was refused, or in the buffer at exit
  pruned,   \* history: entries the pruner deleted
  forSize   \* history: of them, those it deleted for the size of the file

logVars == <<logged, today, unwritten, rows, pages, logHost, lost, pruned, forSize>>

LogInit ==
  /\ logged = <<>> /\ today = 0
  /\ unwritten = <<>> /\ rows = <<>> /\ pages = 0
  /\ logHost = "up"
  /\ lost = {} /\ pruned = {} /\ forSize = {}

-----------------------------------------------------------------------------
(* An operator X_Y is X with a bug Y planted in it. *)

Numbers(s) == {s[i].no : i \in 1..Len(s)}
Larger(a, b) == IF a < b THEN b ELSE a

\* flush: the buffer is emptied first, then its rows are inserted in one transaction.
Inserted_Newest(batch) == Reverse(batch) \o rows
Inserted(batch) == rows \o batch
Flushes(batch) ==
  /\ unwritten' = <<>>
  /\ rows' = Inserted(batch)
  /\ pages' = Larger(pages, Len(rows'))
  /\ UNCHANGED lost
FlushRefused(batch) ==
  /\ unwritten' = <<>>
  /\ lost' = lost \cup Numbers(batch)
  /\ UNCHANGED <<rows, pages>>

Full_Beyond(b) == Len(b) > FlushSize
Full(b) == Len(b) >= FlushSize

LogEntry == [no |-> Len(logged) + 1, day |-> today]

\* An entry is written to the stream; a flush that fails in there is swallowed.
Writes ==
  LET b == Append(unwritten, LogEntry)
  IN /\ logged' = Append(logged, today)
     /\ IF Full(b) THEN Flushes(b) \/ FlushRefused(b)
        ELSE unwritten' = b /\ UNCHANGED <<rows, pages, lost>>
Logs ==
  /\ logHost # "down" /\ Len(logged) < Entries
  /\ Writes
  /\ UNCHANGED <<today, logHost, pruned, forSize>>

\* The timer, every 100 ms.
TimerFlushes ==
  /\ logHost # "down" /\ unwritten # <<>>
  /\ Flushes(unwritten)
  /\ UNCHANGED <<logged, today, logHost, pruned, forSize>>

\* A failure in there is an uncaught exception, which is logged, and the host exits; in
\* the 200 ms until then the timer flushes what it can.
TimerFails ==
  /\ logHost # "down" /\ unwritten # <<>> /\ Len(logged) < Entries
  /\ unwritten' = <<LogEntry>>
  /\ logged' = Append(logged, today)
  /\ lost' = lost \cup Numbers(unwritten)
  /\ logHost' = "dying"
  /\ UNCHANGED <<today, rows, pages, pruned, forSize>>

\* process.exit runs no beforeExit handler: the buffer is lost.
LogExits ==
  /\ logHost # "down"
  /\ logHost' = "down"
  /\ lost' = lost \cup Numbers(unwritten)
  /\ unwritten' = <<>>
  /\ UNCHANGED <<logged, today, rows, pages, pruned, forSize>>

Restarts ==
  /\ logHost = "down"
  /\ logHost' = "up"
  /\ UNCHANGED <<logged, today, unwritten, rows, pages, lost, pruned, forSize>>

DayPasses ==
  /\ today < Days
  /\ today' = today + 1
  /\ UNCHANGED <<logged, unwritten, rows, pages, logHost, lost, pruned, forSize>>

-----------------------------------------------------------------------------
(* runPrune *)

\* The times are compared as text, "...T..." with "... ...": a row is old only when its
\* day is over.
Old_SameDay(r) == r.day + Retention <= today
Old(r) == r.day + Retention < today

\* What DELETE ... WHERE time < ... leaves of the table, in its order.
Young ==
  LET recent == {r \in ToSet(rows) : ~Old(r)}
      young[i \in 0..Len(rows)] ==
        IF i = 0 THEN <<>>
        ELSE IF rows[i] \in recent THEN Append(young[i - 1], rows[i]) ELSE young[i - 1]
  IN young[Len(rows)]

\* A fifth, rounded up, of the oldest.
Fifth(s) == (Len(s) + 4) \div 5
WithoutOldest_Newest(s) == SubSeq(s, 1, Len(s) - Fifth(s))
WithoutOldest(s) == SubSeq(s, Fifth(s) + 1, Len(s))

TooBig == pages > MaxRows

Prunes ==
  /\ logHost # "down"
  /\ LET kept == IF TooBig THEN WithoutOldest(Young) ELSE Young
         byTime == Len(rows) - Len(Young)
     IN /\ rows' = kept
        /\ pruned' = pruned \cup (Numbers(rows) \ Numbers(kept))
        /\ forSize' = forSize \cup (Numbers(Young) \ Numbers(kept))
        /\ pages' = IF kept # <<>> /\ 10 * byTime > Len(kept) + byTime THEN Len(kept) ELSE pages
  /\ UNCHANGED <<logged, today, unwritten, logHost, lost>>

LogNext ==
  \/ Logs \/ TimerFlushes \/ TimerFails \/ LogExits \/ Restarts \/ DayPasses \/ Prunes

LogSpec == LogInit /\ [][LogNext]_logVars

-----------------------------------------------------------------------------
(* Properties *)

InTable == Numbers(rows)

\* Every entry is in the table, in the buffer, lost with a batch that was refused or at an
\* exit, or pruned; and the table has them once and in order.
EntriesAccounted ==
  /\ 1..Len(logged) = InTable \cup Numbers(unwritten) \cup lost \cup pruned
  /\ \A i \in 1..(Len(rows) - 1) : rows[i].no < rows[i + 1].no

\* What is pruned is the oldest, and nothing goes before the retention is over unless the
\* file was too large.
OldestPruned ==
  /\ \A p \in pruned, s \in InTable : p < s
  /\ \A p \in pruned \ forSize : logged[p] + Retention < today

\* Entries never pile up in memory.
BufferBounded == Len(unwritten) < FlushSize

LogCorrect == EntriesAccounted /\ OldestPruned /\ BufferBounded

=============================================================================
