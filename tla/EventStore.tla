----------------------------- MODULE EventStore -----------------------------
(***************************************************************************)
(* The single-writer, crash-safe, append-only log of src/event_store:      *)
(* store.py (open, append, close, the recovery scan), codec.py (record     *)
(* framing) and _locking.py (the exclusive lock).                          *)
(*                                                                         *)
(* The file is a sequence of cells.  A record is three cells, written in   *)
(* this order: its header (magic, version, id, length), its payload, its   *)
(* checksum.  A write may stop after any cell, a crash may keep any part   *)
(* of what was written since the last fsync.  The descriptor is opened     *)
(* with O_APPEND: a write goes to the end of the file and leaves the       *)
(* descriptor's offset there, while ftruncate leaves the offset alone.     *)
(***************************************************************************)
EXTENDS Integers, Sequences, FiniteSets

CONSTANTS Proc,         \* processes that may open the store
          NoProc,       \* nobody holds the lock
          Key, NoKey,   \* idempotency keys, and an append without one
          MaxEvents,    \* bound: events a run may append
          MaxFailures   \* bound: appends that may fail in a row in a process

ASSUME ConstAssumption ==
    /\ NoProc \notin Proc
    /\ NoKey \notin Key
    /\ MaxEvents \in Nat
    /\ MaxFailures \in Nat

VARIABLES
  file,      \* the cells of the log file, as the operating system shows them
  synced,    \* how many of them the last fsync made durable
  lock,      \* the process that holds the exclusive lock
  st,        \* st[p]: "closed", "open" or "writing" (inside append)
  mem,       \* mem[p]: _events; the two indexes are functions of it
  pos,       \* pos[p]: the offset of p's file descriptor
  pre,       \* pre[p]: pre_write_offset of the append in progress
  wrote,     \* wrote[p]: cells of its record already written
  cur,       \* cur[p]: the event being appended
  failures,  \* failures[p]: appends that failed since the last that did not
  acked      \* history: the events append() has returned to a caller

disk == <<file, synced>>
session == <<st, mem, pos, pre, wrote, cur, failures>>
vars == <<file, synced, lock, st, mem, pos, pre, wrote, cur, failures, acked>>

Event == [id : Nat \ {0}, key : Key \cup {NoKey}]
NoEvent == [id |-> 0, key |-> NoKey]

-----------------------------------------------------------------------------
(* codec.py: framing *)

Header == 1
Payload == 2
Checksum == 3
Garbled == 4      \* a checksum whose bytes an interrupted flush spoiled
RecordLen == 3

Cell(e, part) == [id |-> e.id, key |-> e.key, part |-> part]
Hole == Cell(NoEvent, 0)   \* the zero bytes ftruncate extends a file with

(* decode_record succeeds on the i-th record of f: it is all there and its *)
(* checksum is that of the header and payload before it.                   *)
RecordOk(f, i) ==
    /\ 3 * i <= Len(f)
    /\ f[3 * i - 2].part = Header
    /\ f[3 * i - 1] = Cell(f[3 * i - 2], Payload)
    /\ f[3 * i] = Cell(f[3 * i - 2], Checksum)

EventAt(f, i) == [id |-> f[3 * i - 2].id, key |-> f[3 * i - 2].key]

(* store.py _scan_file *)

NumOk(f) == CHOOSE n \in 0..Len(f) :
              /\ \A i \in 1..n : RecordOk(f, i)
              /\ ~ RecordOk(f, n + 1)

Recovered(f) == [i \in 1..NumOk(f) |-> EventAt(f, i)]

Monotonic(f) ==
    \A i \in 1..NumOk(f) - 1 : EventAt(f, i).id < EventAt(f, i + 1).id

(* What the bytes after the last good record are.  "torn" is what a crash  *)
(* can leave and open cuts off; anything else makes open refuse the file.  *)
ScanStatus(f) ==
    LET n == NumOk(f)
        rest == Len(f) - RecordLen * n
    IN  IF ~ Monotonic(f) THEN "corrupt"
        ELSE IF rest = 0 THEN "clean"
        ELSE IF f[RecordLen * n + 1].part # Header THEN "corrupt"
        ELSE IF rest <= RecordLen THEN "torn"
        ELSE "corrupt"

-----------------------------------------------------------------------------
Init ==
    /\ file = <<>>
    /\ synced = 0
    /\ lock = NoProc
    /\ st = [p \in Proc |-> "closed"]
    /\ mem = [p \in Proc |-> <<>>]
    /\ pos = [p \in Proc |-> 0]
    /\ pre = [p \in Proc |-> 0]
    /\ wrote = [p \in Proc |-> 0]
    /\ cur = [p \in Proc |-> NoEvent]
    /\ failures = [p \in Proc |-> 0]
    /\ acked = {}

(* acquire_exclusive_nonblocking succeeds; when it does not, __init__      *)
(* raises EventStoreLockError and nothing changes.                         *)
LockFree == lock = NoProc

(* Slip: a torn tail makes open start over with an empty file. *)
OpenDropsLog(p) ==
    LET kept == IF ScanStatus(file) = "torn" THEN <<>> ELSE file
    IN  /\ st[p] = "closed"
        /\ LockFree
        /\ ScanStatus(file) # "corrupt"
        /\ lock' = p
        /\ file' = kept
        /\ synced' = Len(kept)
        /\ st' = [st EXCEPT ![p] = "open"]
        /\ mem' = [mem EXCEPT ![p] = Recovered(kept)]
        /\ pos' = [pos EXCEPT ![p] = Len(kept)]
        /\ failures' = [failures EXCEPT ![p] = 0]
        /\ UNCHANGED <<pre, wrote, cur, acked>>

(* EventStore.__init__: lock, scan, cut off a torn tail, seek to the end,  *)
(* rebuild the indexes.  A corrupt file makes it raise and release.        *)
Open(p) ==
    LET kept == SubSeq(file, 1, RecordLen * NumOk(file))
    IN  /\ st[p] = "closed"
        /\ LockFree
        /\ ScanStatus(file) # "corrupt"
        /\ lock' = p
        /\ file' = kept
        /\ synced' = Len(kept)
        /\ st' = [st EXCEPT ![p] = "open"]
        /\ mem' = [mem EXCEPT ![p] = Recovered(file)]
        /\ pos' = [pos EXCEPT ![p] = Len(kept)]
        /\ failures' = [failures EXCEPT ![p] = 0]
        /\ UNCHANGED <<pre, wrote, cur, acked>>

KeysOf(events) == {events[i].key : i \in 1..Len(events)} \ {NoKey}

NextId(events) == IF events = <<>> THEN 1 ELSE events[Len(events)].id + 1

Spent(key, events) == key \in KeysOf(events)

(* append with a key already in _idempotency_index: the old event again.   *)
AppendKnown(p, key) ==
    /\ st[p] = "open"
    /\ Spent(key, mem[p])
    /\ acked' = acked \cup {mem[p][i] : i \in {j \in 1..Len(mem[p]) : mem[p][j].key = key}}
    /\ UNCHANGED <<disk, lock, session>>

(* append with a new key or none, up to the first byte written.            *)
BeginAppend(p, key) ==
    /\ st[p] = "open"
    /\ ~ Spent(key, mem[p])
    /\ Len(mem[p]) < MaxEvents
    /\ cur' = [cur EXCEPT ![p] = [id |-> NextId(mem[p]), key |-> key]]
    /\ pre' = [pre EXCEPT ![p] = pos[p]]
    /\ wrote' = [wrote EXCEPT ![p] = 0]
    /\ st' = [st EXCEPT ![p] = "writing"]
    /\ UNCHANGED <<disk, lock, mem, pos, failures, acked>>

(* _write_full: one more piece of the record reaches the end of the file.  *)
WriteCell(p) ==
    /\ st[p] = "writing"
    /\ wrote[p] < RecordLen
    /\ file' = Append(file, Cell(cur[p], wrote[p] + 1))
    /\ pos' = [pos EXCEPT ![p] = Len(file) + 1]
    /\ wrote' = [wrote EXCEPT ![p] = @ + 1]
    /\ UNCHANGED <<synced, lock, st, mem, pre, cur, failures, acked>>

(* Slip: append returns without fsync. *)
CommitUnsynced(p) ==
    /\ st[p] = "writing"
    /\ wrote[p] = RecordLen
    /\ mem' = [mem EXCEPT ![p] = Append(@, cur[p])]
    /\ acked' = acked \cup {cur[p]}
    /\ failures' = [failures EXCEPT ![p] = 0]
    /\ st' = [st EXCEPT ![p] = "open"]
    /\ UNCHANGED <<file, synced, lock, pos, pre, wrote, cur>>

(* fsync succeeds; only now do the event enter memory and append return.   *)
Commit(p) ==
    /\ st[p] = "writing"
    /\ wrote[p] = RecordLen
    /\ synced' = Len(file)
    /\ mem' = [mem EXCEPT ![p] = Append(@, cur[p])]
    /\ acked' = acked \cup {cur[p]}
    /\ failures' = [failures EXCEPT ![p] = 0]
    /\ st' = [st EXCEPT ![p] = "open"]
    /\ UNCHANGED <<file, lock, pos, pre, wrote, cur>>

(* Slip: a failed append does not roll back. *)
NoRollback(f, len) == f

(* ftruncate: cuts a longer file, extends a shorter one with zeros.        *)
Truncate(f, len) == [i \in 1..len |-> IF i <= Len(f) THEN f[i] ELSE Hole]

(* write or fsync raises (a full disk, say): roll back to pre_write_offset *)
(* and re-raise.  The descriptor's offset stays where the write left it.   *)
FailAppend(p) ==
    /\ st[p] = "writing"
    /\ failures[p] < MaxFailures
    /\ file' = Truncate(file, pre[p])
    /\ synced' = pre[p]
    /\ failures' = [failures EXCEPT ![p] = @ + 1]
    /\ st' = [st EXCEPT ![p] = "open"]
    /\ UNCHANGED <<lock, mem, pos, pre, wrote, cur, acked>>

Forget(p) ==
    /\ lock' = NoProc
    /\ st' = [st EXCEPT ![p] = "closed"]
    /\ mem' = [mem EXCEPT ![p] = <<>>]
    /\ pos' = [pos EXCEPT ![p] = 0]
    /\ pre' = [pre EXCEPT ![p] = 0]
    /\ wrote' = [wrote EXCEPT ![p] = 0]
    /\ cur' = [cur EXCEPT ![p] = NoEvent]
    /\ failures' = [failures EXCEPT ![p] = 0]
    /\ UNCHANGED acked

(* close: engine_lock keeps it from running inside an append.              *)
Close(p) ==
    /\ st[p] = "open"
    /\ Forget(p)
    /\ UNCHANGED disk

(* What is left of f after a crash when s cells of it were durable: any    *)
(* part of what was written after them, byte-exact, but for the checksum   *)
(* an interrupted flush may have spoiled.                                  *)
Spoiled(f) == [f EXCEPT ![Len(f)] = [@ EXCEPT !.part = Garbled]]

AfterCrash(f, s) ==
    LET prefixes == {SubSeq(f, 1, n) : n \in s..Len(f)}
    IN  prefixes \cup
        {Spoiled(g) : g \in {h \in prefixes :
                               Len(h) > s /\ h[Len(h)].part = Checksum}}

(* The process dies, or the machine does; the lock goes with it.           *)
Crash(p) ==
    /\ st[p] # "closed"
    /\ Forget(p)
    /\ file' \in AfterCrash(file, synced)
    /\ synced' = Len(file')

Next ==
    \E p \in Proc :
        \/ Open(p)
        \/ \E key \in Key : AppendKnown(p, key)
        \/ \E key \in Key \cup {NoKey} : BeginAppend(p, key)
        \/ WriteCell(p)
        \/ Commit(p)
        \/ FailAppend(p)
        \/ Close(p)
        \/ Crash(p)

Spec == Init /\ [][Next]_vars

-----------------------------------------------------------------------------
(* Properties *)

(* Whatever crashes and failed writes leave behind, the file can be opened *)
(* again, and read_events, which takes no lock, never reports corruption   *)
(* while another process is in the middle of an append.                    *)
AlwaysReadable == ScanStatus(file) # "corrupt"

Durable == Recovered(SubSeq(file, 1, synced))

(* An event that append() returned is on disk, fsynced, where the recovery *)
(* scan finds it: no crash, failed append or re-open ever takes it away.   *)
AckedIsDurable == acked \subseteq {Durable[i] : i \in 1..Len(Durable)}

(* The store implements the log the engine relies on. *)
DurableLog == INSTANCE EventLog WITH log <- Durable
ImplementsEventLog == DurableLog!Spec
=============================================================================
