----------------------------- MODULE Accounting ------------------------------
(***************************************************************************)
(* src/app/runtime/accounting.py: how venue fills become positions and     *)
(* ledger entries.  Every cycle fetches all fills and books each one in a  *)
(* series of durable appends to the position manager, the portfolio        *)
(* manager and its own order-to-position map; each append is skipped when  *)
(* its idempotency key is spent, so a pass that a crash cut short is made  *)
(* good by the next.  One action is one append: the process may die        *)
(* between any two.  engine_lock keeps everything else out.                *)
(*                                                                         *)
(* One instrument, long positions, one unit a fill, leverage 1.  Money is  *)
(* counted in 1/Scale units so that an average price is a whole number.    *)
(* Fills are booked in the order the venue lists them, which is not known: *)
(* any order.                                                              *)
(***************************************************************************)
EXTENDS PositionLifecycle, PortfolioLedger, Sequences, FiniteSets, SequencesExt

CONSTANTS EntryOrder,  \* orders that open a position
          ExitOrder,   \* reduce-only orders
          MaxQty,      \* bound: units an order asks for
          MaxPrice,    \* bound: prices are 1..MaxPrice
          MaxFills,    \* bound: fills at the venue
          MaxCrashes,  \* bound: crashes
          Fee,         \* fee of a fill
          Scale,       \* money units in one unit of price
          Funds        \* the initial deposit

ASSUME AccountingAssumption ==
    /\ EntryOrder \cap ExitOrder = {}
    /\ MaxQty \in Nat \ {0} /\ MaxPrice \in Nat \ {0} /\ MaxFills \in Nat
    /\ MaxCrashes \in Nat /\ Fee \in Nat /\ Funds \in Nat
    /\ Scale \in Nat \ {0} /\ \A q \in 1..MaxQty : Scale % q = 0
    /\ Position \subseteq Nat \ {0}

VARIABLES
  placed,   \* placed[c]: units order c asks for, 0 before it is placed
  levels,   \* entry orders whose stop and entry levels are on record
  fills,    \* the venue's fills, in the order they happened
  pos,      \* the position records, in order of creation
  mapped,   \* the recorded order-to-position map, in order of insertion
  book,     \* the portfolio ledger
  keys,     \* idempotency keys of portfolio events
  levelDue, \* volatile: the order placed whose levels are not on record yet
  todo,     \* volatile: fills this pass has still to book
  job,      \* volatile: the fill being booked and the append that is due
  counted   \* volatile: exit fills counted since the process started

VARIABLE crashes
durable == <<placed, levels, fills, pos, mapped, book, keys>>
vars == <<placed, levels, fills, pos, mapped, book, keys, levelDue, todo, job,
          counted, crashes>>

Order == EntryOrder \cup ExitOrder
NoOrder == "none"
NoPid == 0
Idle == [fill |-> 0, pid |-> NoPid, at |-> "idle"]

Init ==
    /\ placed = [c \in Order |-> 0]
    /\ levels = {}
    /\ fills = <<>>
    /\ pos = <<>>
    /\ mapped = <<>>
    /\ book = Deposited(EmptyBook, Funds)
    /\ keys = {}
    /\ levelDue = NoOrder
    /\ todo = {}
    /\ job = Idle
    /\ counted = {}
    /\ crashes = 0

(* Slip: the recorded map is not consulted. *)
PidForgotten(c) == NoPid

(* _position_by_cid.get *)
PidOf(c) ==
    IF \E i \in 1..Len(mapped) : mapped[i].order = c
    THEN mapped[CHOOSE i \in 1..Len(mapped) : mapped[i].order = c].pid
    ELSE NoPid

Dead(pid) == pos[pid].st \in {"CLOSED", "ARCHIVED"}

(* _find_open_position: the first mapped position that is neither closed   *)
(* nor empty.                                                              *)
OpenIndexes == {i \in 1..Len(mapped) : ~ Dead(mapped[i].pid) /\ pos[mapped[i].pid].remaining > 0}
FindOpenPosition ==
    IF OpenIndexes = {} THEN NoPid ELSE mapped[Min(OpenIndexes)].pid

Quiet == job = Idle /\ todo = {} /\ levelDue = NoOrder

-----------------------------------------------------------------------------
(* Trading.  A resting order suppresses further ones of its kind, and an   *)
(* entry order is at the venue before its levels are recorded.             *)

FilledOf(c) == Cardinality({n \in 1..Len(fills) : fills[n].order = c})

Resting(orders) == \E c \in orders : FilledOf(c) < placed[c]

PlaceEntry(c, qty) ==
    /\ Quiet
    /\ c \in EntryOrder /\ placed[c] = 0
    /\ ~ Resting(EntryOrder)
    /\ placed' = [placed EXCEPT ![c] = qty]
    /\ levelDue' = c
    /\ UNCHANGED <<levels, fills, pos, mapped, book, keys, todo, job, counted, crashes>>

(* record_execution_levels *)
RecordLevels ==
    /\ levelDue # NoOrder
    /\ levels' = levels \cup {levelDue}
    /\ levelDue' = NoOrder
    /\ UNCHANGED <<placed, fills, pos, mapped, book, keys, todo, job, counted, crashes>>

Held == Cardinality({n \in 1..Len(fills) : fills[n].order \in EntryOrder})
          - Cardinality({n \in 1..Len(fills) : fills[n].order \in ExitOrder})

PlaceExit(c, qty) ==
    /\ Quiet
    /\ c \in ExitOrder /\ placed[c] = 0
    /\ ~ Resting(ExitOrder)
    /\ placed' = [placed EXCEPT ![c] = qty]
    /\ UNCHANGED <<levels, fills, pos, mapped, book, keys, levelDue, todo, job, counted, crashes>>

(* The venue fills one unit; a reduce-only order only while one is held. *)
VenueFills(c, price) ==
    /\ Len(fills) < MaxFills
    /\ FilledOf(c) < placed[c]
    /\ c \in ExitOrder => Held > 0
    /\ fills' = Append(fills, [order |-> c, price |-> price])
    /\ UNCHANGED <<placed, levels, pos, mapped, book, keys, levelDue, todo, job, counted, crashes>>

-----------------------------------------------------------------------------
(* sync: fetch all fills and book one after another. *)

Sync ==
    /\ Quiet
    /\ fills # <<>>
    /\ todo' = 1..Len(fills)
    /\ UNCHANGED <<durable, levelDue, job, counted, crashes>>

Turn(n, pid, at) == [fill |-> n, pid |-> pid, at |-> at]
Goto(at) == job' = [job EXCEPT !.at = at]
Done == job' = Idle

(* _book_one, up to the first append: which leg, and whether the order has *)
(* a position already.  An entry without levels and an exit with no open   *)
(* position are skipped in this pass.                                      *)
BookOne(n) ==
    LET c == fills[n].order
        pid == PidOf(c)
    IN  /\ job = Idle
        /\ n \in todo
        /\ todo' = todo \ {n}
        /\ job' = IF c \in EntryOrder
                  THEN IF pid # NoPid THEN Turn(n, pid, "enter")
                       ELSE IF c \in levels THEN Turn(n, NoPid, "create") ELSE Idle
                  ELSE IF pid # NoPid THEN Turn(n, pid, "realize")
                       ELSE IF FindOpenPosition # NoPid THEN Turn(n, FindOpenPosition, "claim")
                       ELSE Idle
        /\ UNCHANGED <<durable, levelDue, counted, crashes>>

This == fills[job.fill]
UnchangedAside == UNCHANGED <<placed, levels, fills, levelDue, todo, crashes>>

(* create_position mints the next id... *)
CreatePosition ==
    /\ job.at = "create"
    /\ Len(pos) + 1 \in Position
    /\ pos' = Append(pos, NewPosition(placed[This.order]))
    /\ job' = [job EXCEPT !.pid = Len(pos) + 1, !.at = "map"]
    /\ UNCHANGED <<mapped, book, keys, counted>> /\ UnchangedAside

(* ... and the map that remembers whose it is follows. *)
MapOrder ==
    /\ job.at \in {"map", "claim"}
    /\ mapped' = Append(mapped, [order |-> This.order, pid |-> job.pid])
    /\ Goto(IF job.at = "map" THEN "enter" ELSE "realize")
    /\ UNCHANGED <<pos, book, keys, counted>> /\ UnchangedAside

(* Slip: a fill already recorded is taken for booked. *)
EntryOnlyOnce ==
    LET p == pos[job.pid]
    IN  /\ job.at = "enter"
        /\ IF job.fill \in p.entries THEN Done /\ UNCHANGED pos
           ELSE IF p.st = "NEW" THEN pos' = [pos EXCEPT ![job.pid] = Opened(@)] /\ UNCHANGED job
           ELSE IF TakesEntry(p)
           THEN /\ pos' = [pos EXCEPT ![job.pid] = Entered(@, job.fill, This.price)]
                /\ Goto("reserve")
           ELSE Done /\ UNCHANGED pos
        /\ UNCHANGED <<mapped, book, keys, counted>> /\ UnchangedAside

(* record_entry_fill: one append or two, none for a fill already recorded; *)
(* a position that takes no more entries raises and the fill is skipped.   *)
RecordEntryFill ==
    LET p == pos[job.pid]
    IN  /\ job.at = "enter"
        /\ IF job.fill \in p.entries THEN Goto("reserve") /\ UNCHANGED pos
           ELSE IF p.st = "NEW" THEN pos' = [pos EXCEPT ![job.pid] = Opened(@)] /\ UNCHANGED job
           ELSE IF TakesEntry(p)
           THEN /\ pos' = [pos EXCEPT ![job.pid] = Entered(@, job.fill, This.price)]
                /\ Goto("reserve")
           ELSE Done /\ UNCHANGED pos
        /\ UNCHANGED <<mapped, book, keys, counted>> /\ UnchangedAside

(* A portfolio call: nothing if its key is spent. *)
Key(kind) == <<kind, job.pid, job.fill>>
(* Slip: a spent key is not noticed. *)
PostAgain(key, b) ==
    /\ keys' = keys \cup {key}
    /\ book' = b

Post(key, b) ==
    /\ keys' = keys \cup {key}
    /\ book' = IF key \in keys THEN book ELSE b

Margin == Scale * This.price

(* Slip: a late fill of a closed position reserves margin. *)
ReserveForDead ==
    /\ job.at = "reserve"
    /\ IF Key("reserve") \in keys \/ Margin <= book.cash
       THEN Post(Key("reserve"), Reserved(book, job.pid, Margin)) /\ Goto("allocate")
       ELSE UNCHANGED <<book, keys>> /\ Goto("fee")
    /\ UNCHANGED <<pos, mapped, counted>> /\ UnchangedAside

(* No margin for a dead position; too little cash skips both margin calls. *)
ReserveMargin ==
    /\ job.at = "reserve"
    /\ IF Dead(job.pid) THEN Done /\ UNCHANGED <<book, keys>>
       ELSE IF Key("reserve") \in keys \/ Margin <= book.cash
       THEN Post(Key("reserve"), Reserved(book, job.pid, Margin)) /\ Goto("allocate")
       ELSE UNCHANGED <<book, keys>> /\ Goto("fee")
    /\ UNCHANGED <<pos, mapped, counted>> /\ UnchangedAside

AllocateMargin ==
    /\ job.at = "allocate"
    /\ IF Key("allocate") \in keys \/ Margin <= book.reservedBy[job.pid]
       THEN Post(Key("allocate"), Allocated(book, job.pid, Margin))
       ELSE UNCHANGED <<book, keys>>
    /\ Goto("fee")
    /\ UNCHANGED <<pos, mapped, counted>> /\ UnchangedAside

ApplyFee ==
    /\ job.at = "fee"
    /\ IF Fee > 0 THEN Post(Key("fee"), Charged(book, Scale * Fee)) ELSE UNCHANGED <<book, keys>>
    /\ Done
    /\ UNCHANGED <<pos, mapped, counted>> /\ UnchangedAside

(* The average entry price, in money units. *)
Average(p) == (Scale * p.cost) \div p.filled

(* _book_exit, counted in memory: realized result, then close or wait.     *)
ClosedBy(exits, pid) ==
    Cardinality({n \in exits : PidOf(fills[n].order) = pid})

(* Slip: a position whose last unit is sold is taken for open still. *)
RealizeKeepsOpen ==
    LET p == pos[job.pid]
        result == Scale * This.price - Average(p) - Scale * Fee
        counting == counted \cup {job.fill}
    IN  /\ job.at = "realize"
        /\ Post(Key("realize"), Realized(book, result))
        /\ counted' = counting
        /\ IF Dead(job.pid) \/ ClosedBy(counting, job.pid) <= p.filled THEN Done ELSE Goto("exit")
        /\ UNCHANGED <<pos, mapped>> /\ UnchangedAside

RealizePnl ==
    LET p == pos[job.pid]
        result == Scale * This.price - Average(p) - Scale * Fee
        counting == counted \cup {job.fill}
    IN  /\ job.at = "realize"
        /\ Post(Key("realize"), Realized(book, result))
        /\ counted' = counting
        /\ IF Dead(job.pid) \/ ClosedBy(counting, job.pid) < p.filled THEN Done ELSE Goto("exit")
        /\ UNCHANGED <<pos, mapped>> /\ UnchangedAside

RecordExit ==
    /\ job.at = "exit"
    /\ pos' = IF job.fill \in pos[job.pid].exits THEN pos
              ELSE [pos EXCEPT ![job.pid] = Exited(@, job.fill, "CLOSE")]
    /\ Goto("release")
    /\ UNCHANGED <<mapped, book, keys, counted>> /\ UnchangedAside

ReleaseMargin ==
    /\ job.at = "release"
    /\ book' = IF job.pid \in book.released THEN book ELSE Released(book, job.pid)
    /\ Done
    /\ UNCHANGED <<pos, mapped, keys, counted>> /\ UnchangedAside

-----------------------------------------------------------------------------
(* update_marks sums over the positions in the values of the order map.    *)
MarkedPids == SelectSeq([i \in 1..Len(mapped) |-> mapped[i].pid], LAMBDA pid : pid \in book.open)

ExposureOf(pids, mark) ==
    FoldSeq(LAMBDA pid, sum : sum + Scale * mark * pos[pid].remaining, 0, pids)

UnrealizedOf(pids, mark) ==
    FoldSeq(LAMBDA pid, sum : sum + (Scale * mark - Average(pos[pid])) * pos[pid].remaining,
            0, pids)

UpdateMarks(mark) ==
    /\ Quiet
    /\ MarkedPids # <<>> \/ book.exposure # 0 \/ book.upnl # 0
    /\ book' = Marked(book, UnrealizedOf(MarkedPids, mark), ExposureOf(MarkedPids, mark))
    /\ UNCHANGED <<placed, levels, fills, pos, mapped, keys, levelDue, todo, job, counted, crashes>>

(* The process dies and is started again. *)
Crash ==
    /\ crashes < MaxCrashes
    /\ crashes' = crashes + 1
    /\ levelDue' = NoOrder
    /\ todo' = {}
    /\ job' = Idle
    /\ counted' = {}
    /\ UNCHANGED durable

Book ==
    \/ \E n \in todo : BookOne(n)
    \/ CreatePosition \/ MapOrder \/ RecordEntryFill
    \/ ReserveMargin \/ AllocateMargin \/ ApplyFee
    \/ RealizePnl \/ RecordExit \/ ReleaseMargin

Next ==
    \/ \E c \in EntryOrder, qty \in 1..MaxQty : PlaceEntry(c, qty)
    \/ \E c \in ExitOrder, qty \in 1..MaxQty : PlaceExit(c, qty)
    \/ RecordLevels
    \/ \E c \in Order, price \in 1..MaxPrice : VenueFills(c, price)
    \/ Sync
    \/ Book
    \/ \E mark \in 1..MaxPrice : UpdateMarks(mark)
    \/ Crash

Spec == Init /\ [][Next]_vars

(* The worker runs a cycle after every interval, and a cycle ends. *)
FairSpec == Spec /\ WF_vars(RecordLevels) /\ WF_vars(Book) /\ WF_vars(Sync)

-----------------------------------------------------------------------------
(* Wherever a crash falls between create_position and the record of whose  *)
(* position it is, an order has at most one position, and a position that  *)
(* lost its order never holds margin, so it never takes a risk slot.       *)
OrphansAreInert ==
    /\ \A i, j \in 1..Len(mapped) :
          i # j => /\ mapped[i].order # mapped[j].order
                   /\ {mapped[i].order, mapped[j].order} \subseteq EntryOrder
                        => mapped[i].pid # mapped[j].pid
    /\ \A pid \in 1..Len(pos) :
          (\A i \in 1..Len(mapped) : mapped[i].pid # pid)
            => pos[pid].st = "NEW" /\ pid \notin book.open /\ book.reservedBy[pid] = 0

(* The prices of the chosen fills, added up. *)
PriceSum(list, chosen) ==
    LET upto[n \in 0..Len(list)] ==
            IF n = 0 THEN 0 ELSE upto[n - 1] + (IF n \in chosen THEN list[n].price ELSE 0)
    IN  upto[Len(list)]

ReservedFills(pid) == {n \in 1..Len(fills) : <<"reserve", pid, n>> \in keys}
MarginDue(pid) == Scale * PriceSum(fills, ReservedFills(pid))

(* Margin is booked once per entry fill, however often the fill history is *)
(* processed again, in this process or after a restart, as long as it is   *)
(* an amount the ledger represents exactly.                                *)
MarginOncePerFill ==
    \A pid \in Position \ book.released :
        Fits(MarginDue(pid)) => book.reservedBy[pid] + book.usedBy[pid] = MarginDue(pid)

(* A released position stays released: a late entry fill does not bring it *)
(* back into the open positions or tie up margin that nothing frees.       *)
ReleasedIsFree ==
    \A pid \in book.released :
        book.reservedBy[pid] = 0 /\ book.usedBy[pid] = 0 /\ pid \notin book.open

Margined(n) ==
    /\ n <= Len(fills)
    /\ LET pid == PidOf(fills[n].order)
       IN  pid # NoPid /\ (<<"allocate", pid, n>> \in keys \/ Dead(pid))

(* A crash cannot orphan the portfolio leg: every fill of an entry order   *)
(* whose levels are on record has its margin allocated in the end, unless  *)
(* its position has closed.                                                *)
EntryHeals ==
    \A n \in 1..MaxFills :
        n <= Len(fills) /\ fills[n].order \in levels ~> Margined(n)

(* When everything has been sold, the exits, by however many orders and    *)
(* fills they came, have closed the position and freed its slot: no cycle  *)
(* that runs to its end leaves the slot taken.  A crash in the exit leg    *)
(* may: nothing books that fill again.                                     *)
FlatIsReleased == Held = 0 ~> Held # 0 \/ book.open = {} \/ crashes > 0
=============================================================================
