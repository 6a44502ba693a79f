--------------------------- MODULE AccountingProofs ---------------------------
(***************************************************************************)
(* Proofs about the accounting pipeline, for any orders, quantities,       *)
(* prices, fees and number of fills and crashes: no order gets a second    *)
(* position, a position that lost its order is inert, margin is booked     *)
(* once per fill, and a position whose margin was released holds none.     *)
(***************************************************************************)
EXTENDS Accounting, WellFoundedInduction, SequenceTheorems, TLAPS

-----------------------------------------------------------------------------
(* The inductive invariant *)

Trading == {"PARTIALLY_FILLED", "FULLY_FILLED"}
PosRecord == [st : {"NEW", "OPEN", "CLOSED"} \cup Trading, intended : Nat, filled : Nat,
              remaining : Int, cost : Int, entries : SUBSET Nat, exits : SUBSET Nat,
              funding : {{}}]

VenueFill == [order : Order, price : Nat]
MapEntry == [order : Order, pid : Nat \ {0}]

Fields == {"cash", "reserved", "used", "upnl", "exposure", "realized", "funding", "fees",
           "deposits", "withdrawals", "reservedBy", "usedBy", "open", "released"}

(* A ledger; what its amounts are does not matter here. *)
IsBook(b) ==
    /\ b = [f \in Fields |-> b[f]]
    /\ b.reservedBy = [pid \in Position |-> b.reservedBy[pid]]
    /\ b.usedBy = [pid \in Position |-> b.usedBy[pid]]
    /\ b.open \subseteq Position /\ b.released \subseteq Position

Ids == 1..Len(pos)
HasOrder(pid) == \E i \in 1..Len(mapped) : mapped[i].pid = pid
IsMapped(c) == \E i \in 1..Len(mapped) : mapped[i].order = c

Typed ==
    /\ placed \in [Order -> Nat]
    /\ fills \in Seq(VenueFill)
    /\ pos \in Seq(PosRecord)
    /\ Ids \subseteq Position
    /\ mapped \in Seq(MapEntry)
    /\ \A i \in 1..Len(mapped) : mapped[i].pid \in Ids
    /\ todo \subseteq 1..Len(fills)
    /\ IsBook(book)

(* A position is empty until it has its first fill, and an exit closes it. *)
RecordsFit ==
    \A pid \in Ids : /\ pos[pid].st \in {"NEW", "OPEN"} => pos[pid].remaining = 0
                     /\ pos[pid].exits # {} => pos[pid].st = "CLOSED"

(* An order is mapped once, two entry orders never to one position, and an *)
(* exit order only to a position that has been filled.                     *)
MapIsSound ==
    /\ \A i, j \in 1..Len(mapped) :
          i # j => /\ mapped[i].order # mapped[j].order
                   /\ {mapped[i].order, mapped[j].order} \subseteq EntryOrder
                        => mapped[i].pid # mapped[j].pid
    /\ \A i \in 1..Len(mapped) :
          mapped[i].order \in ExitOrder => pos[mapped[i].pid].st \in Trading \cup {"CLOSED"}

(* What is not mapped holds nothing, ids that are still to be minted too. *)
UnmappedIsBlank ==
    \A pid \in Position :
        ~ HasOrder(pid) => /\ pid \notin book.open /\ book.reservedBy[pid] = 0
                           /\ pid \in Ids => pos[pid].st = "NEW"

(* Only a closed position is released. *)
ReleasedIsClosed == \A pid \in book.released : pid \in Ids /\ pos[pid].st = "CLOSED"

(* What the append that is due may rely on. *)
Step == {"create", "map", "claim", "enter", "reserve", "allocate", "fee", "realize", "exit",
         "release"}

JobOk(j) ==
    /\ j \in [fill : 1..Len(fills), pid : Nat, at : Step]
    /\ j.at \in {"create", "map"} => /\ fills[j.fill].order \in EntryOrder
                                    /\ ~ IsMapped(fills[j.fill].order)
    /\ j.at = "map" => j.pid \in Ids /\ ~ HasOrder(j.pid)
    /\ j.at = "claim" => /\ fills[j.fill].order \in ExitOrder
                         /\ ~ IsMapped(fills[j.fill].order)
                         /\ pos[j.pid].st \in Trading
    /\ j.at \notin {"create", "map"} => j.pid \in Ids /\ HasOrder(j.pid)
    /\ j.at = "allocate" => pos[j.pid].st # "CLOSED"
    /\ j.at = "realize" => pos[j.pid].st \in Trading \cup {"CLOSED"}
    /\ j.at = "exit" => pos[j.pid].st \in Trading
    /\ j.at = "release" => pos[j.pid].st = "CLOSED"

JobFits == job = Idle \/ JobOk(job)

AccInv ==
    /\ Typed
    /\ RecordsFit
    /\ MapIsSound
    /\ UnmappedIsBlank
    /\ ReleasedIsClosed
    /\ JobFits
    /\ ReleasedIsFree
-----------------------------------------------------------------------------
(* Every set of numbers that is not empty has a least one. *)
LEMMA MinIsIn ==
    ASSUME NEW S, S \subseteq Nat, S # {}
    PROVE  Min(S) \in S
  <1> DEFINE R == OpToRel(<, Nat)
  <1>1. IsWellFoundedOn(R, Nat)
    BY NatLessThanWellFounded
  <1> HIDE DEF R
  <1>2. \E x \in S : \A y \in S : ~ (<<y, x>> \in R)
    BY <1>1, WFMin
  <1>3. ASSUME NEW x \in S, NEW y \in S, ~ (<<y, x>> \in R) PROVE x <= y
    BY <1>3 DEF R, OpToRel
  <1>4. \E x \in S : \A y \in S : x <= y
    BY <1>2, <1>3
  <1> QED BY <1>4 DEF Min

(* What an order is mapped to. *)
LEMMA PidOfIs ==
    ASSUME Typed, NEW c
    PROVE  /\ PidOf(c) = NoPid => ~ IsMapped(c)
           /\ PidOf(c) # NoPid => \E i \in 1..Len(mapped) : /\ mapped[i].order = c
                                                          /\ mapped[i].pid = PidOf(c)
  <1>1. CASE IsMapped(c)
    <2> DEFINE i == CHOOSE i \in 1..Len(mapped) : mapped[i].order = c
    <2>1. i \in 1..Len(mapped) /\ mapped[i].order = c
      BY <1>1 DEF IsMapped
    <2>2. PidOf(c) = mapped[i].pid
      BY <1>1 DEF IsMapped, PidOf
    <2> HIDE DEF i
    <2>3. mapped[i] \in MapEntry
      BY <2>1 DEF Typed
    <2>4. mapped[i].pid # NoPid
      BY <2>3 DEF MapEntry, NoPid
    <2> QED BY <1>1, <2>1, <2>2, <2>4
  <1>2. CASE ~ IsMapped(c)
    BY <1>2 DEF IsMapped, PidOf
  <1> QED BY <1>1, <1>2

(* What an exit order claims is a position that has been filled. *)
LEMMA FindOpenIs ==
    ASSUME Typed, RecordsFit, FindOpenPosition # NoPid
    PROVE  /\ FindOpenPosition \in Ids /\ HasOrder(FindOpenPosition)
           /\ pos[FindOpenPosition].st \in Trading
  <1> DEFINE i == Min(OpenIndexes)
  <1>1. OpenIndexes # {} /\ FindOpenPosition = mapped[i].pid
    BY DEF FindOpenPosition
  <1>2. OpenIndexes \subseteq Nat
    BY DEF OpenIndexes
  <1>3. i \in OpenIndexes
    BY <1>1, <1>2, MinIsIn
  <1> HIDE DEF i
  <1>4. /\ i \in 1..Len(mapped) /\ ~ Dead(mapped[i].pid) /\ pos[mapped[i].pid].remaining > 0
    BY <1>3 DEF OpenIndexes
  <1>5. mapped[i].pid \in Ids
    BY <1>4 DEF Typed
  <1>6. pos[mapped[i].pid] \in PosRecord
    BY <1>5 DEF Typed, Ids
  <1>7. pos[mapped[i].pid].st \in Trading
    <2>1. pos[mapped[i].pid].st \in {"NEW", "OPEN", "CLOSED"} \cup Trading
      BY <1>6 DEF PosRecord
    <2>2. pos[mapped[i].pid].st \notin {"NEW", "OPEN"}
      BY <1>4, <1>5 DEF RecordsFit
    <2> QED BY <1>4, <2>1, <2>2 DEF Dead
  <1> QED BY <1>1, <1>4, <1>5, <1>7 DEF HasOrder

-----------------------------------------------------------------------------
(* What the ledger operations do to margins. *)
LEMMA BooksMove ==
    ASSUME NEW b, IsBook(b), NEW pid \in Position, NEW x, NEW y
    PROVE  /\ LET c == Reserved(b, pid, x)
              IN  /\ IsBook(c) /\ c.open = b.open /\ c.released = b.released /\ c.usedBy = b.usedBy
                  /\ \A q \in Position : q # pid => c.reservedBy[q] = b.reservedBy[q]
           /\ LET c == Allocated(b, pid, x)
              IN  /\ IsBook(c) /\ c.open = b.open \cup {pid} /\ c.released = b.released
                  /\ \A q \in Position : q # pid => /\ c.reservedBy[q] = b.reservedBy[q]
                                                  /\ c.usedBy[q] = b.usedBy[q]
           /\ LET c == Released(b, pid)
              IN  /\ IsBook(c) /\ c.open = b.open \ {pid} /\ c.released = b.released \cup {pid}
                  /\ c.reservedBy[pid] = 0 /\ c.usedBy[pid] = 0
                  /\ \A q \in Position : q # pid => /\ c.reservedBy[q] = b.reservedBy[q]
                                                  /\ c.usedBy[q] = b.usedBy[q]
  <1>1. LET c == Reserved(b, pid, x)
        IN  /\ IsBook(c) /\ c.open = b.open /\ c.released = b.released /\ c.usedBy = b.usedBy
            /\ \A q \in Position : q # pid => c.reservedBy[q] = b.reservedBy[q]
    BY DEF IsBook, Fields, Reserved
  <1>2. LET c == Allocated(b, pid, x)
        IN  /\ IsBook(c) /\ c.open = b.open \cup {pid} /\ c.released = b.released
            /\ \A q \in Position : q # pid => /\ c.reservedBy[q] = b.reservedBy[q]
                                            /\ c.usedBy[q] = b.usedBy[q]
    BY DEF IsBook, Fields, Allocated
  <1>3. LET c == Released(b, pid)
        IN  /\ IsBook(c) /\ c.open = b.open \ {pid} /\ c.released = b.released \cup {pid}
            /\ c.reservedBy[pid] = 0 /\ c.usedBy[pid] = 0
            /\ \A q \in Position : q # pid => /\ c.reservedBy[q] = b.reservedBy[q]
                                            /\ c.usedBy[q] = b.usedBy[q]
    BY DEF IsBook, Fields, Released
  <1> QED BY <1>1, <1>2, <1>3

(* The others leave them alone. *)
LEMMA BooksStay ==
    ASSUME NEW b, IsBook(b), NEW x, NEW y
    PROVE  \A c \in {Realized(b, x), Charged(b, x), Marked(b, x, y)} :
              /\ IsBook(c) /\ c.open = b.open /\ c.released = b.released
              /\ c.reservedBy = b.reservedBy /\ c.usedBy = b.usedBy
  <1>1. LET c == Realized(b, x)
        IN  /\ IsBook(c) /\ c.open = b.open /\ c.released = b.released
            /\ c.reservedBy = b.reservedBy /\ c.usedBy = b.usedBy
    BY DEF IsBook, Fields, Realized
  <1>2. LET c == Charged(b, x)
        IN  /\ IsBook(c) /\ c.open = b.open /\ c.released = b.released
            /\ c.reservedBy = b.reservedBy /\ c.usedBy = b.usedBy
    BY DEF IsBook, Fields, Charged
  <1>3. LET c == Marked(b, x, y)
        IN  /\ IsBook(c) /\ c.open = b.open /\ c.released = b.released
            /\ c.reservedBy = b.reservedBy /\ c.usedBy = b.usedBy
    BY DEF IsBook, Fields, Marked
  <1> QED BY <1>1, <1>2, <1>3
-----------------------------------------------------------------------------
(* A step that leaves what is durable alone, but for the orders placed. *)
LEMMA AsideStep ==
    ASSUME AccInv, UNCHANGED <<fills, pos, mapped, book>>, placed' \in [Order -> Nat],
           todo' \subseteq 1..Len(fills), job' = job \/ job' = Idle \/ JobOk(job')
    PROVE  AccInv'
  <1>1. Typed'
    BY DEF AccInv, Typed, Ids
  <1>2. RecordsFit' /\ MapIsSound'
    BY DEF AccInv, RecordsFit, MapIsSound, Ids
  <1>3. UnmappedIsBlank' /\ ReleasedIsClosed' /\ ReleasedIsFree'
    BY DEF AccInv, UnmappedIsBlank, HasOrder, ReleasedIsClosed, ReleasedIsFree, Ids
  <1>4. \A j : JobOk(j) => JobOk(j)'
    BY DEF JobOk, Ids, HasOrder, IsMapped
  <1>5. JobFits'
    BY <1>4 DEF AccInv, JobFits
  <1> QED BY <1>1, <1>2, <1>3, <1>5 DEF AccInv

(* Placing orders, fetching the fills, and a crash. *)
LEMMA AsideKeeps ==
    ASSUME AccInv,
           \/ \E c \in EntryOrder, qty \in 1..MaxQty : PlaceEntry(c, qty)
           \/ \E c \in ExitOrder, qty \in 1..MaxQty : PlaceExit(c, qty)
           \/ RecordLevels \/ Sync \/ Crash
    PROVE  AccInv'
  <1>1. placed \in [Order -> Nat] /\ todo \subseteq 1..Len(fills)
    BY DEF AccInv, Typed
  <1>2. ASSUME NEW c \in EntryOrder, NEW qty \in 1..MaxQty, PlaceEntry(c, qty) PROVE AccInv'
    <2>1. qty \in Nat /\ placed' = [placed EXCEPT ![c] = qty]
      BY <1>2, AccountingAssumption DEF PlaceEntry
    <2>2. placed' \in [Order -> Nat]
      BY <1>1, <2>1
    <2> QED BY <1>1, <1>2, <2>2, AsideStep DEF PlaceEntry
  <1>3. ASSUME NEW c \in ExitOrder, NEW qty \in 1..MaxQty, PlaceExit(c, qty) PROVE AccInv'
    <2>1. qty \in Nat /\ placed' = [placed EXCEPT ![c] = qty]
      BY <1>3, AccountingAssumption DEF PlaceExit
    <2>2. placed' \in [Order -> Nat]
      BY <1>1, <2>1
    <2> QED BY <1>1, <1>3, <2>2, AsideStep DEF PlaceExit
  <1>4. CASE RecordLevels
    BY <1>1, <1>4, AsideStep DEF RecordLevels
  <1>5. CASE Sync
    BY <1>1, <1>5, AsideStep DEF Sync, durable
  <1>6. CASE Crash
    BY <1>1, <1>6, AsideStep DEF Crash, durable
  <1> QED BY <1>2, <1>3, <1>4, <1>5, <1>6

(* The venue adds a fill at the end of the list. *)
LEMMA VenueFillsKeeps ==
    ASSUME AccInv, NEW c \in Order, NEW price \in 1..MaxPrice, VenueFills(c, price)
    PROVE  AccInv'
  <1> DEFINE f == [order |-> c, price |-> price]
  <1>1. /\ fills' = Append(fills, f) /\ UNCHANGED <<placed, pos, mapped, book, todo, job>>
    BY DEF VenueFills
  <1>2. fills \in Seq(VenueFill) /\ Len(fills) \in Nat /\ f \in VenueFill
    BY DEF AccInv, Typed, VenueFill
  <1> HIDE DEF f
  <1>3. /\ fills' \in Seq(VenueFill) /\ Len(fills') = Len(fills) + 1
        /\ \A i \in 1..Len(fills) : fills'[i] = fills[i]
    BY <1>1, <1>2
  <1>4. 1..Len(fills) \subseteq 1..Len(fills')
    BY <1>2, <1>3
  <1>5. Typed'
    BY <1>1, <1>3, <1>4 DEF AccInv, Typed, Ids
  <1>6. RecordsFit' /\ MapIsSound'
    BY <1>1 DEF AccInv, RecordsFit, MapIsSound, Ids
  <1>7. UnmappedIsBlank' /\ ReleasedIsClosed' /\ ReleasedIsFree'
    BY <1>1 DEF AccInv, UnmappedIsBlank, HasOrder, ReleasedIsClosed, ReleasedIsFree, Ids
  <1>8. JobOk(job) => JobOk(job)'
    <2> SUFFICES ASSUME JobOk(job) PROVE JobOk(job)'
      OBVIOUS
    <2>1. job \in [fill : 1..Len(fills), pid : Nat, at : Step]
      BY DEF JobOk
    <2>2. job.fill \in 1..Len(fills) /\ job \in [fill : 1..Len(fills'), pid : Nat, at : Step]
      BY <1>4, <2>1
    <2>3. fills'[job.fill] = fills[job.fill]
      BY <1>3, <2>2
    <2> QED BY <1>1, <2>2, <2>3 DEF JobOk, Ids, HasOrder, IsMapped
  <1>9. JobFits'
    BY <1>1, <1>8 DEF AccInv, JobFits
  <1> QED BY <1>5, <1>6, <1>7, <1>9 DEF AccInv

(* Taking up a fill: which append is due. *)
LEMMA BookOneKeeps ==
    ASSUME AccInv, NEW n \in todo, BookOne(n)
    PROVE  AccInv'
  <1> DEFINE c == fills[n].order
             pid == PidOf(c)
  <1>1. /\ todo' = todo \ {n} /\ UNCHANGED <<placed, fills, pos, mapped, book>>
        /\ job' = IF c \in EntryOrder
                  THEN IF pid # NoPid THEN Turn(n, pid, "enter")
                       ELSE IF c \in levels THEN Turn(n, NoPid, "create") ELSE Idle
                  ELSE IF pid # NoPid THEN Turn(n, pid, "realize")
                       ELSE IF FindOpenPosition # NoPid THEN Turn(n, FindOpenPosition, "claim")
                       ELSE Idle
    BY DEF BookOne, durable
  <1>2. /\ Typed /\ RecordsFit /\ MapIsSound /\ n \in 1..Len(fills) /\ placed \in [Order -> Nat]
        /\ todo \subseteq 1..Len(fills) /\ Ids \subseteq Nat
    BY DEF AccInv, Typed, Ids
  <1>3. c \in Order
    <2>1. fills[n] \in VenueFill
      BY <1>2 DEF Typed
    <2> QED BY <2>1 DEF VenueFill
  <1>4. /\ pid = NoPid => ~ IsMapped(c)
        /\ pid # NoPid => \E i \in 1..Len(mapped) : mapped[i].order = c /\ mapped[i].pid = pid
    BY <1>2, PidOfIs
  <1>5. pid # NoPid => /\ pid \in Ids /\ HasOrder(pid)
                       /\ c \in ExitOrder => pos[pid].st \in Trading \cup {"CLOSED"}
    BY <1>2, <1>4 DEF Typed, HasOrder, MapIsSound
  <1>6. FindOpenPosition # NoPid => /\ FindOpenPosition \in Ids /\ HasOrder(FindOpenPosition)
                                    /\ pos[FindOpenPosition].st \in Trading
    BY <1>2, FindOpenIs
  <1> HIDE DEF pid, c
  <1>7. fills[n].order = c
    BY DEF c
  <1>8. job' = Idle \/ JobOk(job')
    <2>1. ASSUME c \in EntryOrder, pid # NoPid, job' = Turn(n, pid, "enter") PROVE JobOk(job')
      BY <1>2, <1>5, <2>1 DEF JobOk, Turn, Step
    <2>2. ASSUME c \in EntryOrder, pid = NoPid, job' = Turn(n, NoPid, "create") PROVE JobOk(job')
      BY <1>2, <1>4, <1>7, <2>2 DEF JobOk, Turn, Step, NoPid
    <2>3. ASSUME c \in ExitOrder, pid # NoPid, job' = Turn(n, pid, "realize") PROVE JobOk(job')
      BY <1>2, <1>5, <2>3 DEF JobOk, Turn, Step
    <2>4. ASSUME c \in ExitOrder, pid = NoPid, FindOpenPosition # NoPid,
                 job' = Turn(n, FindOpenPosition, "claim")
          PROVE  JobOk(job')
      BY <1>2, <1>4, <1>6, <1>7, <2>4 DEF JobOk, Turn, Step
    <2> QED BY <1>1, <1>3, <2>1, <2>2, <2>3, <2>4 DEF Order
  <1>9. todo' \subseteq 1..Len(fills)
    BY <1>1, <1>2
  <1> QED BY <1>1, <1>2, <1>8, <1>9, AsideStep
-----------------------------------------------------------------------------
(* A step that changes the ledger only. *)
LEMMA BookStep ==
    ASSUME AccInv, UNCHANGED <<placed, fills, pos, mapped, todo>>, IsBook(book'),
           JobFits', UnmappedIsBlank', ReleasedIsClosed', ReleasedIsFree'
    PROVE  AccInv'
  <1>1. Typed'
    BY DEF AccInv, Typed, Ids
  <1>2. RecordsFit' /\ MapIsSound'
    BY DEF AccInv, RecordsFit, MapIsSound, Ids
  <1> QED BY <1>1, <1>2 DEF AccInv

(* One that leaves margins alone. *)
LEMMA PaidStep ==
    ASSUME AccInv, UNCHANGED <<placed, fills, pos, mapped, todo>>, IsBook(book'),
           book'.open = book.open, book'.released = book.released,
           book'.reservedBy = book.reservedBy, book'.usedBy = book.usedBy,
           job' = job \/ job' = Idle \/ JobOk(job')
    PROVE  AccInv'
  <1>1. UnmappedIsBlank' /\ ReleasedIsClosed' /\ ReleasedIsFree'
    BY DEF AccInv, UnmappedIsBlank, HasOrder, ReleasedIsClosed, ReleasedIsFree, Ids
  <1>2. \A j : JobOk(j) => JobOk(j)'
    BY DEF JobOk, Ids, HasOrder, IsMapped
  <1>3. JobFits'
    BY <1>2 DEF AccInv, JobFits
  <1> QED BY <1>1, <1>3, BookStep

(* The job of a step that is under way. *)
LEMMA AtWork ==
    ASSUME AccInv, job.at # "idle"
    PROVE  JobOk(job) /\ job \in [fill : 1..Len(fills), pid : Nat, at : Step]
           /\ (job.at \notin {"create", "map"} => /\ job.pid \in Ids /\ HasOrder(job.pid)
                                               /\ job.pid \in Position
                                               /\ pos[job.pid] \in PosRecord)
  <1>1. JobOk(job)
    BY DEF AccInv, JobFits, Idle
  <1>2. job \in [fill : 1..Len(fills), pid : Nat, at : Step]
        /\ (job.at \notin {"create", "map"} => job.pid \in Ids /\ HasOrder(job.pid))
    BY <1>1 DEF JobOk
  <1>3. Ids \subseteq Position /\ \A pid \in Ids : pos[pid] \in PosRecord
    BY DEF AccInv, Typed, Ids
  <1> QED BY <1>1, <1>2, <1>3

(* A portfolio call whose key may be spent. *)
LEMMA PostIs ==
    ASSUME NEW key, NEW b, Post(key, b)
    PROVE  book' = book \/ book' = b
  BY DEF Post

(* Margin is reserved, unless the position is dead or cash is short. *)
LEMMA ReserveMarginKeeps ==
    ASSUME AccInv, ReserveMargin
    PROVE  AccInv'
  <1> DEFINE pid == job.pid
             b == Reserved(book, pid, Margin)
  <1>1. job.at = "reserve" /\ UNCHANGED <<placed, fills, pos, mapped, todo>>
    BY DEF ReserveMargin, UnchangedAside
  <1>2. /\ JobOk(job) /\ job \in [fill : 1..Len(fills), pid : Nat, at : Step] /\ pid \in Ids
        /\ HasOrder(pid) /\ pid \in Position /\ IsBook(book)
    BY <1>1, AtWork DEF AccInv, Typed
  <1>3. \/ job' = Idle /\ book' = book
        \/ job' = [job EXCEPT !.at = "fee"] /\ book' = book
        \/ /\ ~ Dead(pid) /\ job' = [job EXCEPT !.at = "allocate"] /\ (book' = book \/ book' = b)
    BY PostIs DEF ReserveMargin, Done, Goto
  <1>4. CASE job' = Idle /\ book' = book
    BY <1>1, <1>2, <1>4, PaidStep
  <1>5. CASE job' = [job EXCEPT !.at = "fee"] /\ book' = book
    <2>1. job'.at = "fee" /\ job'.pid = pid /\ job' \in [fill : 1..Len(fills), pid : Nat, at : Step]
      BY <1>2, <1>5 DEF Step
    <2>2. JobOk(job')
      BY <1>2, <2>1 DEF JobOk
    <2> QED BY <1>1, <1>2, <1>5, <2>2, PaidStep
  <1>6. CASE ~ Dead(pid) /\ job' = [job EXCEPT !.at = "allocate"] /\ (book' = book \/ book' = b)
    <2>1. /\ job'.at = "allocate" /\ job'.pid = pid
          /\ job' \in [fill : 1..Len(fills), pid : Nat, at : Step]
      BY <1>2, <1>6 DEF Step
    <2>2. pos[pid].st # "CLOSED"
      BY <1>6 DEF Dead
    <2>3. JobOk(job')
      BY <1>2, <2>1, <2>2 DEF JobOk
    <2>4. CASE book' = book
      BY <1>1, <1>2, <2>3, <2>4, PaidStep
    <2>5. CASE book' = b
      <3>1. /\ IsBook(book') /\ book'.open = book.open /\ book'.released = book.released
            /\ book'.usedBy = book.usedBy
            /\ \A q \in Position : q # pid => book'.reservedBy[q] = book.reservedBy[q]
        BY <1>2, <2>5, BooksMove
      <3>2. pid \notin book.released /\ book.released \subseteq Position
        BY <1>2, <2>2 DEF AccInv, ReleasedIsClosed, IsBook
      <3>3. UnmappedIsBlank'
        BY <1>1, <1>2, <3>1 DEF AccInv, UnmappedIsBlank, HasOrder, Ids
      <3>4. ReleasedIsClosed' /\ ReleasedIsFree'
        BY <1>1, <3>1, <3>2 DEF AccInv, ReleasedIsClosed, ReleasedIsFree, Ids
      <3>5. JobFits'
        BY <1>1, <2>3 DEF JobFits, JobOk, Ids, HasOrder, IsMapped
      <3> QED BY <1>1, <3>1, <3>3, <3>4, <3>5, BookStep
    <2> QED BY <1>6, <2>4, <2>5
  <1> QED BY <1>3, <1>4, <1>5, <1>6

(* Margin is allocated to a position that is not dead. *)
LEMMA AllocateMarginKeeps ==
    ASSUME AccInv, AllocateMargin
    PROVE  AccInv'
  <1> DEFINE pid == job.pid
             b == Allocated(book, pid, Margin)
  <1>1. /\ job.at = "allocate" /\ UNCHANGED <<placed, fills, pos, mapped, todo>>
        /\ job' = [job EXCEPT !.at = "fee"] /\ (book' = book \/ book' = b)
    BY PostIs DEF AllocateMargin, UnchangedAside, Goto
  <1>2. /\ JobOk(job) /\ job \in [fill : 1..Len(fills), pid : Nat, at : Step] /\ pid \in Ids
        /\ HasOrder(pid) /\ pid \in Position /\ IsBook(book)
    BY <1>1, AtWork DEF AccInv, Typed
  <1>3. pos[pid].st # "CLOSED"
    BY <1>1, <1>2 DEF JobOk
  <1>4. job'.at = "fee" /\ job'.pid = pid /\ job' \in [fill : 1..Len(fills), pid : Nat, at : Step]
    BY <1>1, <1>2 DEF Step
  <1>5. JobOk(job')
    BY <1>2, <1>4 DEF JobOk
  <1>6. CASE book' = book
    BY <1>1, <1>2, <1>5, <1>6, PaidStep
  <1>7. CASE book' = b
    <2>1. /\ IsBook(book') /\ book'.open = book.open \cup {pid} /\ book'.released = book.released
          /\ \A q \in Position : q # pid => /\ book'.reservedBy[q] = book.reservedBy[q]
                                          /\ book'.usedBy[q] = book.usedBy[q]
      BY <1>2, <1>7, BooksMove
    <2>2. pid \notin book.released /\ book.released \subseteq Position
      BY <1>2, <1>3 DEF AccInv, ReleasedIsClosed, IsBook
    <2>3. UnmappedIsBlank'
      BY <1>1, <1>2, <2>1 DEF AccInv, UnmappedIsBlank, HasOrder, Ids
    <2>4. ReleasedIsClosed' /\ ReleasedIsFree'
      BY <1>1, <2>1, <2>2 DEF AccInv, ReleasedIsClosed, ReleasedIsFree, Ids
    <2>5. JobFits'
      BY <1>1, <1>5 DEF JobFits, JobOk, Ids, HasOrder, IsMapped
    <2> QED BY <1>1, <2>1, <2>3, <2>4, <2>5, BookStep
  <1> QED BY <1>1, <1>6, <1>7

(* A fee, a realized result, a new mark: margins stay. *)
LEMMA PaidKeeps ==
    ASSUME AccInv, ApplyFee \/ RealizePnl \/ \E mark \in 1..MaxPrice : UpdateMarks(mark)
    PROVE  AccInv'
  <1>0. IsBook(book)
    BY DEF AccInv, Typed
  <1>1. CASE ApplyFee
    <2>1. /\ UNCHANGED <<placed, fills, pos, mapped, todo>> /\ job' = Idle
          /\ (book' = book \/ book' = Charged(book, Scale * Fee))
      BY <1>1, PostIs DEF ApplyFee, UnchangedAside, Done
    <2>2. /\ IsBook(book') /\ book'.open = book.open /\ book'.released = book.released
          /\ book'.reservedBy = book.reservedBy /\ book'.usedBy = book.usedBy
      BY <1>0, <2>1, BooksStay
    <2> QED BY <2>1, <2>2, PaidStep
  <1>2. CASE RealizePnl
    <2> DEFINE amount == Scale * This.price - Average(pos[job.pid]) - Scale * Fee
    <2>1. /\ job.at = "realize" /\ UNCHANGED <<placed, fills, pos, mapped, todo>>
          /\ (job' = Idle \/ (~ Dead(job.pid) /\ job' = [job EXCEPT !.at = "exit"]))
          /\ (book' = book \/ book' = Realized(book, amount))
      BY <1>2, PostIs DEF RealizePnl, UnchangedAside, Done, Goto
    <2>2. /\ IsBook(book') /\ book'.open = book.open /\ book'.released = book.released
          /\ book'.reservedBy = book.reservedBy /\ book'.usedBy = book.usedBy
      <3> HIDE DEF amount
      <3> QED BY <1>0, <2>1, BooksStay
    <2>3. CASE job' = Idle
      BY <2>1, <2>2, <2>3, PaidStep
    <2>4. CASE ~ Dead(job.pid) /\ job' = [job EXCEPT !.at = "exit"]
      <3>1. JobOk(job) /\ job \in [fill : 1..Len(fills), pid : Nat, at : Step]
            /\ job.pid \in Ids /\ HasOrder(job.pid)
        BY <2>1, AtWork
      <3>2. pos[job.pid].st \in Trading
        BY <2>1, <2>4, <3>1 DEF JobOk, Dead
      <3>3. /\ job'.at = "exit" /\ job'.pid = job.pid
            /\ job' \in [fill : 1..Len(fills), pid : Nat, at : Step]
        BY <2>4, <3>1 DEF Step
      <3>4. JobOk(job')
        BY <3>1, <3>2, <3>3 DEF JobOk
      <3> QED BY <2>1, <2>2, <3>4, PaidStep
    <2> QED BY <2>1, <2>3, <2>4
  <1>3. ASSUME NEW mark \in 1..MaxPrice, UpdateMarks(mark) PROVE AccInv'
    <2> DEFINE u == UnrealizedOf(MarkedPids, mark)
               x == ExposureOf(MarkedPids, mark)
    <2>1. /\ UNCHANGED <<placed, fills, pos, mapped, todo, job>> /\ book' = Marked(book, u, x)
      BY <1>3 DEF UpdateMarks
    <2> HIDE DEF u, x
    <2>2. /\ IsBook(book') /\ book'.open = book.open /\ book'.released = book.released
          /\ book'.reservedBy = book.reservedBy /\ book'.usedBy = book.usedBy
      BY <1>0, <2>1, BooksStay
    <2> QED BY <2>1, <2>2, PaidStep
  <1> QED BY <1>1, <1>2, <1>3

(* A closed position gives its margin back. *)
LEMMA ReleaseMarginKeeps ==
    ASSUME AccInv, ReleaseMargin
    PROVE  AccInv'
  <1> DEFINE pid == job.pid
             b == Released(book, pid)
  <1>1. /\ job.at = "release" /\ UNCHANGED <<placed, fills, pos, mapped, todo>>
        /\ job' = Idle /\ (book' = book \/ book' = b)
    BY DEF ReleaseMargin, UnchangedAside, Done
  <1>2. /\ JobOk(job) /\ pid \in Ids /\ HasOrder(pid) /\ pid \in Position /\ IsBook(book)
    BY <1>1, AtWork DEF AccInv, Typed
  <1>3. pos[pid].st = "CLOSED"
    BY <1>1, <1>2 DEF JobOk
  <1>4. CASE book' = book
    BY <1>1, <1>2, <1>4, PaidStep
  <1>5. CASE book' = b
    <2>1. /\ IsBook(book') /\ book'.open = book.open \ {pid}
          /\ book'.released = book.released \cup {pid}
          /\ book'.reservedBy[pid] = 0 /\ book'.usedBy[pid] = 0
          /\ \A q \in Position : q # pid => /\ book'.reservedBy[q] = book.reservedBy[q]
                                          /\ book'.usedBy[q] = book.usedBy[q]
      BY <1>2, <1>5, BooksMove
    <2>2. book.released \subseteq Position
      BY <1>2 DEF IsBook
    <2>3. UnmappedIsBlank'
      BY <1>1, <1>2, <2>1 DEF AccInv, UnmappedIsBlank, HasOrder, Ids
    <2>4. ReleasedIsClosed' /\ ReleasedIsFree'
      BY <1>1, <1>2, <1>3, <2>1, <2>2 DEF AccInv, ReleasedIsClosed, ReleasedIsFree, Ids
    <2>5. JobFits'
      BY <1>1 DEF JobFits
    <2> QED BY <1>1, <2>1, <2>3, <2>4, <2>5, BookStep
  <1> QED BY <1>1, <1>4, <1>5
-----------------------------------------------------------------------------
(* The edges of the lifecycle that accounting follows. *)
LEMMA EdgesUsed ==
    /\ NextPosState("NEW", "FIRST_FILL") = "OPEN"
    /\ \A s \in {"OPEN", "PARTIALLY_FILLED"}, t \in {"ENTRY_PARTIAL", "ENTRY_COMPLETE"} :
          NextPosState(s, t) \in Trading
    /\ \A s \in Trading : NextPosState(s, "CLOSE") = "CLOSED"
  <1>1. /\ PosEdge("NEW", "FIRST_FILL", "OPEN") \in PosEdges
        /\ PosEdge("OPEN", "ENTRY_PARTIAL", "PARTIALLY_FILLED") \in PosEdges
        /\ PosEdge("OPEN", "ENTRY_COMPLETE", "FULLY_FILLED") \in PosEdges
        /\ PosEdge("PARTIALLY_FILLED", "ENTRY_PARTIAL", "PARTIALLY_FILLED") \in PosEdges
        /\ PosEdge("PARTIALLY_FILLED", "ENTRY_COMPLETE", "FULLY_FILLED") \in PosEdges
        /\ PosEdge("PARTIALLY_FILLED", "CLOSE", "CLOSED") \in PosEdges
        /\ PosEdge("FULLY_FILLED", "CLOSE", "CLOSED") \in PosEdges
    BY DEF PosEdges
  <1>2. \A a, b, d : /\ PosEdge(a, b, d).from = a /\ PosEdge(a, b, d).trigger = b
                     /\ PosEdge(a, b, d).to = d
    BY DEF PosEdge
  <1>3. \A e \in PosEdges :
          /\ e.from = "NEW" /\ e.trigger = "FIRST_FILL" => e.to = "OPEN"
          /\ e.trigger \in {"ENTRY_PARTIAL", "ENTRY_COMPLETE"} => e.to \in Trading
          /\ e.trigger = "CLOSE" => e.to = "CLOSED"
    BY DEF PosEdges, PosEdge, Trading
  <1>4. ASSUME NEW a, NEW b, \E e \in PosEdges : e.from = a /\ e.trigger = b
        PROVE  \E e \in PosEdges : e.from = a /\ e.trigger = b /\ NextPosState(a, b) = e.to
    BY <1>4 DEF NextPosState
  <1>5. ASSUME NEW a, NEW b, NEW d, PosEdge(a, b, d) \in PosEdges
        PROVE  \E e \in PosEdges : e.from = a /\ e.trigger = b /\ NextPosState(a, b) = e.to
    BY <1>2, <1>4, <1>5
  <1>6. NextPosState("NEW", "FIRST_FILL") = "OPEN"
    BY <1>1, <1>3, <1>5
  <1>7. \A s \in {"OPEN", "PARTIALLY_FILLED"}, t \in {"ENTRY_PARTIAL", "ENTRY_COMPLETE"} :
          NextPosState(s, t) \in Trading
    <2>1. ASSUME NEW s \in {"OPEN", "PARTIALLY_FILLED"}, NEW t \in {"ENTRY_PARTIAL", "ENTRY_COMPLETE"}
          PROVE  NextPosState(s, t) \in Trading
      <3>1. \E d : PosEdge(s, t, d) \in PosEdges
        BY <1>1
      <3>2. \E e \in PosEdges : e.from = s /\ e.trigger = t /\ NextPosState(s, t) = e.to
        BY <1>5, <3>1
      <3> QED BY <1>3, <3>2
    <2> QED BY <2>1
  <1>8. \A s \in Trading : NextPosState(s, "CLOSE") = "CLOSED"
    <2>1. ASSUME NEW s \in Trading PROVE NextPosState(s, "CLOSE") = "CLOSED"
      <3>1. \E d : PosEdge(s, "CLOSE", d) \in PosEdges
        BY <1>1 DEF Trading
      <3>2. \E e \in PosEdges : /\ e.from = s /\ e.trigger = "CLOSE"
                                /\ NextPosState(s, "CLOSE") = e.to
        BY <1>5, <3>1
      <3> QED BY <1>3, <3>2
    <2> QED BY <2>1
  <1> QED BY <1>6, <1>7, <1>8

(* The records these edges lead to. *)
LEMMA RecordsMove ==
    ASSUME NEW r \in PosRecord, NEW n \in Nat, NEW price \in Nat
    PROVE  /\ r.st = "NEW" => /\ Opened(r) \in PosRecord /\ Opened(r).st = "OPEN"
                              /\ Opened(r).remaining = r.remaining /\ Opened(r).exits = r.exits
           /\ r.st \in {"OPEN", "PARTIALLY_FILLED"} =>
                /\ Entered(r, n, price) \in PosRecord /\ Entered(r, n, price).st \in Trading
                /\ Entered(r, n, price).exits = r.exits
           /\ r.st \in Trading =>
                /\ Exited(r, n, "CLOSE") \in PosRecord /\ Exited(r, n, "CLOSE").st = "CLOSED"
  <1>0. /\ r.filled \in Nat /\ r.remaining \in Int /\ r.cost \in Int
        /\ r.entries \in SUBSET Nat /\ r.exits \in SUBSET Nat
    BY DEF PosRecord
  <1>1. ASSUME NEW trigger, NextPosState(r.st, trigger) \in {"NEW", "OPEN", "CLOSED"} \cup Trading
        PROVE  /\ Moved(r, trigger) \in PosRecord
               /\ Moved(r, trigger).st = NextPosState(r.st, trigger)
               /\ Moved(r, trigger).filled = r.filled /\ Moved(r, trigger).cost = r.cost
               /\ Moved(r, trigger).remaining = r.remaining
               /\ Moved(r, trigger).entries = r.entries /\ Moved(r, trigger).exits = r.exits
    BY <1>1 DEF Moved, PosRecord
  <1>2. ASSUME r.st = "NEW"
        PROVE  /\ Opened(r) \in PosRecord /\ Opened(r).st = "OPEN"
               /\ Opened(r).remaining = r.remaining /\ Opened(r).exits = r.exits
    BY <1>1, <1>2, EdgesUsed DEF Opened
  <1>3. ASSUME r.st \in {"OPEN", "PARTIALLY_FILLED"}
        PROVE  /\ Entered(r, n, price) \in PosRecord /\ Entered(r, n, price).st \in Trading
               /\ Entered(r, n, price).exits = r.exits
    <2> DEFINE t == IF r.filled + 1 >= r.intended THEN "ENTRY_COMPLETE" ELSE "ENTRY_PARTIAL"
               m == Moved(r, t)
    <2>1. NextPosState(r.st, t) \in Trading
      BY <1>3, EdgesUsed
    <2> HIDE DEF t
    <2>2. /\ m \in PosRecord /\ m.st \in Trading /\ m.filled = r.filled /\ m.cost = r.cost
          /\ m.entries = r.entries /\ m.exits = r.exits
      BY <1>1, <2>1
    <2>3. Entered(r, n, price) = [m EXCEPT !.filled = @ + 1, !.remaining = r.filled + 1,
                                           !.cost = @ + price, !.entries = @ \cup {n}]
      BY DEF Entered, t
    <2> HIDE DEF m
    <2>4. /\ m.filled + 1 \in Nat /\ r.filled + 1 \in Int /\ m.cost + price \in Int
          /\ m.entries \cup {n} \in SUBSET Nat
      BY <1>0, <2>2
    <2>5. Entered(r, n, price) \in PosRecord
      BY <2>2, <2>3, <2>4 DEF PosRecord
    <2>6. Entered(r, n, price).st = m.st /\ Entered(r, n, price).exits = m.exits
      BY <2>2, <2>3 DEF PosRecord
    <2> QED BY <2>2, <2>5, <2>6
  <1>4. ASSUME r.st \in Trading
        PROVE  Exited(r, n, "CLOSE") \in PosRecord /\ Exited(r, n, "CLOSE").st = "CLOSED"
    <2> DEFINE m == Moved(r, "CLOSE")
    <2>1. /\ m \in PosRecord /\ m.st = "CLOSED" /\ m.remaining = r.remaining
          /\ m.exits = r.exits
      BY <1>1, <1>4, EdgesUsed
    <2>2. Exited(r, n, "CLOSE") = [m EXCEPT !.remaining = @ - 1, !.exits = @ \cup {n}]
      BY DEF Exited
    <2> HIDE DEF m
    <2>3. m.remaining - 1 \in Int /\ m.exits \cup {n} \in SUBSET Nat
      BY <1>0, <2>1
    <2> QED BY <2>1, <2>2, <2>3 DEF PosRecord
  <1> QED BY <1>2, <1>3, <1>4

(* A step that replaces the record of a position that has an order. *)
LEMMA RecordStep ==
    ASSUME AccInv, NEW pid \in Ids, HasOrder(pid), NEW r \in PosRecord,
           pos' = [pos EXCEPT ![pid] = r], UNCHANGED <<placed, fills, mapped, book, todo>>,
           r.st \in {"NEW", "OPEN"} => r.remaining = 0,
           r.exits # {} => r.st = "CLOSED",
           pos[pid].st \in Trading \cup {"CLOSED"} => r.st \in Trading \cup {"CLOSED"},
           pos[pid].st = "CLOSED" => r.st = "CLOSED",
           JobFits'
    PROVE  AccInv'
  <1>1. pos \in Seq(PosRecord) /\ pid \in 1..Len(pos)
    BY DEF AccInv, Typed, Ids
  <1>2. /\ pos' \in Seq(PosRecord) /\ Len(pos') = Len(pos) /\ pos'[pid] = r
        /\ \A q \in 1..Len(pos) : q # pid => pos'[q] = pos[q]
    BY <1>1
  <1>3. Ids' = Ids
    BY <1>2 DEF Ids
  <1>4. Typed'
    BY <1>2, <1>3 DEF AccInv, Typed
  <1>5. \A q \in Ids : pos'[q] = IF q = pid THEN r ELSE pos[q]
    BY <1>2 DEF Ids
  <1>6. RecordsFit'
    BY <1>3, <1>5 DEF AccInv, RecordsFit
  <1>7. MapIsSound'
    <2>1. \A i \in 1..Len(mapped) : mapped[i].pid \in Ids
      BY DEF AccInv, Typed
    <2> QED BY <1>5, <2>1 DEF AccInv, MapIsSound
  <1>8. UnmappedIsBlank'
    BY <1>3, <1>5 DEF AccInv, UnmappedIsBlank, HasOrder
  <1>9. ReleasedIsClosed' /\ ReleasedIsFree'
    BY <1>3, <1>5 DEF AccInv, ReleasedIsClosed, ReleasedIsFree
  <1> QED BY <1>4, <1>6, <1>7, <1>8, <1>9 DEF AccInv

(* An entry fill enters its position. *)
LEMMA RecordEntryFillKeeps ==
    ASSUME AccInv, RecordEntryFill
    PROVE  AccInv'
  <1> DEFINE pid == job.pid
             r == pos[pid]
             n == job.fill
  <1>1. job.at = "enter" /\ UNCHANGED <<placed, fills, mapped, book, todo>>
    BY DEF RecordEntryFill, UnchangedAside
  <1>2. /\ JobOk(job) /\ job \in [fill : 1..Len(fills), pid : Nat, at : Step] /\ pid \in Ids
        /\ HasOrder(pid) /\ r \in PosRecord
    BY <1>1, AtWork
  <1>3. \/ job' = [job EXCEPT !.at = "reserve"] /\ pos' = pos
        \/ job' = Idle /\ pos' = pos
        \/ r.st = "NEW" /\ pos' = [pos EXCEPT ![pid] = Opened(r)] /\ job' = job
        \/ /\ r.st \in {"OPEN", "PARTIALLY_FILLED"} /\ job' = [job EXCEPT !.at = "reserve"]
           /\ pos' = [pos EXCEPT ![pid] = Entered(r, n, This.price)]
    BY DEF RecordEntryFill, Goto, Done, TakesEntry
  <1>4. n \in Nat /\ This.price \in Nat
    <2>1. fills[n] \in VenueFill /\ n \in Nat
      BY <1>2 DEF AccInv, Typed
    <2> QED BY <2>1 DEF VenueFill, This
  <1>5. RecordsFit
    BY DEF AccInv
  <1>6. ASSUME job' = [job EXCEPT !.at = "reserve"]
        PROVE  /\ job'.at = "reserve" /\ job'.pid = pid
               /\ job' \in [fill : 1..Len(fills), pid : Nat, at : Step]
    BY <1>2, <1>6 DEF Step
  <1>7. CASE job' = [job EXCEPT !.at = "reserve"] /\ pos' = pos
    <2>1. JobOk(job')
      BY <1>2, <1>6, <1>7 DEF JobOk
    <2> QED BY <1>1, <1>7, <2>1, AsideStep DEF AccInv, Typed
  <1>8. CASE job' = Idle /\ pos' = pos
    BY <1>1, <1>8, AsideStep DEF AccInv, Typed
  <1>9. CASE r.st = "NEW" /\ pos' = [pos EXCEPT ![pid] = Opened(r)] /\ job' = job
    <2>1. /\ Opened(r) \in PosRecord /\ Opened(r).st = "OPEN"
          /\ Opened(r).remaining = r.remaining /\ Opened(r).exits = r.exits
      BY <1>2, <1>4, <1>9, RecordsMove
    <2>2. r.remaining = 0 /\ r.exits = {}
      BY <1>2, <1>5, <1>9 DEF RecordsFit
    <2>3. Len(pos') = Len(pos)
      BY <1>9, <1>2 DEF AccInv, Typed
    <2>4. JobFits'
      BY <1>1, <1>2, <1>9, <2>3 DEF JobFits, JobOk, Ids, HasOrder, IsMapped
    <2>5. "NEW" \notin Trading \cup {"CLOSED"}
      BY DEF Trading
    <2> QED BY <1>1, <1>2, <1>9, <2>1, <2>2, <2>4, <2>5, RecordStep
  <1>10. CASE /\ r.st \in {"OPEN", "PARTIALLY_FILLED"} /\ job' = [job EXCEPT !.at = "reserve"]
              /\ pos' = [pos EXCEPT ![pid] = Entered(r, n, This.price)]
    <2> DEFINE new == Entered(r, n, This.price)
    <2>1. new \in PosRecord /\ new.st \in Trading /\ new.exits = r.exits
      BY <1>2, <1>4, <1>10, RecordsMove
    <2> HIDE DEF new
    <2>2. r.exits = {}
      BY <1>2, <1>5, <1>10 DEF RecordsFit
    <2>3. Len(pos') = Len(pos)
      BY <1>10, <1>2 DEF AccInv, Typed
    <2>4. JobFits'
      BY <1>1, <1>2, <1>6, <1>10, <2>3 DEF JobFits, JobOk, Ids, HasOrder, IsMapped
    <2>5. new.st \notin {"NEW", "OPEN"}
      BY <2>1 DEF Trading
    <2>6. pos' = [pos EXCEPT ![pid] = new] /\ pos[pid].st # "CLOSED"
      BY <1>10 DEF new
    <2> QED BY <1>1, <1>2, <2>1, <2>2, <2>4, <2>5, <2>6, RecordStep
  <1> QED BY <1>3, <1>7, <1>8, <1>9, <1>10

(* The last exit fill closes its position. *)
LEMMA RecordExitKeeps ==
    ASSUME AccInv, RecordExit
    PROVE  AccInv'
  <1> DEFINE pid == job.pid
             r == pos[pid]
             n == job.fill
  <1>1. /\ job.at = "exit" /\ UNCHANGED <<placed, fills, mapped, book, todo>>
        /\ job' = [job EXCEPT !.at = "release"]
        /\ pos' = IF n \in r.exits THEN pos ELSE [pos EXCEPT ![pid] = Exited(r, n, "CLOSE")]
    BY DEF RecordExit, UnchangedAside, Goto
  <1>2. /\ JobOk(job) /\ job \in [fill : 1..Len(fills), pid : Nat, at : Step] /\ pid \in Ids
        /\ HasOrder(pid) /\ r \in PosRecord /\ n \in Nat
    BY <1>1, AtWork
  <1>3. r.st \in Trading /\ RecordsFit
    BY <1>1, <1>2 DEF JobOk, AccInv
  <1>4. r.exits = {}
    BY <1>2, <1>3 DEF RecordsFit, Trading
  <1> DEFINE new == Exited(r, n, "CLOSE")
  <1>5. new \in PosRecord /\ new.st = "CLOSED"
    BY <1>2, <1>3, RecordsMove
  <1>6. pos' = [pos EXCEPT ![pid] = new]
    BY <1>1, <1>4
  <1> HIDE DEF new
  <1>7. /\ job'.at = "release" /\ job'.pid = pid
        /\ job' \in [fill : 1..Len(fills), pid : Nat, at : Step]
    BY <1>1, <1>2 DEF Step
  <1>8. Len(pos') = Len(pos) /\ pos'[pid] = new
    BY <1>2, <1>6 DEF AccInv, Typed, Ids
  <1>9. JobFits'
    BY <1>1, <1>2, <1>5, <1>7, <1>8 DEF JobFits, JobOk, Ids, HasOrder, IsMapped
  <1> QED BY <1>1, <1>2, <1>5, <1>6, <1>9, RecordStep
-----------------------------------------------------------------------------
(* A new position; nobody's yet. *)
LEMMA CreatePositionKeeps ==
    ASSUME AccInv, CreatePosition
    PROVE  AccInv'
  <1> DEFINE n == job.fill
             k == Len(pos) + 1
             r == NewPosition(placed[This.order])
  <1>1. /\ job.at = "create" /\ UNCHANGED <<placed, fills, mapped, book, todo>>
        /\ k \in Position /\ pos' = Append(pos, r)
        /\ job' = [job EXCEPT !.pid = k, !.at = "map"]
    BY DEF CreatePosition, UnchangedAside
  <1>2. JobOk(job) /\ job \in [fill : 1..Len(fills), pid : Nat, at : Step]
    BY <1>1, AtWork
  <1>3. /\ pos \in Seq(PosRecord) /\ Len(pos) \in Nat /\ Ids \subseteq Position
        /\ fills \in Seq(VenueFill) /\ placed \in [Order -> Nat]
    BY DEF AccInv, Typed
  <1>4. r \in PosRecord /\ r.st = "NEW" /\ r.remaining = 0 /\ r.exits = {}
    <2>1. fills[n] \in VenueFill
      BY <1>2, <1>3
    <2>2. placed[This.order] \in Nat
      BY <1>3, <2>1 DEF VenueFill, This
    <2> QED BY <2>2 DEF NewPosition, PosRecord
  <1> HIDE DEF r
  <1>5. /\ pos' \in Seq(PosRecord) /\ Len(pos') = k /\ pos'[k] = r
        /\ \A q \in 1..Len(pos) : pos'[q] = pos[q]
    BY <1>1, <1>3, <1>4
  <1>6. Ids' = Ids \cup {k} /\ k \notin Ids
    BY <1>3, <1>5 DEF Ids
  <1>7. \A i \in 1..Len(mapped) : mapped[i].pid \in Ids
    BY DEF AccInv, Typed
  <1>8. \A q \in Ids : pos'[q] = pos[q]
    BY <1>5 DEF Ids
  <1>9. Typed'
    BY <1>1, <1>3, <1>5, <1>6, <1>7 DEF AccInv, Typed
  <1>10. RecordsFit'
    BY <1>4, <1>5, <1>6, <1>8 DEF AccInv, RecordsFit
  <1>11. MapIsSound'
    BY <1>1, <1>7, <1>8 DEF AccInv, MapIsSound
  <1>12. UnmappedIsBlank'
    BY <1>1, <1>4, <1>5, <1>6, <1>8 DEF AccInv, UnmappedIsBlank, HasOrder
  <1>13. ReleasedIsClosed' /\ ReleasedIsFree'
    BY <1>1, <1>6, <1>8 DEF AccInv, ReleasedIsClosed, ReleasedIsFree
  <1>14. JobFits'
    <2>1. /\ job'.at = "map" /\ job'.pid = k /\ job'.fill = n
          /\ job' \in [fill : 1..Len(fills), pid : Nat, at : Step]
      <3>1. k \in Nat
        BY <1>3
      <3> HIDE DEF k
      <3> QED BY <1>1, <1>2, <3>1 DEF Step
    <2>2. fills[n].order \in EntryOrder /\ ~ IsMapped(fills[n].order)
      BY <1>1, <1>2 DEF JobOk
    <2>3. ~ HasOrder(k)
      BY <1>6, <1>7 DEF HasOrder
    <2>4. JobOk(job)'
      BY <1>1, <1>6, <2>1, <2>2, <2>3 DEF JobOk, HasOrder, IsMapped
    <2> QED BY <2>4 DEF JobFits
  <1> QED BY <1>9, <1>10, <1>11, <1>12, <1>13, <1>14 DEF AccInv

(* The order of the fill is mapped to its position. *)
LEMMA MapOrderKeeps ==
    ASSUME AccInv, MapOrder
    PROVE  AccInv'
  <1> DEFINE c == fills[job.fill].order
             pid == job.pid
             m == [order |-> c, pid |-> pid]
             at == IF job.at = "map" THEN "enter" ELSE "realize"
             len == Len(mapped)
  <1>1. /\ job.at \in {"map", "claim"} /\ UNCHANGED <<placed, fills, pos, book, todo>>
        /\ mapped' = Append(mapped, m) /\ job' = [job EXCEPT !.at = at]
    BY DEF MapOrder, UnchangedAside, Goto, This
  <1>2. JobOk(job) /\ job \in [fill : 1..Len(fills), pid : Nat, at : Step]
    BY <1>1, AtWork
  <1>3. /\ mapped \in Seq(MapEntry) /\ len \in Nat /\ fills \in Seq(VenueFill)
        /\ Ids \subseteq Nat \ {0} /\ \A i \in 1..len : mapped[i].pid \in Ids
    BY DEF AccInv, Typed, Ids
  <1>4. /\ pid \in Ids /\ ~ IsMapped(c)
        /\ job.at = "map" => c \in EntryOrder /\ ~ HasOrder(pid)
        /\ job.at = "claim" => c \in ExitOrder /\ HasOrder(pid) /\ pos[pid].st \in Trading
    BY <1>1, <1>2 DEF JobOk
  <1>5. m \in MapEntry /\ m.order = c /\ m.pid = pid
    <2>1. fills[job.fill] \in VenueFill
      BY <1>2, <1>3
    <2> QED BY <1>3, <1>4, <2>1 DEF VenueFill, MapEntry
  <1> HIDE DEF m, c
  <1>6. /\ mapped' \in Seq(MapEntry) /\ Len(mapped') = len + 1 /\ mapped'[len + 1] = m
        /\ \A i \in 1..len : mapped'[i] = mapped[i]
    BY <1>1, <1>3, <1>5
  <1>7. \A i \in 1..Len(mapped') : i \in 1..len \/ i = len + 1
    BY <1>3, <1>6
  <1>8. 1..len \subseteq 1..Len(mapped') /\ len + 1 \in 1..Len(mapped') /\ len + 1 \notin 1..len
    BY <1>3, <1>6
  <1>9. Typed'
    <2>1. \A i \in 1..Len(mapped') : mapped'[i].pid \in Ids
      BY <1>3, <1>4, <1>5, <1>6, <1>7
    <2> QED BY <1>1, <1>6, <2>1 DEF AccInv, Typed, Ids
  <1>10. RecordsFit'
    BY <1>1 DEF AccInv, RecordsFit, Ids
  <1>11. MapIsSound'
    <2>1. \A i \in 1..len : /\ mapped[i].order # c
                            /\ c \in EntryOrder => mapped[i].pid # pid
      <3>1. \A i \in 1..len : mapped[i].order # c
        BY <1>4 DEF IsMapped
      <3>2. c \in EntryOrder => ~ HasOrder(pid)
        BY <1>1, <1>4, AccountingAssumption
      <3> QED BY <3>1, <3>2 DEF HasOrder
    <2>2. \A i, j \in 1..Len(mapped') :
             i # j => /\ mapped'[i].order # mapped'[j].order
                      /\ {mapped'[i].order, mapped'[j].order} \subseteq EntryOrder
                           => mapped'[i].pid # mapped'[j].pid
      <3>1. ASSUME NEW i \in 1..len, NEW j \in 1..len, i # j
            PROVE  /\ mapped'[i].order # mapped'[j].order
                   /\ {mapped'[i].order, mapped'[j].order} \subseteq EntryOrder
                        => mapped'[i].pid # mapped'[j].pid
        BY <1>6, <3>1 DEF AccInv, MapIsSound
      <3>2. ASSUME NEW i \in 1..len
            PROVE  /\ mapped'[i].order # mapped'[len + 1].order
                   /\ {mapped'[i].order, mapped'[len + 1].order} \subseteq EntryOrder
                        => mapped'[i].pid # mapped'[len + 1].pid
        BY <1>5, <1>6, <2>1
      <3> QED BY <1>7, <3>1, <3>2
    <2>3. c \in ExitOrder => pos[pid].st \in Trading
      BY <1>1, <1>4, AccountingAssumption
    <2>4. \A i \in 1..Len(mapped') :
             mapped'[i].order \in ExitOrder => pos[mapped'[i].pid].st \in Trading \cup {"CLOSED"}
      BY <1>5, <1>6, <1>7, <2>3 DEF AccInv, MapIsSound
    <2> QED BY <1>1, <2>2, <2>4 DEF MapIsSound
  <1>12. \A q : HasOrder(q) => HasOrder(q)'
    BY <1>6, <1>8 DEF HasOrder
  <1>13. HasOrder(job.pid)'
    <2>1. job'.pid = pid
      BY <1>1, <1>2
    <2> QED BY <1>5, <1>6, <1>8, <2>1 DEF HasOrder
  <1>14. UnmappedIsBlank'
    BY <1>1, <1>12 DEF AccInv, UnmappedIsBlank, Ids
  <1>15. ReleasedIsClosed' /\ ReleasedIsFree'
    BY <1>1 DEF AccInv, ReleasedIsClosed, ReleasedIsFree, Ids
  <1>16. JobFits'
    <2>1. /\ job'.at = at /\ job'.pid = pid /\ at \in {"enter", "realize"}
          /\ job' \in [fill : 1..Len(fills), pid : Nat, at : Step]
      BY <1>1, <1>2 DEF Step
    <2>2. at = "realize" => pos[pid].st \in Trading
      BY <1>1, <1>4
    <2> HIDE DEF at
    <2>3. JobOk(job)'
      BY <1>1, <1>4, <1>13, <2>1, <2>2 DEF JobOk, Ids
    <2> QED BY <2>3 DEF JobFits
  <1> QED BY <1>9, <1>10, <1>11, <1>14, <1>15, <1>16 DEF AccInv

-----------------------------------------------------------------------------
(* Nothing has happened yet. *)
LEMMA InitAccounting == Init => AccInv
  <1> SUFFICES ASSUME Init PROVE AccInv
    OBVIOUS
  <1>1. /\ fills = << >> /\ pos = << >> /\ mapped = << >> /\ todo = {} /\ job = Idle
        /\ book = Deposited(EmptyBook, Funds) /\ placed = [c \in Order |-> 0]
    BY DEF Init
  <1>2. /\ IsBook(book) /\ book.open = {} /\ book.released = {}
        /\ \A pid \in Position : book.reservedBy[pid] = 0
    BY <1>1 DEF Deposited, EmptyBook, IsBook, Fields
  <1>3. Len(pos) = 0 /\ Len(mapped) = 0 /\ Ids = {} /\ placed \in [Order -> Nat]
    BY <1>1 DEF Ids
  <1>4. Typed
    BY <1>1, <1>2, <1>3 DEF Typed
  <1>5. RecordsFit /\ MapIsSound /\ UnmappedIsBlank
    BY <1>2, <1>3 DEF RecordsFit, MapIsSound, UnmappedIsBlank
  <1>6. ReleasedIsClosed /\ ReleasedIsFree /\ JobFits
    BY <1>1, <1>2 DEF ReleasedIsClosed, ReleasedIsFree, JobFits
  <1> QED BY <1>4, <1>5, <1>6 DEF AccInv

(* Every step keeps the invariant. *)
LEMMA NextAccounting == AccInv /\ [Next]_vars => AccInv'
  <1> SUFFICES ASSUME AccInv, [Next]_vars PROVE AccInv'
    OBVIOUS
  <1>1. ASSUME NEW c \in Order, NEW price \in 1..MaxPrice, VenueFills(c, price) PROVE AccInv'
    BY <1>1, VenueFillsKeeps
  <1>2. ASSUME NEW n \in todo, BookOne(n) PROVE AccInv'
    BY <1>2, BookOneKeeps
  <1>3. CASE UNCHANGED vars
    BY <1>3, AsideStep DEF vars, AccInv, Typed
  <1>4. CASE Book
    BY <1>2, <1>4, CreatePositionKeeps, MapOrderKeeps, RecordEntryFillKeeps, ReserveMarginKeeps,
       AllocateMarginKeeps, PaidKeeps, RecordExitKeeps, ReleaseMarginKeeps DEF Book
  <1> QED BY <1>1, <1>3, <1>4, AsideKeeps, PaidKeeps DEF Next

(* The inductive invariant holds in every state. *)
LEMMA AccountingHolds == Spec => []AccInv
  BY InitAccounting, NextAccounting, PTL DEF Spec

(* accounting.py _book_entry: wherever a crash falls between the creation  *)
(* of a position and the record of whose it is, an order has at most one   *)
(* position, and a position that lost its order is new, open nowhere and   *)
(* without margin.                                                         *)
THEOREM OrphansStayInert == Spec => []OrphansAreInert
  <1>1. AccInv => OrphansAreInert
    BY DEF AccInv, OrphansAreInert, MapIsSound, UnmappedIsBlank, HasOrder, Typed, Ids
  <1> QED BY <1>1, AccountingHolds, PTL

(* accounting.py _book_entry, _book_exit: whatever fills arrive late or    *)
(* are processed again, a position whose margin was released never holds   *)
(* margin nor a slot again.                                                *)
THEOREM ReleasedStaysFree == Spec => []ReleasedIsFree
  <1>1. AccInv => ReleasedIsFree
    BY DEF AccInv
  <1> QED BY <1>1, AccountingHolds, PTL

-----------------------------------------------------------------------------
(***************************************************************************)
(* Margin is booked once                                                   *)
(***************************************************************************)

(* A set that holds 0 and with each number the next one holds them all:    *)
(* there is no least number outside it.                                    *)
LEMMA NumbersByInduction ==
    ASSUME NEW S, 0 \in S, \A n \in Nat : n \in S => n + 1 \in S
    PROVE  \A n \in Nat : n \in S
  <1> DEFINE Out == {n \in Nat : n \notin S}
             Less == OpToRel(<, Nat)
  <1>1. SUFFICES ASSUME Out # {} PROVE FALSE
    OBVIOUS
  <1>2. IsWellFoundedOn(Less, Nat)
    BY NatLessThanWellFounded
  <1>3. \A x, y \in Nat : <<x, y>> \in Less <=> x < y
    BY DEF OpToRel
  <1> HIDE DEF Less
  <1>4. PICK n \in Out : \A k \in Out : ~ (<<k, n>> \in Less)
    <2>1. Out \subseteq Nat
      OBVIOUS
    <2> HIDE DEF Out
    <2> QED BY <1>1, <1>2, <2>1, WFMin
  <1>5. n \in Nat /\ n # 0 /\ n \notin S
    BY <1>4
  <1>6. n - 1 \in Nat /\ n - 1 < n /\ (n - 1) + 1 = n
    BY <1>5
  <1>7. n - 1 \in Out
    BY <1>5, <1>6
  <1> QED BY <1>3, <1>4, <1>5, <1>6, <1>7

(* f holds the running sums of the chosen fills among the first m. *)
SumsTo(f, list, chosen, m) ==
    f = [n \in 0..m |-> IF n = 0 THEN 0
                        ELSE f[n - 1] + (IF n \in chosen THEN list[n].price ELSE 0)]

(* There are such sums. *)
LEMMA SumsExist ==
    ASSUME NEW list, NEW chosen, NEW m \in Nat
    PROVE  \E f : SumsTo(f, list, chosen, m)
  <1> DEFINE S == {n \in Nat : \E f : SumsTo(f, list, chosen, n)}
  <1>1. 0 \in S
    <2> DEFINE f == [n \in 0..0 |-> 0]
    <2>1. SumsTo(f, list, chosen, 0)
      BY DEF SumsTo
    <2> QED BY <2>1
  <1>2. ASSUME NEW n \in Nat, n \in S PROVE n + 1 \in S
    <2>1. PICK f : SumsTo(f, list, chosen, n)
      BY <1>2
    <2> DEFINE g == [i \in 0..(n + 1) |->
                       IF i = n + 1 THEN f[n] + (IF i \in chosen THEN list[i].price ELSE 0) ELSE f[i]]
    <2>2. \A i \in 0..n : f[i] = IF i = 0 THEN 0
                                 ELSE f[i - 1] + (IF i \in chosen THEN list[i].price ELSE 0)
      BY <2>1 DEF SumsTo
    <2>3. ASSUME NEW i \in 0..(n + 1)
          PROVE  g[i] = IF i = 0 THEN 0
                        ELSE g[i - 1] + (IF i \in chosen THEN list[i].price ELSE 0)
      <3>1. CASE i = n + 1
        BY <3>1
      <3>2. CASE i \in 0..n
        BY <2>2, <3>2
      <3> QED BY <3>1, <3>2
    <2>4. SumsTo(g, list, chosen, n + 1)
      BY <2>3 DEF SumsTo
    <2> QED BY <2>4
  <1>3. m \in S
    <2> HIDE DEF S
    <2> QED BY <1>1, <1>2, NumbersByInduction
  <1> QED BY <1>3

(* PriceSum is the last of them. *)
LEMMA PriceSumIs ==
    ASSUME NEW list \in Seq(VenueFill), NEW chosen
    PROVE  \E f : SumsTo(f, list, chosen, Len(list)) /\ PriceSum(list, chosen) = f[Len(list)]
  <1>1. Len(list) \in Nat
    OBVIOUS
  <1>2. \E f : f = [n \in 0..Len(list) |->
                      IF n = 0 THEN 0
                      ELSE f[n - 1] + (IF n \in chosen THEN list[n].price ELSE 0)]
    <2>1. \E f : SumsTo(f, list, chosen, Len(list))
      BY <1>1, SumsExist
    <2> QED BY <2>1 DEF SumsTo
  <1> DEFINE f == CHOOSE f : f = [n \in 0..Len(list) |->
                      IF n = 0 THEN 0
                      ELSE f[n - 1] + (IF n \in chosen THEN list[n].price ELSE 0)]
  <1>3. SumsTo(f, list, chosen, Len(list))
    BY <1>2 DEF SumsTo
  <1>4. PriceSum(list, chosen) = f[Len(list)]
    BY Zenon DEF PriceSum
  <1> QED BY <1>3, <1>4

(* The sums are numbers, and two that choose alike up to m agree up to m;  *)
(* one that chooses k besides is larger by the price of k from k onwards.  *)
LEMMA SumsAre ==
    ASSUME NEW list \in Seq(VenueFill), NEW chosen, NEW m \in Nat, m <= Len(list),
           NEW f, SumsTo(f, list, chosen, m)
    PROVE  \A n \in 0..m : f[n] \in Nat
  <1> DEFINE S == {n \in Nat : n <= m => f[n] \in Nat}
  <1>1. 0 \in S
    BY DEF SumsTo
  <1>2. ASSUME NEW n \in Nat, n \in S PROVE n + 1 \in S
    <2>1. SUFFICES ASSUME n + 1 <= m PROVE f[n + 1] \in Nat
      OBVIOUS
    <2>2. n + 1 \in 0..m /\ n + 1 # 0 /\ (n + 1) - 1 = n /\ n + 1 \in 1..Len(list) /\ n <= m
      BY <2>1
    <2>3. f[n + 1] = f[n] + (IF n + 1 \in chosen THEN list[n + 1].price ELSE 0)
      BY <2>2 DEF SumsTo
    <2>4. list[n + 1].price \in Nat
      <3>1. list[n + 1] \in VenueFill
        BY <2>2
      <3> QED BY <3>1 DEF VenueFill
    <2>5. f[n] \in Nat
      BY <1>2, <2>2
    <2> QED BY <2>3, <2>4, <2>5
  <1>3. \A n \in Nat : n \in S
    <2> HIDE DEF S
    <2> QED BY <1>1, <1>2, NumbersByInduction
  <1> QED BY <1>3

AlikeBut(k, l1, c1, l2, c2) ==
    /\ Len(l1) <= Len(l2)
    /\ \A i \in 1..Len(l1) : l1[i] = l2[i] /\ (i # k => (i \in c1 <=> i \in c2))
    /\ k \in 1..Len(l1) => k \in c2 /\ k \notin c1

LEMMA SumsCompare ==
    ASSUME NEW l1 \in Seq(VenueFill), NEW l2 \in Seq(VenueFill), NEW c1, NEW c2, NEW f, NEW g,
           SumsTo(f, l1, c1, Len(l1)), SumsTo(g, l2, c2, Len(l2)), NEW k \in Nat,
           AlikeBut(k, l1, c1, l2, c2)
    PROVE  \A n \in 0..Len(l1) : g[n] = f[n] + (IF k \in 1..n THEN l1[k].price ELSE 0)
  <1> DEFINE m == Len(l1)
             m2 == Len(l2)
  <1>0. /\ m \in Nat /\ m2 \in Nat /\ m <= m2 /\ m2 <= Len(l2) /\ m <= Len(l1)
        /\ \A i \in 1..m : l1[i] = l2[i] /\ (i # k => (i \in c1 <=> i \in c2))
        /\ k \in 1..m => k \in c2 /\ k \notin c1
        /\ SumsTo(f, l1, c1, m) /\ SumsTo(g, l2, c2, m2)
    BY DEF AlikeBut
  <1> HIDE DEF m, m2
  <1> DEFINE S == {n \in Nat : n <= m => g[n] = f[n] + (IF k \in 1..n THEN l1[k].price ELSE 0)}
  <1>1. /\ \A n \in 0..m : f[n] \in Nat
        /\ \A n \in 0..m2 : g[n] \in Nat
    BY <1>0, SumsAre
  <1>2. 0 \in S
    <2>1. f[0] = 0 /\ g[0] = 0
      BY <1>0 DEF SumsTo
    <2> QED BY <2>1
  <1>3. ASSUME NEW n \in Nat, n \in S PROVE n + 1 \in S
    <2>1. SUFFICES ASSUME n + 1 <= m
                   PROVE  g[n + 1] = f[n + 1] + (IF k \in 1..(n + 1) THEN l1[k].price ELSE 0)
      OBVIOUS
    <2>2. /\ n + 1 \in 0..m /\ n + 1 \in 0..m2 /\ n + 1 # 0 /\ (n + 1) - 1 = n
          /\ n + 1 \in 1..m /\ n <= m /\ n + 1 \in 1..Len(l1) /\ n \in 0..m
      BY <1>0, <2>1
    <2>3. f[n + 1] = f[n] + (IF n + 1 \in c1 THEN l1[n + 1].price ELSE 0)
      BY <1>0, <2>2 DEF SumsTo
    <2>4. g[n + 1] = g[n] + (IF n + 1 \in c2 THEN l1[n + 1].price ELSE 0)
      BY <1>0, <2>2 DEF SumsTo
    <2>5. l1[n + 1].price \in Nat
      <3>1. l1[n + 1] \in VenueFill
        BY <2>2
      <3> QED BY <3>1 DEF VenueFill
    <2>6. f[n] \in Nat /\ g[n] \in Nat
      BY <1>1, <1>0, <2>2
    <2>7. g[n] = f[n] + (IF k \in 1..n THEN l1[k].price ELSE 0)
      BY <1>3, <2>2
    <2>8. CASE k = n + 1
      <3>1. k \notin 1..n /\ k \in 1..(n + 1) /\ k \in c2 /\ k \notin c1
        BY <1>0, <2>2, <2>8
      <3> QED BY <2>3, <2>4, <2>5, <2>6, <2>7, <2>8, <3>1
    <2>9. CASE k # n + 1
      <3>1. (k \in 1..n <=> k \in 1..(n + 1)) /\ (n + 1 \in c1 <=> n + 1 \in c2)
        BY <1>0, <2>2, <2>9
      <3>2. CASE k \in 1..n
        <4>1. l1[k].price \in Nat
          <5>1. l1[k] \in VenueFill
            BY <1>0, <2>2, <3>2
          <5> QED BY <5>1 DEF VenueFill
        <4> QED BY <2>3, <2>4, <2>5, <2>6, <2>7, <3>1, <3>2, <4>1
      <3>3. CASE k \notin 1..n
        BY <2>3, <2>4, <2>5, <2>6, <2>7, <3>1, <3>3
      <3> QED BY <3>2, <3>3
    <2> QED BY <2>8, <2>9
  <1>4. \A n \in Nat : n \in S
    <2> HIDE DEF S
    <2> QED BY <1>2, <1>3, NumbersByInduction
  <1> QED BY <1>4 DEF m

(* Nothing is summed of no fills; one more fill that is not chosen leaves  *)
(* the sum; a fill chosen besides adds its price.                          *)
LEMMA PriceSums ==
    ASSUME NEW list \in Seq(VenueFill), NEW chosen
    PROVE  /\ PriceSum(list, chosen) \in Nat
           /\ Len(list) = 0 => PriceSum(list, chosen) = 0
           /\ \A x \in VenueFill : \A also :
                 (\A i \in 1..Len(list) : i \in chosen <=> i \in also) /\ Len(list) + 1 \notin also
                   => PriceSum(Append(list, x), also) = PriceSum(list, chosen)
           /\ \A k \in 1..Len(list) : k \notin chosen =>
                 PriceSum(list, chosen \cup {k}) = PriceSum(list, chosen) + list[k].price
  <1>1. PICK f : SumsTo(f, list, chosen, Len(list)) /\ PriceSum(list, chosen) = f[Len(list)]
    BY PriceSumIs
  <1>2. Len(list) \in Nat /\ Len(list) \in 0..Len(list)
    OBVIOUS
  <1>3. PriceSum(list, chosen) \in Nat
    BY <1>1, <1>2, SumsAre
  <1>4. Len(list) = 0 => PriceSum(list, chosen) = 0
    BY <1>1, <1>2 DEF SumsTo
  <1>5. ASSUME NEW x \in VenueFill, NEW also,
               \A i \in 1..Len(list) : i \in chosen <=> i \in also, Len(list) + 1 \notin also
        PROVE  PriceSum(Append(list, x), also) = PriceSum(list, chosen)
    <2> DEFINE t == Append(list, x)
    <2>1. /\ t \in Seq(VenueFill) /\ Len(t) = Len(list) + 1 /\ Len(list) <= Len(t)
          /\ \A i \in 1..Len(list) : list[i] = t[i]
      OBVIOUS
    <2> HIDE DEF t
    <2>2. PICK g : SumsTo(g, t, also, Len(t)) /\ PriceSum(t, also) = g[Len(t)]
      BY <2>1, PriceSumIs
    <2>3. \A n \in 0..Len(list) : g[n] = f[n] + (IF 0 \in 1..n THEN list[0].price ELSE 0)
      <3>1. AlikeBut(0, list, chosen, t, also)
        BY <1>2, <1>5, <2>1 DEF AlikeBut
      <3> QED BY <1>1, <2>1, <2>2, <3>1, SumsCompare
    <2>4. f[Len(list)] \in Nat
      BY <1>1, <1>3
    <2>5. g[Len(list)] = f[Len(list)]
      BY <1>2, <2>3, <2>4
    <2>6. g[Len(t)] = g[Len(list)] + 0
      <3>1. Len(t) \in 0..Len(t) /\ Len(t) # 0 /\ Len(t) - 1 = Len(list)
        BY <1>2, <2>1
      <3> QED BY <1>5, <2>1, <2>2, <3>1 DEF SumsTo
    <2> QED BY <1>1, <2>2, <2>4, <2>5, <2>6 DEF t
  <1>6. ASSUME NEW k \in 1..Len(list), k \notin chosen
        PROVE  PriceSum(list, chosen \cup {k}) = PriceSum(list, chosen) + list[k].price
    <2> DEFINE also == chosen \cup {k}
    <2>1. AlikeBut(k, list, chosen, list, also) /\ k \in Nat
      BY <1>2, <1>6 DEF AlikeBut
    <2> HIDE DEF also
    <2>2. PICK g : SumsTo(g, list, also, Len(list)) /\ PriceSum(list, also) = g[Len(list)]
      BY PriceSumIs
    <2>3. \A n \in 0..Len(list) : g[n] = f[n] + (IF k \in 1..n THEN list[k].price ELSE 0)
      BY <1>1, <2>1, <2>2, SumsCompare
    <2> QED BY <1>1, <1>2, <2>2, <2>3 DEF also
  <1> QED BY <1>3, <1>4, <1>5, <1>6

-----------------------------------------------------------------------------
(* The ledger's margins are numbers, a reservation is of a fill there is,  *)
(* and margin that is due and can be represented is reserved or in use.    *)
MarginsTyped == book.reservedBy \in [Position -> Int] /\ book.usedBy \in [Position -> Int]
KeysAreOfFills == \A pid, n : <<"reserve", pid, n>> \in keys => n \in 1..Len(fills)
MarginCovered(pid) ==
    /\ book.reservedBy[pid] >= 0 /\ book.usedBy[pid] >= 0
    /\ book.reservedBy[pid] + book.usedBy[pid] = MarginDue(pid)
MarginsCovered ==
    \A pid \in Position \ book.released : Fits(MarginDue(pid)) => MarginCovered(pid)

MarginInv == AccInv /\ MarginsTyped /\ KeysAreOfFills /\ MarginsCovered

(* Rounding gives a whole number, and leaves one that fits alone. *)
LEMMA RoundIs == \A x \in Int : Round(x) \in Int /\ (Fits(x) => Round(x) = x)
  BY ExactAssumption DEF Round, Fits, HalfEven

LEMMA MarginDueIs ==
    ASSUME AccInv, NEW pid
    PROVE  MarginDue(pid) \in Nat
  <1>1. fills \in Seq(VenueFill)
    BY DEF AccInv, Typed
  <1>2. PriceSum(fills, ReservedFills(pid)) \in Nat
    BY <1>1, PriceSums
  <1> QED BY <1>2, AccountingAssumption DEF MarginDue

(* A step that leaves the margins and the reservations alone. *)
LEMMA MarginsAside ==
    ASSUME MarginInv, AccInv', fills' = fills, book'.reservedBy = book.reservedBy,
           book'.usedBy = book.usedBy, book.released \subseteq book'.released,
           \A pid, n : <<"reserve", pid, n>> \in keys' <=> <<"reserve", pid, n>> \in keys
    PROVE  MarginInv'
  <1>1. MarginsTyped' /\ KeysAreOfFills'
    BY DEF MarginInv, MarginsTyped, KeysAreOfFills
  <1>2. \A pid : MarginDue(pid)' = MarginDue(pid)
    <2>1. \A pid : ReservedFills(pid)' = ReservedFills(pid)
      BY DEF ReservedFills
    <2> QED BY <2>1 DEF MarginDue
  <1>3. MarginsCovered'
    BY <1>2 DEF MarginInv, MarginsCovered, MarginCovered
  <1> QED BY <1>1, <1>3 DEF MarginInv

(* A fill that comes is not reserved for yet. *)
LEMMA MarginsFill ==
    ASSUME MarginInv, AccInv', NEW c \in Order, NEW price \in 1..MaxPrice, VenueFills(c, price)
    PROVE  MarginInv'
  <1> DEFINE f == [order |-> c, price |-> price]
  <1>1. fills' = Append(fills, f) /\ UNCHANGED <<book, keys>>
    BY DEF VenueFills
  <1>2. fills \in Seq(VenueFill) /\ f \in VenueFill /\ Len(fills) \in Nat
    BY DEF MarginInv, AccInv, Typed, VenueFill
  <1> HIDE DEF f
  <1>3. Len(fills') = Len(fills) + 1
    BY <1>1, <1>2
  <1>4. MarginsTyped' /\ KeysAreOfFills'
    BY <1>1, <1>2, <1>3 DEF MarginInv, MarginsTyped, KeysAreOfFills
  <1>5. ASSUME NEW pid PROVE MarginDue(pid)' = MarginDue(pid)
    <2>1. ReservedFills(pid)' = ReservedFills(pid) /\ Len(fills) + 1 \notin ReservedFills(pid)
      BY <1>1, <1>2, <1>3 DEF MarginInv, KeysAreOfFills, ReservedFills
    <2>2. PriceSum(fills', ReservedFills(pid)) = PriceSum(fills, ReservedFills(pid))
      BY <1>1, <1>2, <2>1, PriceSums
    <2> QED BY <2>1, <2>2 DEF MarginDue
  <1>6. MarginsCovered'
    BY <1>1, <1>5 DEF MarginInv, MarginsCovered, MarginCovered
  <1> QED BY <1>4, <1>6 DEF MarginInv

(* What a reservation and an allocation do to the margins of a position. *)
LEMMA MarginMoves ==
    ASSUME MarginsTyped, AccInv, NEW pid \in Position, NEW x \in Int
    PROVE  /\ LET b == Reserved(book, pid, x)
              IN  /\ b.reservedBy \in [Position -> Int] /\ b.usedBy = book.usedBy
                  /\ b.reservedBy[pid] = Round(book.reservedBy[pid] + x)
                  /\ \A q \in Position : q # pid => b.reservedBy[q] = book.reservedBy[q]
                  /\ b.released = book.released
           /\ LET b == Allocated(book, pid, x)
              IN  /\ b.reservedBy \in [Position -> Int] /\ b.usedBy \in [Position -> Int]
                  /\ b.reservedBy[pid] = Round(book.reservedBy[pid] - x)
                  /\ b.usedBy[pid] = Round(book.usedBy[pid] + x)
                  /\ \A q \in Position : q # pid => /\ b.reservedBy[q] = book.reservedBy[q]
                                                  /\ b.usedBy[q] = book.usedBy[q]
                  /\ b.released = book.released
  <1>1. IsBook(book)
    BY DEF AccInv, Typed
  <1>2. /\ book.reservedBy[pid] \in Int /\ book.usedBy[pid] \in Int
        /\ book.reservedBy \in [Position -> Int] /\ book.usedBy \in [Position -> Int]
    BY DEF MarginsTyped
  <1>3. /\ Round(book.reservedBy[pid] + x) \in Int /\ Round(book.reservedBy[pid] - x) \in Int
        /\ Round(book.usedBy[pid] + x) \in Int
    BY <1>2, RoundIs
  <1>4. LET b == Reserved(book, pid, x)
        IN  /\ b.reservedBy = [book.reservedBy EXCEPT ![pid] = Round(book.reservedBy[pid] + x)]
            /\ b.usedBy = book.usedBy /\ b.released = book.released
    BY <1>1 DEF IsBook, Fields, Reserved, Plus
  <1>5. LET b == Allocated(book, pid, x)
        IN  /\ b.reservedBy = [book.reservedBy EXCEPT ![pid] = Round(book.reservedBy[pid] - x)]
            /\ b.usedBy = [book.usedBy EXCEPT ![pid] = Round(book.usedBy[pid] + x)]
            /\ b.released = book.released
    BY <1>1 DEF IsBook, Fields, Allocated, Plus, Minus
  <1> HIDE DEF Reserved, Allocated
  <1> QED BY <1>2, <1>3, <1>4, <1>5

(* A reservation: what is due grows by the margin of its fill. *)
LEMMA MarginsReserve ==
    ASSUME MarginInv, AccInv', ReserveMargin
    PROVE  MarginInv'
  <1>1. PICK pid, n, x : pid = job.pid /\ n = job.fill /\ x = Margin
    OBVIOUS
  <1> DEFINE key == <<"reserve", pid, n>>
  <1>2. job.at = "reserve" /\ fills' = fills
    BY DEF ReserveMargin, UnchangedAside
  <1>3. n \in 1..Len(fills) /\ pid \in Position /\ fills \in Seq(VenueFill) /\ AccInv
    BY <1>1, <1>2, AtWork DEF MarginInv, AccInv, Typed
  <1>4. x = Scale * fills[n].price /\ fills[n].price \in Nat /\ Scale \in Nat /\ x \in Nat
    <2>1. fills[n] \in VenueFill
      BY <1>3
    <2>2. x = Scale * fills[n].price /\ fills[n].price \in Nat /\ Scale \in Nat
      BY <1>1, <2>1, AccountingAssumption DEF VenueFill, Margin, This
    <2> QED BY <2>2
  <1>5. \/ book' = book /\ (keys' = keys \/ (key \in keys /\ keys' = keys \cup {key}))
        \/ key \notin keys /\ keys' = keys \cup {key} /\ book' = Reserved(book, pid, x)
    BY <1>1 DEF ReserveMargin, Post, Key
  <1>6. CASE book' = book /\ (keys' = keys \/ (key \in keys /\ keys' = keys \cup {key}))
    <2>1. \A p, i : <<"reserve", p, i>> \in keys' <=> <<"reserve", p, i>> \in keys
      BY <1>6
    <2> QED BY <1>2, <1>6, <2>1, MarginsAside
  <1>7. CASE key \notin keys /\ keys' = keys \cup {key} /\ book' = Reserved(book, pid, x)
    <2>1. /\ book'.reservedBy \in [Position -> Int] /\ book'.usedBy = book.usedBy
          /\ book'.reservedBy[pid] = Round(book.reservedBy[pid] + x)
          /\ \A q \in Position : q # pid => book'.reservedBy[q] = book.reservedBy[q]
          /\ book'.released = book.released
      BY <1>3, <1>4, <1>7, MarginMoves DEF MarginInv
    <2>2. MarginsTyped'
      BY <2>1 DEF MarginInv, MarginsTyped
    <2>3. KeysAreOfFills'
      BY <1>2, <1>3, <1>7 DEF MarginInv, KeysAreOfFills
    <2>4. \A q \in Position : q # pid => MarginDue(q)' = MarginDue(q)
      <3>1. \A q \in Position : q # pid => ReservedFills(q)' = ReservedFills(q)
        BY <1>2, <1>7 DEF ReservedFills
      <3> QED BY <1>2, <3>1 DEF MarginDue
    <2>5. MarginDue(pid)' = MarginDue(pid) + x /\ MarginDue(pid) \in Nat
      <3>1. ReservedFills(pid)' = ReservedFills(pid) \cup {n} /\ n \notin ReservedFills(pid)
        BY <1>2, <1>3, <1>7 DEF ReservedFills
      <3>2. /\ PriceSum(fills, ReservedFills(pid) \cup {n})
                 = PriceSum(fills, ReservedFills(pid)) + fills[n].price
            /\ PriceSum(fills, ReservedFills(pid)) \in Nat
        BY <1>3, <3>1, PriceSums
      <3>3. MarginDue(pid)' = Scale * (PriceSum(fills, ReservedFills(pid)) + fills[n].price)
        BY <1>2, <3>1, <3>2 DEF MarginDue
      <3>4. MarginDue(pid) = Scale * PriceSum(fills, ReservedFills(pid))
        BY DEF MarginDue
      <3>5. \A a, b, c \in Nat : c * (a + b) = c * a + c * b /\ c * a \in Nat
        OBVIOUS
      <3> QED BY <1>4, <3>2, <3>3, <3>4, <3>5
    <2>6. ASSUME NEW q \in Position \ book.released, Fits(MarginDue(q)') PROVE MarginCovered(q)'
      <3>1. CASE q # pid
        BY <2>1, <2>4, <2>6, <3>1 DEF MarginInv, MarginsCovered, MarginCovered
      <3>2. CASE q = pid
        <4>1. Fits(MarginDue(pid))
          BY <1>4, <2>5, <2>6, <3>2, ExactAssumption DEF Fits
        <4>2. /\ book.reservedBy[pid] >= 0 /\ book.usedBy[pid] >= 0
              /\ book.reservedBy[pid] + book.usedBy[pid] = MarginDue(pid)
          BY <2>6, <3>2, <4>1 DEF MarginInv, MarginsCovered, MarginCovered
        <4>3. book.reservedBy[pid] \in Int /\ book.usedBy[pid] \in Int
          BY <1>3 DEF MarginInv, MarginsTyped
        <4>4. Fits(book.reservedBy[pid] + x)
          BY <1>4, <2>5, <2>6, <3>2, <4>2, <4>3, ExactAssumption DEF Fits
        <4>5. Round(book.reservedBy[pid] + x) = book.reservedBy[pid] + x
          BY <1>4, <4>3, <4>4, RoundIs
        <4>6. book'.reservedBy[pid] = book.reservedBy[pid] + x /\ book'.usedBy[pid] = book.usedBy[pid]
          BY <2>1, <4>5
        <4>7. /\ book'.reservedBy[pid] >= 0 /\ book'.usedBy[pid] >= 0
              /\ book'.reservedBy[pid] + book'.usedBy[pid] = MarginDue(pid)'
          BY <1>4, <2>5, <4>2, <4>3, <4>6
        <4> QED BY <3>2, <4>7 DEF MarginCovered
      <3> QED BY <3>1, <3>2
    <2>7. MarginsCovered'
      BY <2>1, <2>6 DEF MarginsCovered
    <2> QED BY <2>2, <2>3, <2>7 DEF MarginInv
  <1> QED BY <1>5, <1>6, <1>7

(* An allocation moves margin from reserved to used. *)
LEMMA MarginsAllocate ==
    ASSUME MarginInv, AccInv', AllocateMargin
    PROVE  MarginInv'
  <1>1. PICK pid, x : pid = job.pid /\ x = Margin
    OBVIOUS
  <1>2. job.at = "allocate" /\ fills' = fills
    BY DEF AllocateMargin, UnchangedAside
  <1>3. job.fill \in 1..Len(fills) /\ pid \in Position /\ fills \in Seq(VenueFill) /\ AccInv
    BY <1>1, <1>2, AtWork DEF MarginInv, AccInv, Typed
  <1>4. x \in Nat
    <2>1. fills[job.fill] \in VenueFill
      BY <1>3
    <2>2. x = Scale * fills[job.fill].price /\ fills[job.fill].price \in Nat /\ Scale \in Nat
      BY <1>1, <2>1, AccountingAssumption DEF VenueFill, Margin, This
    <2> QED BY <2>2
  <1>5. /\ keys' = keys \/ keys' = keys \cup {Key("allocate")}
        /\ book' = book \/ (book' = Allocated(book, pid, x) /\ x <= book.reservedBy[pid])
    BY <1>1 DEF AllocateMargin, Post
  <1>6. \A p, i : <<"reserve", p, i>> \in keys' <=> <<"reserve", p, i>> \in keys
    <2>1. \A p, i : <<"reserve", p, i>> # Key("allocate")
      BY DEF Key
    <2> QED BY <1>5, <2>1
  <1>7. CASE book' = book
    BY <1>2, <1>6, <1>7, MarginsAside
  <1>8. CASE book' = Allocated(book, pid, x) /\ x <= book.reservedBy[pid]
    <2>1. /\ book'.reservedBy \in [Position -> Int] /\ book'.usedBy \in [Position -> Int]
          /\ book'.reservedBy[pid] = Round(book.reservedBy[pid] - x)
          /\ book'.usedBy[pid] = Round(book.usedBy[pid] + x)
          /\ \A q \in Position : q # pid => /\ book'.reservedBy[q] = book.reservedBy[q]
                                          /\ book'.usedBy[q] = book.usedBy[q]
          /\ book'.released = book.released
      BY <1>3, <1>4, <1>8, MarginMoves DEF MarginInv
    <2>2. MarginsTyped' /\ KeysAreOfFills'
      BY <1>2, <1>6, <2>1 DEF MarginInv, MarginsTyped, KeysAreOfFills
    <2>3. \A q : MarginDue(q)' = MarginDue(q)
      <3>1. \A q : ReservedFills(q)' = ReservedFills(q)
        BY <1>2, <1>6 DEF ReservedFills
      <3> QED BY <1>2, <3>1 DEF MarginDue
    <2>4. ASSUME NEW q \in Position \ book.released, Fits(MarginDue(q)') PROVE MarginCovered(q)'
      <3>1. CASE q # pid
        BY <2>1, <2>3, <2>4, <3>1 DEF MarginInv, MarginsCovered, MarginCovered
      <3>2. CASE q = pid
        <4>1. /\ book.reservedBy[pid] >= 0 /\ book.usedBy[pid] >= 0
              /\ book.reservedBy[pid] + book.usedBy[pid] = MarginDue(pid)
              /\ Fits(MarginDue(pid))
          BY <2>3, <2>4, <3>2 DEF MarginInv, MarginsCovered, MarginCovered
        <4>2. book.reservedBy[pid] \in Int /\ book.usedBy[pid] \in Int
          BY <1>3 DEF MarginInv, MarginsTyped
        <4>3. Fits(book.reservedBy[pid] - x) /\ Fits(book.usedBy[pid] + x)
          BY <1>4, <1>8, <4>1, <4>2, ExactAssumption DEF Fits
        <4>4. /\ Round(book.reservedBy[pid] - x) = book.reservedBy[pid] - x
              /\ Round(book.usedBy[pid] + x) = book.usedBy[pid] + x
          BY <1>4, <4>2, <4>3, RoundIs
        <4> QED BY <1>4, <1>8, <2>1, <2>3, <3>2, <4>1, <4>2, <4>4 DEF MarginCovered
      <3> QED BY <3>1, <3>2
    <2>5. MarginsCovered'
      BY <2>1, <2>4 DEF MarginsCovered
    <2> QED BY <2>2, <2>5 DEF MarginInv
  <1> QED BY <1>5, <1>7, <1>8

(* A release ends what is asked of a position. *)
LEMMA MarginsRelease ==
    ASSUME MarginInv, AccInv', ReleaseMargin
    PROVE  MarginInv'
  <1>1. PICK pid : pid = job.pid
    OBVIOUS
  <1>2. /\ job.at = "release" /\ UNCHANGED <<fills, keys>>
        /\ book' = book \/ book' = Released(book, pid)
    BY <1>1 DEF ReleaseMargin, UnchangedAside
  <1>3. pid \in Position /\ IsBook(book) /\ AccInv
    BY <1>1, <1>2, AtWork DEF MarginInv, AccInv, Typed
  <1>4. CASE book' = book
    BY <1>2, <1>4, MarginsAside
  <1>5. CASE book' = Released(book, pid)
    <2>1. /\ book'.released = book.released \cup {pid}
          /\ book'.reservedBy[pid] = 0 /\ book'.usedBy[pid] = 0
          /\ \A q \in Position : q # pid => /\ book'.reservedBy[q] = book.reservedBy[q]
                                          /\ book'.usedBy[q] = book.usedBy[q]
      BY <1>3, <1>5, BooksMove
    <2>2. book'.reservedBy = [q \in Position |-> book'.reservedBy[q]]
          /\ book'.usedBy = [q \in Position |-> book'.usedBy[q]]
      BY DEF AccInv, Typed, IsBook
    <2>3. MarginsTyped' /\ KeysAreOfFills'
      <3>1. \A q \in Position : book'.reservedBy[q] \in Int /\ book'.usedBy[q] \in Int
        BY <2>1 DEF MarginInv, MarginsTyped
      <3>2. MarginsTyped'
        BY <2>2, <3>1 DEF MarginsTyped
      <3>3. KeysAreOfFills'
        BY <1>2 DEF MarginInv, KeysAreOfFills
      <3> QED BY <3>2, <3>3
    <2>4. \A q : MarginDue(q)' = MarginDue(q)
      BY <1>2 DEF MarginDue, ReservedFills
    <2>5. MarginsCovered'
      BY <2>1, <2>4 DEF MarginInv, MarginsCovered, MarginCovered
    <2> QED BY <2>3, <2>5 DEF MarginInv
  <1> QED BY <1>2, <1>4, <1>5

(* The calls that pay or mark leave margins alone. *)
LEMMA MarginsPaid ==
    ASSUME MarginInv, AccInv',
           ApplyFee \/ RealizePnl \/ \E mark \in 1..MaxPrice : UpdateMarks(mark)
    PROVE  MarginInv'
  <1>1. IsBook(book)
    BY DEF MarginInv, AccInv, Typed
  <1>2. \E kind \in {"fee", "realize"} : keys' = keys \/ keys' = keys \cup {Key(kind)}
    BY DEF ApplyFee, RealizePnl, UpdateMarks, Post
  <1>3. \A p, i : <<"reserve", p, i>> \in keys' <=> <<"reserve", p, i>> \in keys
    <2>1. \A p, i : \A kind \in {"fee", "realize"} : <<"reserve", p, i>> # Key(kind)
      BY DEF Key
    <2> QED BY <1>2, <2>1
  <1>4. \E x, y : book' \in {book, Realized(book, x), Charged(book, x), Marked(book, x, y)}
    BY DEF ApplyFee, RealizePnl, UpdateMarks, Post
  <1>5. fills' = fills
    BY DEF ApplyFee, RealizePnl, UpdateMarks, UnchangedAside
  <1>6. /\ book'.reservedBy = book.reservedBy /\ book'.usedBy = book.usedBy
        /\ book'.released = book.released
    BY <1>1, <1>4, BooksStay
  <1> QED BY <1>3, <1>5, <1>6, MarginsAside

LEMMA MarginsInitial == Init => MarginInv
  <1> SUFFICES ASSUME Init PROVE MarginInv
    OBVIOUS
  <1>1. AccInv /\ fills = << >> /\ keys = {} /\ book = Deposited(EmptyBook, Funds)
    BY InitAccounting DEF Init
  <1>2. /\ book.reservedBy = [p \in Position |-> 0] /\ book.usedBy = [p \in Position |-> 0]
    BY <1>1 DEF Deposited, EmptyBook
  <1>3. MarginsTyped /\ KeysAreOfFills
    BY <1>1, <1>2 DEF MarginsTyped, KeysAreOfFills
  <1>4. ASSUME NEW pid \in Position PROVE MarginDue(pid) = 0
    <2>1. fills \in Seq(VenueFill) /\ Len(fills) = 0
      BY <1>1
    <2>2. PriceSum(fills, ReservedFills(pid)) = 0
      BY <2>1, PriceSums
    <2> QED BY <2>2, AccountingAssumption DEF MarginDue
  <1>5. MarginsCovered
    BY <1>2, <1>4 DEF MarginsCovered, MarginCovered
  <1> QED BY <1>1, <1>3, <1>5 DEF MarginInv

(* Every step keeps what is known of margins. *)
LEMMA MarginsStep == MarginInv /\ [Next]_vars => MarginInv'
  <1> SUFFICES ASSUME MarginInv, [Next]_vars PROVE MarginInv'
    OBVIOUS
  <1>1. AccInv'
    BY NextAccounting DEF MarginInv
  <1>2. ASSUME fills' = fills, book' = book, keys' = keys PROVE MarginInv'
    BY <1>1, <1>2, MarginsAside
  <1>3. ASSUME NEW c \in Order, NEW price \in 1..MaxPrice, VenueFills(c, price) PROVE MarginInv'
    BY <1>1, <1>3, MarginsFill
  <1>4. CASE Book
    <2>1. CASE \/ \E n \in todo : BookOne(n)
               \/ CreatePosition \/ MapOrder \/ RecordEntryFill \/ RecordExit
      BY <1>2, <2>1 DEF BookOne, durable, CreatePosition, MapOrder, RecordEntryFill, RecordExit,
                        UnchangedAside
    <2> QED BY <1>1, <1>4, <2>1, MarginsReserve, MarginsAllocate, MarginsRelease, MarginsPaid
            DEF Book
  <1>5. CASE UNCHANGED vars
    BY <1>2, <1>5 DEF vars
  <1>6. CASE \/ \E c \in EntryOrder, qty \in 1..MaxQty : PlaceEntry(c, qty)
             \/ \E c \in ExitOrder, qty \in 1..MaxQty : PlaceExit(c, qty)
             \/ RecordLevels \/ Sync \/ Crash
    BY <1>2, <1>6 DEF PlaceEntry, PlaceExit, RecordLevels, Sync, Crash, durable
  <1> QED BY <1>1, <1>3, <1>4, <1>5, <1>6, MarginsPaid DEF Next

(* accounting.py _book_entry: however often the fill history is processed, *)
(* in this process or after a crash, margin is reserved once per entry     *)
(* fill and none of it is lost between reservation and allocation, for     *)
(* every amount the ledger represents exactly.                             *)
THEOREM MarginIsBookedOnce == Spec => []MarginOncePerFill
  <1>1. Spec => []MarginInv
    BY MarginsInitial, MarginsStep, PTL DEF Spec
  <1>2. MarginInv => MarginOncePerFill
    BY DEF MarginInv, MarginsCovered, MarginCovered, MarginOncePerFill
  <1> QED BY <1>1, <1>2, PTL
=============================================================================
