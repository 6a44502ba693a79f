----------------------------- MODULE BooksProofs -----------------------------
(***************************************************************************)
(* Proofs about the two books.  The portfolio ledger is balanced for every *)
(* set of positions, requests and amounts, and however many calls are      *)
(* made, until a sum is rounded.  In the position records each fill counts *)
(* once and on one side only, for any positions, fills, payments and       *)
(* crashes.                                                                *)
(***************************************************************************)
EXTENDS PortfolioManager, PositionManager, FiniteSetTheorems, TLAPS

(***************************************************************************)
(* The portfolio ledger                                                    *)
(***************************************************************************)

Book == [cash : Int, reserved : Int, used : Int, upnl : Int, exposure : Int,
         realized : Int, funding : Int, fees : Int, deposits : Int,
         withdrawals : Int,
         reservedBy : [Position -> Int], usedBy : [Position -> Int],
         open : SUBSET Position, released : SUBSET Position]

(* The two sums agree without any rounding. *)
Balanced(b) ==
    b.cash + b.reserved + b.used
      = b.deposits - b.withdrawals + b.realized + b.funding - b.fees

(* Rounding a whole number gives a whole number. *)
LEMMA RoundInt == \A x \in Int : Round(x) \in Int
  BY ExactAssumption DEF Round, Fits, HalfEven

(* What is too large to fit is still too large when rounded. *)
LEMMA HalfEvenLarge == \A x \in Int : x >= Exact => HalfEven(x) >= Exact
  <1> SUFFICES ASSUME NEW x \in Int, x >= Exact PROVE HalfEven(x) >= Exact
    OBVIOUS
  <1>1. /\ x \div 10 \in Int
        /\ 10 * (x \div 10) + 9 >= x
    OBVIOUS
  <1>2. PICK k \in Int : Exact = 10 * k
    BY ExactAssumption, Exact = (10 * (Exact \div 10)) + (Exact % 10), Exact \div 10 \in Int
  <1>3. 10 * (x \div 10) >= Exact
    BY <1>1, <1>2
  <1> QED BY <1>1, <1>3, ExactAssumption DEF HalfEven

(* A rounded sum that fits is the sum itself: nothing was lost. *)
LEMMA RoundFits == \A x \in Int : Fits(Round(x)) => Round(x) = x
  <1> SUFFICES ASSUME NEW x \in Int, Fits(Round(x)) PROVE Round(x) = x
    OBVIOUS
  <1>1. CASE Fits(x)
    BY <1>1 DEF Round
  <1>2. CASE ~ Fits(x) /\ x >= 0
    <2>1. Round(x) = HalfEven(x) /\ x >= Exact
      BY <1>2, ExactAssumption DEF Round, Fits
    <2>2. HalfEven(x) >= Exact
      BY <2>1, HalfEvenLarge
    <2> QED BY <2>1, <2>2, RoundInt, ExactAssumption DEF Fits
  <1>3. CASE ~ Fits(x) /\ ~ (x >= 0)
    <2>1. Round(x) = - HalfEven(- x) /\ - x >= Exact
      BY <1>3, ExactAssumption DEF Round, Fits
    <2>2. HalfEven(- x) >= Exact
      BY <2>1, HalfEvenLarge
    <2>3. HalfEven(- x) \in Int
      BY DEF HalfEven
    <2> QED BY <2>1, <2>2, <2>3, ExactAssumption DEF Fits
  <1> QED BY <1>1, <1>2, <1>3

(* Sums and differences stay whole numbers, and are exact if they fit. *)
LEMMA PlusMinus ==
  ASSUME NEW a \in Int, NEW b \in Int
  PROVE  /\ Plus(a, b) \in Int /\ Minus(a, b) \in Int
         /\ Fits(Plus(a, b)) => Plus(a, b) = a + b
         /\ Fits(Minus(a, b)) => Minus(a, b) = a - b
  BY RoundInt, RoundFits DEF Plus, Minus

-----------------------------------------------------------------------------
(* Every event turns a ledger into a ledger, and a balanced one into a     *)
(* balanced one when no sum of the result needed rounding.                 *)
(* A deposit keeps the ledger well-formed and balanced. *)
LEMMA DepositedOk ==
  ASSUME NEW b \in Book, NEW n \in Int
  PROVE  /\ Deposited(b, n) \in Book
         /\ Balanced(b) /\ InRange(Deposited(b, n)) => Balanced(Deposited(b, n))
  <1>1. /\ Plus(b.cash, n) \in Int /\ Plus(b.deposits, n) \in Int
        /\ Fits(Plus(b.cash, n)) => Plus(b.cash, n) = b.cash + n
        /\ Fits(Plus(b.deposits, n)) => Plus(b.deposits, n) = b.deposits + n
    BY PlusMinus DEF Book
  <1> DEFINE c == Deposited(b, n)
  <1>2. c \in Book
    BY <1>1 DEF Book, Deposited
  <1>3. /\ c.cash = Plus(b.cash, n) /\ c.deposits = Plus(b.deposits, n)
        /\ c.reserved = b.reserved /\ c.used = b.used /\ c.withdrawals = b.withdrawals
        /\ c.realized = b.realized /\ c.funding = b.funding /\ c.fees = b.fees
    BY DEF Deposited, Book
  <1>4. ASSUME Balanced(b), InRange(c) PROVE Balanced(c)
    <2>1. Fits(c.cash) /\ Fits(c.deposits)
      BY <1>4 DEF InRange
    <2>2. /\ b.cash \in Int /\ b.reserved \in Int /\ b.used \in Int
          /\ b.deposits \in Int /\ b.withdrawals \in Int /\ b.realized \in Int
          /\ b.funding \in Int /\ b.fees \in Int
      BY DEF Book
    <2> HIDE DEF c
    <2>3. c.cash = b.cash + n /\ c.deposits = b.deposits + n
      BY <1>1, <1>3, <2>1
    <2> QED BY <1>3, <1>4, <2>2, <2>3 DEF Balanced
  <1> QED BY <1>2, <1>4

(* A withdrawal keeps the ledger well-formed and balanced. *)
LEMMA WithdrawnOk ==
  ASSUME NEW b \in Book, NEW n \in Int
  PROVE  /\ Withdrawn(b, n) \in Book
         /\ Balanced(b) /\ InRange(Withdrawn(b, n)) => Balanced(Withdrawn(b, n))
  <1>1. /\ Minus(b.cash, n) \in Int /\ Plus(b.withdrawals, n) \in Int
        /\ Fits(Minus(b.cash, n)) => Minus(b.cash, n) = b.cash - n
        /\ Fits(Plus(b.withdrawals, n)) => Plus(b.withdrawals, n) = b.withdrawals + n
    BY PlusMinus DEF Book
  <1> DEFINE c == Withdrawn(b, n)
  <1>2. c \in Book
    BY <1>1 DEF Book, Withdrawn
  <1>3. /\ c.cash = Minus(b.cash, n) /\ c.withdrawals = Plus(b.withdrawals, n)
        /\ c.reserved = b.reserved /\ c.used = b.used /\ c.deposits = b.deposits
        /\ c.realized = b.realized /\ c.funding = b.funding /\ c.fees = b.fees
    BY DEF Withdrawn, Book
  <1>4. ASSUME Balanced(b), InRange(c) PROVE Balanced(c)
    <2>1. Fits(c.cash) /\ Fits(c.withdrawals)
      BY <1>4 DEF InRange
    <2>2. /\ b.cash \in Int /\ b.reserved \in Int /\ b.used \in Int
          /\ b.deposits \in Int /\ b.withdrawals \in Int /\ b.realized \in Int
          /\ b.funding \in Int /\ b.fees \in Int
      BY DEF Book
    <2> HIDE DEF c
    <2>3. c.cash = b.cash - n /\ c.withdrawals = b.withdrawals + n
      BY <1>1, <1>3, <2>1
    <2> QED BY <1>3, <1>4, <2>2, <2>3 DEF Balanced
  <1> QED BY <1>2, <1>4

(* A reservation keeps the ledger well-formed and balanced. *)
LEMMA ReservedOk ==
  ASSUME NEW b \in Book, NEW p \in Position, NEW n \in Int
  PROVE  /\ Reserved(b, p, n) \in Book
         /\ Balanced(b) /\ InRange(Reserved(b, p, n)) => Balanced(Reserved(b, p, n))
  <1>1. /\ Minus(b.cash, n) \in Int /\ Plus(b.reserved, n) \in Int
        /\ Fits(Minus(b.cash, n)) => Minus(b.cash, n) = b.cash - n
        /\ Fits(Plus(b.reserved, n)) => Plus(b.reserved, n) = b.reserved + n
        /\ Plus(b.reservedBy[p], n) \in Int
    BY PlusMinus DEF Book
  <1> DEFINE c == Reserved(b, p, n)
  <1>2. c \in Book
    BY <1>1 DEF Book, Reserved
  <1>3. /\ c.cash = Minus(b.cash, n) /\ c.reserved = Plus(b.reserved, n)
        /\ c.used = b.used /\ c.deposits = b.deposits /\ c.withdrawals = b.withdrawals
        /\ c.realized = b.realized /\ c.funding = b.funding /\ c.fees = b.fees
    BY DEF Reserved, Book
  <1>4. ASSUME Balanced(b), InRange(c) PROVE Balanced(c)
    <2>1. Fits(c.cash) /\ Fits(c.reserved)
      BY <1>4 DEF InRange
    <2>2. /\ b.cash \in Int /\ b.reserved \in Int /\ b.used \in Int
          /\ b.deposits \in Int /\ b.withdrawals \in Int /\ b.realized \in Int
          /\ b.funding \in Int /\ b.fees \in Int
      BY DEF Book
    <2> HIDE DEF c
    <2>3. c.cash = b.cash - n /\ c.reserved = b.reserved + n
      BY <1>1, <1>3, <2>1
    <2> QED BY <1>3, <1>4, <2>2, <2>3 DEF Balanced
  <1> QED BY <1>2, <1>4

(* An allocation keeps the ledger well-formed and balanced. *)
LEMMA AllocatedOk ==
  ASSUME NEW b \in Book, NEW p \in Position, NEW n \in Int
  PROVE  /\ Allocated(b, p, n) \in Book
         /\ Balanced(b) /\ InRange(Allocated(b, p, n)) => Balanced(Allocated(b, p, n))
  <1>1. /\ Minus(b.reserved, n) \in Int /\ Plus(b.used, n) \in Int
        /\ Fits(Minus(b.reserved, n)) => Minus(b.reserved, n) = b.reserved - n
        /\ Fits(Plus(b.used, n)) => Plus(b.used, n) = b.used + n
        /\ Minus(b.reservedBy[p], n) \in Int
        /\ Plus(b.usedBy[p], n) \in Int
    BY PlusMinus DEF Book
  <1> DEFINE c == Allocated(b, p, n)
  <1>2. c \in Book
    BY <1>1 DEF Book, Allocated
  <1>3. /\ c.reserved = Minus(b.reserved, n) /\ c.used = Plus(b.used, n)
        /\ c.cash = b.cash /\ c.deposits = b.deposits /\ c.withdrawals = b.withdrawals
        /\ c.realized = b.realized /\ c.funding = b.funding /\ c.fees = b.fees
    BY DEF Allocated, Book
  <1>4. ASSUME Balanced(b), InRange(c) PROVE Balanced(c)
    <2>1. Fits(c.reserved) /\ Fits(c.used)
      BY <1>4 DEF InRange
    <2>2. /\ b.cash \in Int /\ b.reserved \in Int /\ b.used \in Int
          /\ b.deposits \in Int /\ b.withdrawals \in Int /\ b.realized \in Int
          /\ b.funding \in Int /\ b.fees \in Int
      BY DEF Book
    <2> HIDE DEF c
    <2>3. c.reserved = b.reserved - n /\ c.used = b.used + n
      BY <1>1, <1>3, <2>1
    <2> QED BY <1>3, <1>4, <2>2, <2>3 DEF Balanced
  <1> QED BY <1>2, <1>4

(* A realized result keeps the ledger well-formed and balanced. *)
LEMMA RealizedOk ==
  ASSUME NEW b \in Book, NEW n \in Int
  PROVE  /\ Realized(b, n) \in Book
         /\ Balanced(b) /\ InRange(Realized(b, n)) => Balanced(Realized(b, n))
  <1>1. /\ Plus(b.cash, n) \in Int /\ Plus(b.realized, n) \in Int
        /\ Fits(Plus(b.cash, n)) => Plus(b.cash, n) = b.cash + n
        /\ Fits(Plus(b.realized, n)) => Plus(b.realized, n) = b.realized + n
    BY PlusMinus DEF Book
  <1> DEFINE c == Realized(b, n)
  <1>2. c \in Book
    BY <1>1 DEF Book, Realized
  <1>3. /\ c.cash = Plus(b.cash, n) /\ c.realized = Plus(b.realized, n)
        /\ c.reserved = b.reserved /\ c.used = b.used /\ c.deposits = b.deposits
        /\ c.withdrawals = b.withdrawals /\ c.funding = b.funding /\ c.fees = b.fees
    BY DEF Realized, Book
  <1>4. ASSUME Balanced(b), InRange(c) PROVE Balanced(c)
    <2>1. Fits(c.cash) /\ Fits(c.realized)
      BY <1>4 DEF InRange
    <2>2. /\ b.cash \in Int /\ b.reserved \in Int /\ b.used \in Int
          /\ b.deposits \in Int /\ b.withdrawals \in Int /\ b.realized \in Int
          /\ b.funding \in Int /\ b.fees \in Int
      BY DEF Book
    <2> HIDE DEF c
    <2>3. c.cash = b.cash + n /\ c.realized = b.realized + n
      BY <1>1, <1>3, <2>1
    <2> QED BY <1>3, <1>4, <2>2, <2>3 DEF Balanced
  <1> QED BY <1>2, <1>4

(* A funding payment keeps the ledger well-formed and balanced. *)
LEMMA FundedOk ==
  ASSUME NEW b \in Book, NEW n \in Int
  PROVE  /\ Funded(b, n) \in Book
         /\ Balanced(b) /\ InRange(Funded(b, n)) => Balanced(Funded(b, n))
  <1>1. /\ Plus(b.cash, n) \in Int /\ Plus(b.funding, n) \in Int
        /\ Fits(Plus(b.cash, n)) => Plus(b.cash, n) = b.cash + n
        /\ Fits(Plus(b.funding, n)) => Plus(b.funding, n) = b.funding + n
    BY PlusMinus DEF Book
  <1> DEFINE c == Funded(b, n)
  <1>2. c \in Book
    BY <1>1 DEF Book, Funded
  <1>3. /\ c.cash = Plus(b.cash, n) /\ c.funding = Plus(b.funding, n)
        /\ c.reserved = b.reserved /\ c.used = b.used /\ c.deposits = b.deposits
        /\ c.withdrawals = b.withdrawals /\ c.realized = b.realized /\ c.fees = b.fees
    BY DEF Funded, Book
  <1>4. ASSUME Balanced(b), InRange(c) PROVE Balanced(c)
    <2>1. Fits(c.cash) /\ Fits(c.funding)
      BY <1>4 DEF InRange
    <2>2. /\ b.cash \in Int /\ b.reserved \in Int /\ b.used \in Int
          /\ b.deposits \in Int /\ b.withdrawals \in Int /\ b.realized \in Int
          /\ b.funding \in Int /\ b.fees \in Int
      BY DEF Book
    <2> HIDE DEF c
    <2>3. c.cash = b.cash + n /\ c.funding = b.funding + n
      BY <1>1, <1>3, <2>1
    <2> QED BY <1>3, <1>4, <2>2, <2>3 DEF Balanced
  <1> QED BY <1>2, <1>4

(* A fee keeps the ledger well-formed and balanced. *)
LEMMA ChargedOk ==
  ASSUME NEW b \in Book, NEW n \in Int
  PROVE  /\ Charged(b, n) \in Book
         /\ Balanced(b) /\ InRange(Charged(b, n)) => Balanced(Charged(b, n))
  <1>1. /\ Minus(b.cash, n) \in Int /\ Plus(b.fees, n) \in Int
        /\ Fits(Minus(b.cash, n)) => Minus(b.cash, n) = b.cash - n
        /\ Fits(Plus(b.fees, n)) => Plus(b.fees, n) = b.fees + n
    BY PlusMinus DEF Book
  <1> DEFINE c == Charged(b, n)
  <1>2. c \in Book
    BY <1>1 DEF Book, Charged
  <1>3. /\ c.cash = Minus(b.cash, n) /\ c.fees = Plus(b.fees, n)
        /\ c.reserved = b.reserved /\ c.used = b.used /\ c.deposits = b.deposits
        /\ c.withdrawals = b.withdrawals /\ c.realized = b.realized /\ c.funding = b.funding
    BY DEF Charged, Book
  <1>4. ASSUME Balanced(b), InRange(c) PROVE Balanced(c)
    <2>1. Fits(c.cash) /\ Fits(c.fees)
      BY <1>4 DEF InRange
    <2>2. /\ b.cash \in Int /\ b.reserved \in Int /\ b.used \in Int
          /\ b.deposits \in Int /\ b.withdrawals \in Int /\ b.realized \in Int
          /\ b.funding \in Int /\ b.fees \in Int
      BY DEF Book
    <2> HIDE DEF c
    <2>3. c.cash = b.cash - n /\ c.fees = b.fees + n
      BY <1>1, <1>3, <2>1
    <2> QED BY <1>3, <1>4, <2>2, <2>3 DEF Balanced
  <1> QED BY <1>2, <1>4

(* A release keeps the ledger well-formed and balanced. *)
LEMMA ReleasedOk ==
  ASSUME NEW b \in Book, NEW p \in Position
  PROVE  /\ Released(b, p) \in Book
         /\ Balanced(b) /\ InRange(b) /\ InRange(Released(b, p)) => Balanced(Released(b, p))
  <1> DEFINE c == Released(b, p)
             held == Plus(b.reservedBy[p], b.usedBy[p])
  <1>1. /\ b.reservedBy[p] \in Int /\ b.usedBy[p] \in Int
        /\ b.cash \in Int /\ b.reserved \in Int /\ b.used \in Int
    BY DEF Book
  <1>2. /\ held \in Int
        /\ Fits(b.reservedBy[p] + b.usedBy[p]) => held = b.reservedBy[p] + b.usedBy[p]
    BY <1>1, PlusMinus DEF Plus, Round
  <1> HIDE DEF held
  <1>3. /\ Plus(b.cash, held) \in Int
        /\ Minus(b.reserved, b.reservedBy[p]) \in Int
        /\ Minus(b.used, b.usedBy[p]) \in Int
        /\ Fits(Plus(b.cash, held)) => Plus(b.cash, held) = b.cash + held
        /\ Fits(Minus(b.reserved, b.reservedBy[p]))
             => Minus(b.reserved, b.reservedBy[p]) = b.reserved - b.reservedBy[p]
        /\ Fits(Minus(b.used, b.usedBy[p]))
             => Minus(b.used, b.usedBy[p]) = b.used - b.usedBy[p]
    BY <1>1, <1>2, PlusMinus
  <1>4. c \in Book
    <2> DEFINE f == [b.reservedBy EXCEPT ![p] = 0]
               g == [b.usedBy EXCEPT ![p] = 0]
               o == b.open \ {p}
               l == b.released \cup {p}
    <2>1. f \in [Position -> Int] /\ g \in [Position -> Int]
      BY DEF Book
    <2>2. o \in SUBSET Position /\ l \in SUBSET Position
      BY DEF Book
    <2>3. c = [b EXCEPT !.reserved = Minus(b.reserved, b.reservedBy[p]),
                        !.used = Minus(b.used, b.usedBy[p]),
                        !.cash = Plus(b.cash, held),
                        !.reservedBy = f, !.usedBy = g, !.released = l, !.open = o]
      BY DEF Released, held, Book
    <2> HIDE DEF c, f, g, o, l
    <2> QED BY <1>3, <2>1, <2>2, <2>3 DEF Book
  <1>5. /\ c.cash = Plus(b.cash, held)
        /\ c.reserved = Minus(b.reserved, b.reservedBy[p])
        /\ c.used = Minus(b.used, b.usedBy[p])
        /\ c.deposits = b.deposits /\ c.withdrawals = b.withdrawals
        /\ c.realized = b.realized /\ c.funding = b.funding /\ c.fees = b.fees
    BY DEF Released, Book, held
  <1>6. ASSUME Balanced(b), InRange(b), InRange(c) PROVE Balanced(c)
    <2>1. Fits(c.cash) /\ Fits(c.reserved) /\ Fits(c.used)
      BY <1>6 DEF InRange
    <2>2. Fits(b.reservedBy[p] + b.usedBy[p])
      BY <1>6 DEF InRange
    <2> QED BY <1>1, <1>2, <1>3, <1>5, <1>6, <2>1, <2>2 DEF Balanced, Book
  <1> QED BY <1>4, <1>6

(* A mark-to-market refresh keeps the ledger well-formed and balanced. *)
LEMMA MarkedOk ==
  ASSUME NEW b \in Book, NEW u \in Int, NEW e \in Int
  PROVE  /\ Marked(b, u, e) \in Book
         /\ Balanced(b) => Balanced(Marked(b, u, e))
  <1> DEFINE c == Marked(b, u, e)
  <1>1. c \in Book
    BY DEF Book, Marked
  <1>2. /\ c.cash = b.cash /\ c.reserved = b.reserved /\ c.used = b.used
        /\ c.deposits = b.deposits /\ c.withdrawals = b.withdrawals
        /\ c.realized = b.realized /\ c.funding = b.funding /\ c.fees = b.fees
    BY DEF Marked, Book
  <1> QED BY <1>1, <1>2 DEF Balanced

(* A balanced ledger whose sums fit passes the assertion the code makes.   *)
LEMMA BalancedAgrees ==
  ASSUME NEW b \in Book, Balanced(b), InRange(b)
  PROVE  Assets(b) = Equity(b)
  <1>1. /\ b.cash \in Int /\ b.reserved \in Int /\ b.used \in Int /\ b.upnl \in Int
        /\ b.deposits \in Int /\ b.withdrawals \in Int /\ b.realized \in Int
        /\ b.funding \in Int /\ b.fees \in Int
    BY DEF Book
  <1>2. Assets(b) = b.cash + b.reserved + b.used + b.upnl
    BY <1>1 DEF InRange, Assets, Plus, Round
  <1>3. /\ Fits(b.deposits - b.withdrawals)
        /\ Fits(b.deposits - b.withdrawals + b.realized)
        /\ Fits(b.deposits - b.withdrawals + b.realized + b.funding)
        /\ Fits(b.deposits - b.withdrawals + b.realized + b.funding - b.fees)
    BY <1>1 DEF InRange, Balanced
  <1>4. WalletBalance(b) = b.deposits - b.withdrawals + b.realized + b.funding - b.fees
    BY <1>1, <1>3 DEF WalletBalance, Plus, Minus, Round
  <1>5. Fits(WalletBalance(b) + b.upnl)
    BY <1>1, <1>4 DEF InRange, Balanced
  <1>6. Equity(b) = WalletBalance(b) + b.upnl
    BY <1>5 DEF Equity, Plus, Round
  <1> QED BY <1>1, <1>2, <1>4, <1>6 DEF Balanced

-----------------------------------------------------------------------------
(* The inductive invariant: as long as nothing was rounded, the ledger is  *)
(* balanced and everything in it fits.                                     *)
BalanceInv == TypeOK /\ (exact => Balanced(book) /\ InRange(book))

(* The empty ledger satisfies it. *)
LEMMA InitBalance == Init => BalanceInv
  <1> SUFFICES ASSUME Init PROVE BalanceInv
    OBVIOUS
  <1>1. book \in Book /\ Balanced(book)
    BY DEF Init, EmptyBook, Book, Balanced
  <1>2. InRange(book)
    BY ExactAssumption DEF Init, EmptyBook, InRange, Fits
  <1> QED BY <1>1, <1>2 DEF Init, BalanceInv, TypeOK, Book

(* One call keeps it. *)
LEMMA NextBalance == BalanceInv /\ [Next]_vars => BalanceInv'
  <1> SUFFICES ASSUME BalanceInv, [Next]_vars PROVE BalanceInv'
    OBVIOUS
  <1>1. book \in Book /\ exact \in BOOLEAN
    BY DEF BalanceInv, TypeOK, Book
  <1>2. ASSUME NEW key, NEW b \in Book, Apply(key, b),
               Balanced(book) /\ InRange(book) /\ InRange(b) => Balanced(b)
        PROVE  BalanceInv'
    <2>1. book' = b /\ exact' = (exact /\ InRange(b))
      BY <1>2 DEF Apply
    <2>2. TypeOK'
      BY <1>1, <2>1 DEF TypeOK, Book
    <2>3. exact' => Balanced(book') /\ InRange(book')
      BY <1>1, <1>2, <2>1 DEF BalanceInv
    <2> QED BY <2>2, <2>3 DEF BalanceInv
  <1>3. ASSUME NEW r \in RequestId, NEW n \in Amount, Deposit(n, r) PROVE BalanceInv'
    BY <1>1, <1>2, <1>3, DepositedOk, AmountAssumption DEF Deposit
  <1>4. ASSUME NEW r \in RequestId, NEW n \in Amount, Withdraw(n, r) PROVE BalanceInv'
    BY <1>1, <1>2, <1>4, WithdrawnOk, AmountAssumption DEF Withdraw
  <1>5. ASSUME NEW r \in RequestId, NEW n \in Amount, NEW p \in Position,
               ReserveMargin(p, n, r)
        PROVE  BalanceInv'
    BY <1>1, <1>2, <1>5, ReservedOk, AmountAssumption DEF ReserveMargin
  <1>6. ASSUME NEW r \in RequestId, NEW n \in Amount, NEW p \in Position,
               AllocateMargin(p, n, r)
        PROVE  BalanceInv'
    BY <1>1, <1>2, <1>6, AllocatedOk, AmountAssumption DEF AllocateMargin
  <1>7. ASSUME NEW r \in RequestId, NEW n \in Amount, NEW p \in Position, ApplyFee(p, r, n)
        PROVE  BalanceInv'
    BY <1>1, <1>2, <1>7, ChargedOk, AmountAssumption DEF ApplyFee
  <1>8. ASSUME NEW r \in RequestId, NEW n \in Amount, NEW g \in Gain, UpdateMarks(g, n, r)
        PROVE  BalanceInv'
    BY <1>1, <1>2, <1>8, MarkedOk, AmountAssumption DEF UpdateMarks
  <1>9. ASSUME NEW r \in RequestId, NEW p \in Position, ReleaseMargin(p, r)
        PROVE  BalanceInv'
    BY <1>1, <1>2, <1>9, ReleasedOk DEF ReleaseMargin
  <1>10. ASSUME NEW r \in RequestId, NEW p \in Position, NEW g \in Gain,
                ApplyRealizedPnl(p, r, g)
         PROVE  BalanceInv'
    BY <1>1, <1>2, <1>10, RealizedOk, AmountAssumption DEF ApplyRealizedPnl
  <1>11. ASSUME NEW r \in RequestId, NEW p \in Position, NEW g \in Gain,
                ApplyFunding(p, r, g)
         PROVE  BalanceInv'
    BY <1>1, <1>2, <1>11, FundedOk, AmountAssumption DEF ApplyFunding
  <1>12. CASE UNCHANGED vars
    BY <1>12 DEF vars, BalanceInv, TypeOK
  <1> QED
    BY <1>3, <1>4, <1>5, <1>6, <1>7, <1>8, <1>9, <1>10, <1>11, <1>12 DEF Next

(* The ledger has its type after any number of calls. *)
THEOREM TypeCorrect == Spec => []TypeOK
  <1>1. BalanceInv => TypeOK
    BY DEF BalanceInv
  <1> QED BY <1>1, InitBalance, NextBalance, PTL DEF Spec

(* The assertion every portfolio call ends with, Assets == Equity, cannot  *)
(* fail before a sum has been rounded, whatever the calls and amounts.     *)
THEOREM LedgerBalanced == Spec => []BalancedIfExact
  <1>1. BalanceInv => BalancedIfExact
    <2> SUFFICES ASSUME BalanceInv, exact PROVE AssetsIsEquity
      BY DEF BalancedIfExact
    <2>1. book \in Book /\ Balanced(book) /\ InRange(book)
      BY DEF BalanceInv, TypeOK, Book
    <2> QED BY <2>1, BalancedAgrees DEF AssetsIsEquity
  <1> QED BY <1>1, InitBalance, NextBalance, PTL DEF Spec

(***************************************************************************)
(* The position records                                                    *)
(***************************************************************************)

PosState == {"NEW", "OPEN", "PARTIALLY_FILLED", "FULLY_FILLED", "T1_REACHED",
             "BREAKEVEN_ACTIVE", "T2_REACHED", "STOP_TRIGGERED", "CLOSED", "ARCHIVED"}
PosRecord == [st : PosState, intended : Int, filled : Nat, remaining : Int, cost : Int,
              entries : SUBSET Fill, exits : SUBSET Fill, funding : SUBSET Payment]

(* What is counted of a record are its fills, and one that still takes     *)
(* entries has seen no exit: an entry then sets what remains to what is    *)
(* filled.                                                                 *)
Counts(r) ==
    /\ IsFiniteSet(r.entries) /\ IsFiniteSet(r.exits)
    /\ r.filled = Cardinality(r.entries)
    /\ r.remaining = r.filled - Cardinality(r.exits)
    /\ r.entries \cap r.exits = {}
    /\ TakesEntry(r) => r.exits = {}

PositionInv ==
    /\ pos \in [PositionId -> PosRecord]
    /\ \A p \in PositionId : Counts(pos[p])

-----------------------------------------------------------------------------
(* The lifecycle table: only the entry triggers lead to a state that takes *)
(* entries.                                                                *)
LEMMA PosEdgesMove ==
    \A e \in PosEdges :
        /\ e.to \in PosState
        /\ e.trigger \notin {"FIRST_FILL", "ENTRY_PARTIAL", "ENTRY_COMPLETE"}
             => e.to \notin {"NEW", "OPEN", "PARTIALLY_FILLED"}
  BY DEF PosEdges, PosEdge, PosState

(* A legal trigger follows an edge. *)
LEMMA LegalPosMoves ==
    ASSUME NEW from, NEW trigger, IsLegalPos(from, trigger)
    PROVE  /\ NextPosState(from, trigger) \in PosState
           /\ trigger \notin {"FIRST_FILL", "ENTRY_PARTIAL", "ENTRY_COMPLETE"}
                => NextPosState(from, trigger) \notin {"NEW", "OPEN", "PARTIALLY_FILLED"}
  <1>1. \E e \in PosEdges : e.from = from /\ e.trigger = trigger
    BY DEF IsLegalPos
  <1>2. PICK e \in PosEdges : e.trigger = trigger /\ NextPosState(from, trigger) = e.to
    BY <1>1 DEF NextPosState
  <1> QED BY <1>2, PosEdgesMove

(* The edges that entry fills follow. *)
LEMMA EntryEdges ==
    /\ IsLegalPos("NEW", "FIRST_FILL")
    /\ \A from \in {"OPEN", "PARTIALLY_FILLED"}, t \in {"ENTRY_PARTIAL", "ENTRY_COMPLETE"} :
          IsLegalPos(from, t)
  <1>1. /\ PosEdge("NEW", "FIRST_FILL", "OPEN") \in PosEdges
        /\ PosEdge("OPEN", "ENTRY_PARTIAL", "PARTIALLY_FILLED") \in PosEdges
        /\ PosEdge("OPEN", "ENTRY_COMPLETE", "FULLY_FILLED") \in PosEdges
        /\ PosEdge("PARTIALLY_FILLED", "ENTRY_PARTIAL", "PARTIALLY_FILLED") \in PosEdges
        /\ PosEdge("PARTIALLY_FILLED", "ENTRY_COMPLETE", "FULLY_FILLED") \in PosEdges
    BY DEF PosEdges
  <1>2. \A a, b, d : PosEdge(a, b, d) \in PosEdges => IsLegalPos(a, b)
    BY DEF IsLegalPos, PosEdge
  <1> QED BY <1>1, <1>2

-----------------------------------------------------------------------------
(* A step that replaces one record by another that counts. *)
LEMMA RecordStep ==
    ASSUME PositionInv, NEW p \in PositionId, NEW r \in PosRecord, Counts(r),
           pos' = [pos EXCEPT ![p] = r]
    PROVE  PositionInv'
  <1>1. pos' \in [PositionId -> PosRecord]
    BY DEF PositionInv
  <1>2. \A q \in PositionId : pos'[q] = IF q = p THEN r ELSE pos[q]
    BY DEF PositionInv
  <1>3. \A q \in PositionId : Counts(pos'[q])
    BY <1>2 DEF PositionInv
  <1> QED BY <1>1, <1>3 DEF PositionInv

(* A record that moves along a legal edge. *)
LEMMA MovedCounts ==
    ASSUME NEW r \in PosRecord, Counts(r), NEW trigger, IsLegalPos(r.st, trigger),
           trigger \in {"FIRST_FILL", "ENTRY_PARTIAL", "ENTRY_COMPLETE"} => TakesEntry(r)
    PROVE  /\ Moved(r, trigger) \in PosRecord /\ Counts(Moved(r, trigger))
           /\ Moved(r, trigger) = [r EXCEPT !.st = NextPosState(r.st, trigger)]
  <1> DEFINE m == [r EXCEPT !.st = NextPosState(r.st, trigger)]
  <1>1. Moved(r, trigger) = m
    BY DEF Moved, PosRecord
  <1>2. /\ NextPosState(r.st, trigger) \in PosState
        /\ TakesEntry(r)
           \/ NextPosState(r.st, trigger) \notin {"NEW", "OPEN", "PARTIALLY_FILLED"}
    BY LegalPosMoves
  <1>3. /\ m \in PosRecord /\ m.st = NextPosState(r.st, trigger) /\ m.filled = r.filled
        /\ m.remaining = r.remaining /\ m.entries = r.entries /\ m.exits = r.exits
    BY <1>2 DEF PosRecord
  <1> HIDE DEF m
  <1>4. Counts(m)
    BY <1>2, <1>3 DEF Counts, TakesEntry
  <1> QED BY <1>1, <1>3, <1>4 DEF m

(* An entry fill that no side has seen. *)
LEMMA EnteredCounts ==
    ASSUME NEW r \in PosRecord, Counts(r), NEW f \in Fill, NEW price \in Int,
           f \notin r.entries, f \notin r.exits, r.st \in {"OPEN", "PARTIALLY_FILLED"}
    PROVE  Entered(r, f, price) \in PosRecord /\ Counts(Entered(r, f, price))
  <1> DEFINE t == IF r.filled + 1 >= r.intended THEN "ENTRY_COMPLETE" ELSE "ENTRY_PARTIAL"
             m == Moved(r, t)
             n == [m EXCEPT !.filled = @ + 1, !.remaining = r.filled + 1,
                            !.cost = @ + price, !.entries = @ \cup {f}]
  <1>1. t \in {"ENTRY_COMPLETE", "ENTRY_PARTIAL"}
    OBVIOUS
  <1> HIDE DEF t
  <1>2. /\ m \in PosRecord /\ m.filled = r.filled /\ m.cost = r.cost
        /\ m.entries = r.entries /\ m.exits = r.exits /\ r.exits = {}
    <2>1. IsLegalPos(r.st, t) /\ TakesEntry(r)
      BY <1>1, EntryEdges DEF TakesEntry
    <2>2. m \in PosRecord /\ m = [r EXCEPT !.st = NextPosState(r.st, t)]
      BY <2>1, MovedCounts
    <2> QED BY <2>1, <2>2 DEF PosRecord, Counts
  <1>3. Entered(r, f, price) = n
    BY DEF Entered, t
  <1> HIDE DEF m
  <1>4. r.filled + 1 \in Nat /\ r.cost + price \in Int /\ r.filled \in Nat
    BY DEF PosRecord
  <1>5. /\ n \in PosRecord /\ n.filled = r.filled + 1 /\ n.remaining = r.filled + 1
        /\ n.entries = r.entries \cup {f} /\ n.exits = {}
    <2>1. /\ m.filled + 1 \in Nat /\ m.cost + price \in Int /\ r.filled + 1 \in Int
          /\ m.entries \cup {f} \subseteq Fill
      BY <1>2, <1>4 DEF PosRecord
    <2>2. n \in PosRecord
      BY <1>2, <2>1 DEF PosRecord
    <2>3. /\ n.filled = m.filled + 1 /\ n.remaining = r.filled + 1
          /\ n.entries = m.entries \cup {f} /\ n.exits = m.exits
      BY <1>2 DEF PosRecord
    <2> QED BY <1>2, <2>2, <2>3
  <1> HIDE DEF n
  <1>6. /\ IsFiniteSet(r.entries \cup {f})
        /\ Cardinality(r.entries \cup {f}) = Cardinality(r.entries) + 1
    BY FS_AddElement DEF Counts
  <1>7. IsFiniteSet({}) /\ Cardinality({}) = 0
    BY FS_EmptySet
  <1>8. Counts(n)
    BY <1>4, <1>5, <1>6, <1>7 DEF Counts
  <1> QED BY <1>3, <1>5, <1>8

(* An exit fill that no side has seen. *)
LEMMA ExitedCounts ==
    ASSUME NEW r \in PosRecord, Counts(r), NEW f \in Fill, NEW trigger,
           f \notin r.entries, f \notin r.exits, IsLegalPos(r.st, trigger),
           trigger \notin {"FIRST_FILL", "ENTRY_PARTIAL", "ENTRY_COMPLETE"}
    PROVE  Exited(r, f, trigger) \in PosRecord /\ Counts(Exited(r, f, trigger))
  <1> DEFINE m == Moved(r, trigger)
             n == [m EXCEPT !.remaining = @ - 1, !.exits = @ \cup {f}]
  <1>1. m \in PosRecord /\ m = [r EXCEPT !.st = NextPosState(r.st, trigger)]
    BY MovedCounts
  <1>2. /\ m.st \notin {"NEW", "OPEN", "PARTIALLY_FILLED"} /\ m.filled = r.filled
        /\ m.remaining = r.remaining /\ m.entries = r.entries /\ m.exits = r.exits
    BY <1>1, LegalPosMoves DEF PosRecord
  <1>3. Exited(r, f, trigger) = n
    BY DEF Exited
  <1> HIDE DEF m
  <1>4. r.remaining - 1 \in Int /\ r.remaining \in Int /\ r.filled \in Nat
    BY DEF PosRecord
  <1>5. /\ n \in PosRecord /\ n.remaining = r.remaining - 1 /\ n.filled = r.filled
        /\ n.entries = r.entries /\ n.exits = r.exits \cup {f} /\ n.st = m.st
    BY <1>1, <1>2, <1>4 DEF PosRecord
  <1> HIDE DEF n
  <1>6. /\ IsFiniteSet(r.exits \cup {f}) /\ Cardinality(r.exits) \in Nat
        /\ Cardinality(r.exits \cup {f}) = Cardinality(r.exits) + 1
    BY FS_AddElement, FS_CardinalityType DEF Counts
  <1>7. Counts(n)
    BY <1>2, <1>4, <1>5, <1>6 DEF Counts, TakesEntry
  <1> QED BY <1>3, <1>5, <1>7

(* A new position has no fills. *)
LEMMA NewCounts ==
    ASSUME NEW intended \in Int
    PROVE  NewPosition(intended) \in PosRecord /\ Counts(NewPosition(intended))
  <1> DEFINE r == NewPosition(intended)
  <1>1. /\ r \in PosRecord /\ r.filled = 0 /\ r.remaining = 0 /\ r.entries = {} /\ r.exits = {}
    BY DEF NewPosition, PosRecord, PosState
  <1>2. IsFiniteSet({}) /\ Cardinality({}) = 0
    BY FS_EmptySet
  <1> HIDE DEF r
  <1>3. Counts(r)
    BY <1>1, <1>2 DEF Counts
  <1> QED BY <1>1, <1>3 DEF r

-----------------------------------------------------------------------------
(* There are no positions yet. *)
LEMMA InitPositions == PosInit => PositionInv
  BY NewCounts DEF PosInit, PositionInv

(* Every step keeps the invariant: a fill is looked up before it counts. *)
LEMMA NextPositions == PositionInv /\ [PosNext]_posVars => PositionInv'
  <1> SUFFICES ASSUME PositionInv, [PosNext]_posVars PROVE PositionInv'
    OBVIOUS
  <1>1. ASSUME UNCHANGED pos PROVE PositionInv'
    BY <1>1 DEF PositionInv
  <1>2. ASSUME NEW p \in PositionId PROVE pos[p] \in PosRecord /\ Counts(pos[p])
    BY DEF PositionInv
  <1>3. ASSUME NEW p \in PositionId, NEW intended \in 1..MaxQty, CreatePosition(p, intended)
        PROVE  PositionInv'
    <2>1. intended \in Int
      OBVIOUS
    <2> QED BY <1>3, <2>1, NewCounts, RecordStep DEF CreatePosition
  <1>4. ASSUME NEW p \in PositionId, NEW f \in Fill, OpenOnFill(p, f) PROVE PositionInv'
    <2>1. IsLegalPos(pos[p].st, "FIRST_FILL") /\ TakesEntry(pos[p])
      BY <1>4, EntryEdges DEF OpenOnFill, TakesEntry
    <2>2. Opened(pos[p]) \in PosRecord /\ Counts(Opened(pos[p]))
      BY <1>2, <2>1, MovedCounts DEF Opened
    <2> QED BY <1>4, <2>2, RecordStep DEF OpenOnFill
  <1>5. ASSUME NEW p \in PositionId, NEW f \in Fill, NEW price \in 1..MaxPrice,
               RecordEntryFill(p, f, price)
        PROVE  PositionInv'
    <2>1. /\ f \notin pos[p].entries /\ f \notin pos[p].exits /\ price \in Int
          /\ pos[p].st \in {"OPEN", "PARTIALLY_FILLED"}
      BY <1>5 DEF RecordEntryFill, Processed, TakesEntry
    <2>2. Entered(pos[p], f, price) \in PosRecord /\ Counts(Entered(pos[p], f, price))
      BY <1>2, <2>1, EnteredCounts
    <2> QED BY <1>5, <2>2, RecordStep DEF RecordEntryFill
  <1>6. ASSUME NEW p \in PositionId, NEW f \in Fill, NEW t \in ExitTrigger, RecordExit(p, f, t)
        PROVE  PositionInv'
    <2>1. /\ f \notin pos[p].entries /\ f \notin pos[p].exits /\ IsLegalPos(pos[p].st, t)
          /\ t \notin {"FIRST_FILL", "ENTRY_PARTIAL", "ENTRY_COMPLETE"}
      BY <1>6 DEF RecordExit, Processed, ExitTrigger
    <2>2. Exited(pos[p], f, t) \in PosRecord /\ Counts(Exited(pos[p], f, t))
      BY <1>2, <2>1, ExitedCounts
    <2> QED BY <1>6, <2>2, RecordStep DEF RecordExit
  <1>7. ASSUME NEW p \in PositionId, NEW t \in {"BREAKEVEN", "COMPLETE_CLOSE", "ARCHIVE"},
               PureTransition(p, t)
        PROVE  PositionInv'
    <2>1. Moved(pos[p], t) \in PosRecord /\ Counts(Moved(pos[p], t))
      BY <1>2, <1>7, MovedCounts DEF PureTransition
    <2> QED BY <1>7, <2>1, RecordStep DEF PureTransition
  <1>8. ASSUME NEW p \in PositionId, NEW payment \in Payment, RecordFundingPayment(p, payment)
        PROVE  PositionInv'
    <2> DEFINE r == FundingPaid(pos[p], payment)
    <2>1. /\ r \in PosRecord /\ r.st = pos[p].st /\ r.filled = pos[p].filled
          /\ r.remaining = pos[p].remaining /\ r.entries = pos[p].entries
          /\ r.exits = pos[p].exits
      BY <1>2 DEF FundingPaid, PosRecord
    <2>2. pos' = [pos EXCEPT ![p] = r]
      BY <1>8 DEF RecordFundingPayment
    <2> HIDE DEF r
    <2>3. Counts(r)
      BY <1>2, <2>1 DEF Counts, TakesEntry
    <2> QED BY <2>1, <2>2, <2>3, RecordStep
  <1> QED BY <1>1, <1>3, <1>4, <1>5, <1>6, <1>7, <1>8 DEF PosNext, IgnoreExit, Crash, posVars

(* Each fill counts once and on one side only, however often and in        *)
(* whatever order record_entry_fill and record_exit are given it, and      *)
(* wherever a crash falls between the two events of a first fill.          *)
THEOREM EachFillCountsOnce == PosSpec => []QuantityIsFills
  <1>1. PositionInv => QuantityIsFills
    BY DEF PositionInv, Counts, QuantityIsFills
  <1> QED BY <1>1, InitPositions, NextPositions, PTL DEF PosSpec
=============================================================================
