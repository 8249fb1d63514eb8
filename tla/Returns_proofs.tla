------------------------------ MODULE Returns_proofs ------------------------------
(***************************************************************************)
(* The arithmetic of returns, proved for every amount, every quantity and   *)
(* every way an order was paid.  "largest-remainder apportionment is        *)
(* monotone for two sources" (lib/refundAccounting.ts:37) is what makes a   *)
(* second return possible after a first; here it is a theorem.              *)
(***************************************************************************)
EXTENDS Returns, FiniteSetTheorems, TLAPS

-----------------------------------------------------------------------------
(* Whole numbers and their division.                                       *)

\* What is known of a quotient and its remainder.
LEMMA Division ==
    ASSUME NEW a \in Nat, NEW d \in Nat \ {0}
    PROVE  /\ a \div d \in Nat /\ a % d \in 0..(d - 1)
           /\ a = d * (a \div d) + (a % d)
  BY SMT

\* Products keep the order of their factors.
LEMMA Products ==
    ASSUME NEW x \in Nat, NEW y \in Nat, NEW d \in Nat, x <= y
    PROVE  d * x <= d * y
<1> DEFINE z == y - x
<1>1. z \in Nat /\ y = x + z
  BY SMT
<1>2. d * z \in Nat /\ d * y = d * x + d * z
  BY <1>1, SMT
<1> QED
  BY <1>2, SMT

\* Two quotients by the same divisor are ordered as their remainders allow.
LEMMA Quotients ==
    ASSUME NEW p \in Nat, NEW q \in Nat, NEW r \in Nat, NEW s \in Nat,
           NEW d \in Nat \ {0}, r < d, s < d, d * p + r <= d * q + s
    PROVE  p <= q
<1> SUFFICES ASSUME q + 1 <= p PROVE FALSE
  BY SMT
<1>1. d * (q + 1) <= d * p
  BY Products
<1>2. d * (q + 1) = d * q + d
  BY SMT
<1> QED
  BY <1>1, <1>2, SMT

-----------------------------------------------------------------------------
(* allocateCentsByWeight, for the two tenders of an order.                 *)

\* The tenders' parts of the order's total.
LEMMA PaidType ==
    ASSUME order \in Orders
    PROVE  /\ Total \in Nat \ {0}
           /\ Paid("credit") \in 0..Total /\ Paid("external") \in 0..Total
           /\ Paid("credit") + Paid("external") = Total
  BY ReturnsAssumption, SMT DEF Orders, Paid

\* A tender's whole cents and remainder.
LEMMA WholeAndRest ==
    ASSUME order \in Orders, NEW a \in 0..Total, NEW t \in Tenders
    PROVE  /\ Whole(a, Paid(t)) \in Nat /\ Rest(a, Paid(t)) \in 0..(Total - 1)
           /\ a * Paid(t) = Total * Whole(a, Paid(t)) + Rest(a, Paid(t))
<1>1. a * Paid(t) \in Nat
  BY PaidType, SMT DEF Tenders
<1> QED
  BY <1>1, PaidType, Division DEF Whole, Rest

\* At most one cent is left to hand out, and then the remainders make a whole.
LEMMA LeftOver ==
    ASSUME order \in Orders, NEW a \in 0..Total
    PROVE  /\ Left(a) \in {0, 1}
           /\ Rest(a, Paid("credit")) + Rest(a, Paid("external")) = Total * Left(a)
<1> DEFINE c == Paid("credit")
           e == Paid("external")
           w == Whole(a, c)
           v == Whole(a, e)
           r == Rest(a, c)
           s == Rest(a, e)
<1>1. /\ w \in Nat /\ r \in 0..(Total - 1) /\ a * c = Total * w + r
      /\ v \in Nat /\ s \in 0..(Total - 1) /\ a * e = Total * v + s
  BY WholeAndRest DEF Tenders
<1>2. Total \in Nat \ {0} /\ c \in Nat /\ e \in Nat /\ c + e = Total /\ a \in Nat
  BY PaidType, SMT
<1>3. Left(a) = a - w - v
  BY DEF Left
<1> HIDE DEF c, e, w, v, r, s
<1>4. a * c + a * e = a * Total
  BY <1>2, SMT
<1>5. Total * (a - w - v) = r + s
  <2>1. Total * (a - w - v) = Total * a - Total * w - Total * v
    BY <1>1, <1>2, SMT
  <2>2. Total * a = a * Total
    BY <1>2, SMT
  <2> QED
    BY <2>1, <2>2, <1>1, <1>2, <1>4, SMT
<1>6. a - w - v >= 0
  <2> SUFFICES ASSUME a - w - v <= -1 PROVE FALSE
    BY <1>1, <1>2, SMT
  <2> DEFINE n == v + w - a
  <2>1. n \in Nat /\ 1 <= n /\ Total * n = - (r + s)
    BY <1>1, <1>2, <1>5, SMT
  <2>2. Total * 1 <= Total * n
    BY <2>1, <1>2, Products
  <2> QED
    BY <2>1, <2>2, <1>1, <1>2, SMT
<1>7. a - w - v <= 1
  <2> SUFFICES ASSUME 2 <= a - w - v PROVE FALSE
    BY <1>1, <1>2, SMT
  <2> DEFINE n == a - w - v
  <2>1. n \in Nat /\ 2 <= n
    BY <1>1, <1>2, SMT
  <2>2. Total * 2 <= Total * n
    BY <2>1, <1>2, Products
  <2> QED
    BY <2>2, <1>1, <1>2, <1>5, SMT
<1> QED
  BY <1>1, <1>2, <1>3, <1>5, <1>6, <1>7, SMT DEF c, e, r, s

\* What a share is made of.
LEMMA ShareParts ==
    ASSUME order \in Orders, NEW a \in 0..Total, NEW t \in Tenders
    PROVE  /\ Share(t, a) \in Nat
           /\ Whole(a, Paid(t)) <= Share(t, a) /\ Share(t, a) <= Whole(a, Paid(t)) + 1
<1>1. Whole(a, Paid(t)) \in Nat
  BY WholeAndRest
<1> QED
  BY <1>1, SMT DEF Share

\* No cent of a refund is lost and none is made: the shares of the tenders add up to
\* the amount that is divided (allocateCentsByWeight).
THEOREM SharesAddUp ==
    ASSUME order \in Orders, NEW a \in 0..Total
    PROVE  Share("credit", a) + Share("external", a) = a
<1>1. Whole(a, Paid("credit")) \in Nat /\ Whole(a, Paid("external")) \in Nat
  BY WholeAndRest DEF Tenders
<1>2. Left(a) \in {0, 1}
  BY LeftOver
<1>3. CASE Left(a) > 0 /\ CreditFirst(a)
  <2>1. /\ Share("credit", a) = Whole(a, Paid("credit")) + 1
        /\ Share("external", a) = Whole(a, Paid("external"))
    BY <1>1, <1>3, SMT DEF Share
  <2> QED
    BY <1>1, <1>2, <1>3, <2>1, SMT DEF Left
<1>4. CASE Left(a) > 0 /\ ~CreditFirst(a)
  <2>1. /\ Share("credit", a) = Whole(a, Paid("credit"))
        /\ Share("external", a) = Whole(a, Paid("external")) + 1
    BY <1>1, <1>4, SMT DEF Share
  <2> QED
    BY <1>1, <1>2, <1>4, <2>1, SMT DEF Left
<1>5. CASE Left(a) = 0
  <2>1. /\ Share("credit", a) = Whole(a, Paid("credit"))
        /\ Share("external", a) = Whole(a, Paid("external"))
    BY <1>1, <1>5, SMT DEF Share
  <2> QED
    BY <1>1, <1>5, <2>1, SMT DEF Left
<1> QED
  BY <1>2, <1>3, <1>4, <1>5, SMT

\* A remainder that gets a cent is a positive one.
LEMMA CentForARest ==
    ASSUME order \in Orders, NEW a \in 0..Total, NEW t \in Tenders
    PROVE  Share(t, a) = Whole(a, Paid(t)) \/ Rest(a, Paid(t)) > 0
<1>1. /\ Rest(a, Paid("credit")) \in 0..(Total - 1)
      /\ Rest(a, Paid("external")) \in 0..(Total - 1)
      /\ Whole(a, Paid(t)) \in Nat /\ Total \in Nat \ {0}
  BY WholeAndRest, PaidType DEF Tenders
<1>2. CASE Left(a) = 0
  BY <1>1, <1>2, SMT DEF Share
<1>3. CASE Left(a) = 1
  <2>1. Rest(a, Paid("credit")) + Rest(a, Paid("external")) = Total
    BY <1>1, <1>3, LeftOver, SMT
  <2>2. Rest(a, Paid("credit")) > 0 /\ Rest(a, Paid("external")) > 0
    BY <1>1, <2>1, SMT
  <2> QED
    BY <2>2 DEF Tenders
<1> QED
  BY <1>2, <1>3, LeftOver, SMT

\* No tender is given more than was paid by it: a share is at most that.
THEOREM SharesWithinPaid ==
    ASSUME order \in Orders, NEW a \in 0..Total, NEW t \in Tenders
    PROVE  Share(t, a) \in 0..Paid(t)
<1> DEFINE p == Paid(t)
           w == Whole(a, p)
           r == Rest(a, p)
<1>1. p \in Nat /\ Total \in Nat \ {0} /\ a \in Nat /\ a <= Total
  BY PaidType, SMT DEF Tenders
<1>2. w \in Nat /\ r \in 0..(Total - 1) /\ a * p = Total * w + r
  BY WholeAndRest
<1>3. Share(t, a) \in Nat /\ Share(t, a) <= w + 1
  BY ShareParts
<1>4. Share(t, a) = w \/ r > 0
  BY CentForARest
<1> HIDE DEF p, w, r
<1>5. Total * w + r <= Total * p
  <2>1. p * a <= p * Total
    BY <1>1, Products
  <2>2. p * a = a * p /\ p * Total = Total * p
    BY <1>1, SMT
  <2> QED
    BY <1>2, <2>1, <2>2, SMT
<1>6. w <= p
  BY <1>1, <1>2, <1>5, Quotients, SMT
<1>7. ASSUME r > 0 PROVE w + 1 <= p
  <2> SUFFICES ASSUME w = p PROVE FALSE
    BY <1>1, <1>2, <1>6, SMT
  <2> QED
    BY <1>1, <1>2, <1>5, <1>7, SMT
<1> QED
  BY <1>1, <1>2, <1>3, <1>4, <1>6, <1>7, SMT DEF p

\* A later amount has no fewer whole cents, and as many only with a larger rest.
LEMMA WholeGrows ==
    ASSUME order \in Orders, NEW a \in 0..Total, NEW b \in 0..Total, NEW t \in Tenders, a <= b
    PROVE  /\ Whole(a, Paid(t)) <= Whole(b, Paid(t))
           /\ Whole(a, Paid(t)) = Whole(b, Paid(t)) => Rest(a, Paid(t)) <= Rest(b, Paid(t))
<1> DEFINE p == Paid(t)
           w == Whole(a, p)
           v == Whole(b, p)
           r == Rest(a, p)
           s == Rest(b, p)
<1>1. p \in Nat /\ Total \in Nat \ {0} /\ a \in Nat /\ b \in Nat
  BY PaidType, SMT DEF Tenders
<1>2. /\ w \in Nat /\ r \in 0..(Total - 1) /\ a * p = Total * w + r
      /\ v \in Nat /\ s \in 0..(Total - 1) /\ b * p = Total * v + s
  BY WholeAndRest
<1> HIDE DEF p, w, v, r, s
<1>3. a * p <= b * p
  <2>1. p * a <= p * b
    BY <1>1, Products
  <2>2. p * a = a * p /\ p * b = b * p
    BY <1>1, SMT
  <2> QED
    BY <2>1, <2>2, SMT
<1>4. r \in Nat /\ s \in Nat /\ r < Total /\ s < Total /\ Total * w + r <= Total * v + s
  BY <1>1, <1>2, <1>3, SMT
<1>5. w <= v
  BY <1>1, <1>2, <1>4, Quotients
<1>6. w = v => r <= s
  BY <1>1, <1>2, <1>4, SMT
<1> QED
  BY <1>5, <1>6 DEF p, w, v, r, s

\* The tender that would get the odd cent of an amount gets it of a later one too,
\* as long as both have the same whole cents.
LEMMA OddCentStays ==
    ASSUME order \in Orders, NEW a \in 0..Total, NEW b \in 0..Total, NEW t \in Tenders, a <= b,
           Whole(a, Paid(t)) = Whole(b, Paid(t)), Share(t, a) = Whole(a, Paid(t)) + 1
    PROVE  Share(t, b) = Whole(b, Paid(t)) + 1
<1>1. /\ Rest(a, Paid("credit")) \in 0..(Total - 1) /\ Rest(a, Paid("external")) \in 0..(Total - 1)
      /\ Rest(b, Paid("credit")) \in 0..(Total - 1) /\ Rest(b, Paid("external")) \in 0..(Total - 1)
      /\ Whole(a, Paid(t)) \in Nat /\ Total \in Nat \ {0}
  BY WholeAndRest, PaidType DEF Tenders
<1>2. Left(a) = 1 /\ (CreditFirst(a) <=> t = "credit")
  <2>1. ~(Whole(a, Paid(t)) = Whole(a, Paid(t)) + 1)
    BY <1>1, SMT
  <2>2. Left(a) > 0 /\ (CreditFirst(a) <=> t = "credit")
    <3> SUFFICES ASSUME ~(Left(a) > 0 /\ (CreditFirst(a) <=> t = "credit")) PROVE FALSE
      OBVIOUS
    <3>1. Share(t, a) = Whole(a, Paid(t)) + 0
      BY Zenon DEF Share
    <3> QED
      BY <1>1, <3>1, SMT
  <2> QED
    BY <2>2, LeftOver, SMT
<1>3. Rest(a, Paid("credit")) + Rest(a, Paid("external")) = Total
  BY <1>1, <1>2, LeftOver, SMT
<1>4. Rest(a, Paid(t)) <= Rest(b, Paid(t)) /\ Rest(a, Paid(t)) > 0
  BY <1>1, <1>3, WholeGrows, SMT DEF Tenders
<1>5. Left(b) = 1 /\ Rest(b, Paid("credit")) + Rest(b, Paid("external")) = Total
  <2>1. Rest(b, Paid("credit")) + Rest(b, Paid("external")) > 0
    BY <1>1, <1>4, SMT DEF Tenders
  <2> QED
    BY <1>1, <2>1, LeftOver, SMT
<1>6. CreditFirst(b) <=> t = "credit"
  <2>1. CASE t = "credit"
    <3>1. CreditFirst(a) /\ Rest(a, Paid("credit")) <= Rest(b, Paid("credit"))
      BY <1>2, <1>4, <2>1
    <3> QED
      BY <1>1, <1>3, <1>5, <2>1, <3>1, SMT DEF CreditFirst
  <2>2. CASE t = "external"
    <3>1. ~CreditFirst(a) /\ Rest(a, Paid("external")) <= Rest(b, Paid("external"))
      BY <1>2, <1>4, <2>2
    <3> QED
      BY <1>1, <1>3, <1>5, <2>2, <3>1, SMT DEF CreditFirst
  <2> QED
    BY <2>1, <2>2 DEF Tenders
<1>7. Left(b) > 0
  BY <1>5, SMT
<1> QED
  BY <1>6, <1>7, Zenon DEF Share

\* "largest-remainder apportionment is monotone for two sources": when more is given
\* back, no tender's share of it becomes less than it was (parseOriginalTenderAllocations,
\* which admits no third source for this reason).
THEOREM SharesAreMonotone ==
    ASSUME order \in Orders, NEW a \in 0..Total, NEW b \in 0..Total, NEW t \in Tenders, a <= b
    PROVE  Share(t, a) <= Share(t, b)
<1>1. /\ Whole(a, Paid(t)) \in Nat /\ Whole(b, Paid(t)) \in Nat
      /\ Whole(a, Paid(t)) <= Whole(b, Paid(t))
  BY WholeAndRest, WholeGrows
<1>2. /\ Share(t, a) \in Nat /\ Share(t, a) <= Whole(a, Paid(t)) + 1
      /\ Share(t, b) \in Nat /\ Whole(b, Paid(t)) <= Share(t, b)
      /\ Whole(a, Paid(t)) <= Share(t, a)
  BY ShareParts
<1>3. CASE Whole(a, Paid(t)) # Whole(b, Paid(t))
  BY <1>1, <1>2, <1>3, SMT
<1>4. CASE Whole(a, Paid(t)) = Whole(b, Paid(t)) /\ Share(t, a) = Whole(a, Paid(t)) + 1
  BY <1>1, <1>2, <1>4, OddCentStays, SMT
<1>5. CASE Whole(a, Paid(t)) = Whole(b, Paid(t)) /\ Share(t, a) # Whole(a, Paid(t)) + 1
  BY <1>1, <1>2, <1>5, SMT
<1> QED
  BY <1>3, <1>4, <1>5

-----------------------------------------------------------------------------
(* Returns of an order that was returned exactly so far.                   *)

\* Each tender has got its share of all that went back.
Exact == /\ given \in [Tenders -> 0..Total] /\ Sum(given) \in 0..Total
         /\ \A t \in Tenders : given[t] = Share(t, Sum(given))

\* allocateProportionalRefund never refuses with "conflict with proportional allocation",
\* nor "exceeds the original allocation", after exact returns: whatever amount is
\* left can be divided.
THEOREM ExactIsDivisible ==
    ASSUME order \in Orders, Exact, NEW a \in Nat, Sum(given) + a <= Total
    PROVE  Divisible(a, given)
<1>1. /\ Sum(given) \in 0..Total /\ Sum(given) + a \in 0..Total
      /\ Sum(given) <= Sum(given) + a /\ Total \in Nat
  BY PaidType, SMT DEF Exact
<1>2. ASSUME NEW t \in Tenders PROVE Due(t, a, given) >= 0
  <2>1. Share(t, Sum(given)) <= Share(t, Sum(given) + a)
    BY <1>1, SharesAreMonotone
  <2>2. Share(t, Sum(given)) \in Nat /\ Share(t, Sum(given) + a) \in Nat
    BY <1>1, ShareParts
  <2>3. Due(t, a, given) = Share(t, Sum(given) + a) - Share(t, Sum(given))
    BY DEF Due, Exact
  <2> QED
    BY <2>1, <2>2, <2>3, SMT
<1> QED
  BY <1>2 DEF Divisible

-----------------------------------------------------------------------------
(* allocateCumulativeQuantityCents.                                        *)

\* Units returned are worth a whole number of cents.
LEMMA CentsType ==
    ASSUME NEW c \in Nat, NEW q \in Nat \ {0}, NEW n \in Nat
    PROVE  /\ Cents(c, q, n) \in Nat
           /\ \E r \in Nat : r < 2 * q /\ 2 * c * n + q = (2 * q) * Cents(c, q, n) + r
<1> DEFINE x == 2 * c * n + q
           d == 2 * q
<1>1. x \in Nat /\ d \in Nat \ {0}
  BY SMT
<1>2. Cents(c, q, n) = x \div d
  BY DEF Cents
<1> HIDE DEF x
<1>3. x \div d \in Nat /\ x % d \in 0..(d - 1) /\ x = d * (x \div d) + (x % d)
  BY <1>1, Division
<1>4. x % d \in Nat /\ x % d < d
  BY <1>1, <1>3, SMT
<1> QED
  BY <1>2, <1>3, <1>4 DEF x

\* All units of a line are worth what the line cost.
THEOREM AllUnitsAreTheLine ==
    ASSUME NEW c \in Nat, NEW q \in Nat \ {0}
    PROVE  Cents(c, q, q) = c
<1>1. PICK r \in Nat : r < 2 * q /\ 2 * c * q + q = (2 * q) * Cents(c, q, q) + r
  BY CentsType
<1> DEFINE n == Cents(c, q, q)
           d == 2 * q
<1>2. n \in Nat /\ d \in Nat \ {0} /\ q < d /\ q \in Nat /\ r < d
  BY <1>1, CentsType, SMT
<1> HIDE DEF n
<1>3. d * c + q = d * n + r
  <2>1. d * c + q = 2 * c * q + q
    BY SMT
  <2> QED
    BY <1>1, <2>1 DEF n
<1>4. d * c + q <= d * n + r /\ d * n + r <= d * c + q
  BY <1>2, <1>3, SMT
<1> HIDE DEF d
<1>5. c <= n /\ n <= c
  BY <1>2, <1>4, Quotients
<1> QED
  BY <1>2, <1>5, SMT DEF n

\* More units are never worth less, so no return is worth less than nothing.
THEOREM UnitsNeverLoseValue ==
    ASSUME NEW l \in Lines, NEW n \in Nat, NEW m \in Nat
    PROVE  Value(l, n, m) \in Nat
<1>1. ASSUME NEW c \in Nat PROVE Cents(c, Quantity[l], n) <= Cents(c, Quantity[l], n + m)
  <2> DEFINE q == Quantity[l]
             d == 2 * q
             w == Cents(c, q, n)
             v == Cents(c, q, n + m)
  <2>1. q \in Nat \ {0} /\ n + m \in Nat
    BY ReturnsAssumption, SMT
  <2> HIDE DEF q
  <2>2. PICK r \in Nat : r < 2 * q /\ 2 * c * n + q = (2 * q) * w + r
    BY <2>1, CentsType
  <2>3. PICK s \in Nat : s < 2 * q /\ 2 * c * (n + m) + q = (2 * q) * v + s
    BY <2>1, CentsType
  <2>4. w \in Nat /\ v \in Nat
    BY <2>1, CentsType
  <2>5. (2 * c) * n <= (2 * c) * (n + m)
    BY <2>1, Products, SMT
  <2>6. d * w + r <= d * v + s
    BY <2>1, <2>2, <2>3, <2>5, SMT
  <2>7. d \in Nat \ {0} /\ r < d /\ s < d
    BY <2>1, <2>2, <2>3, SMT
  <2> HIDE DEF w, v, d
  <2>8. w <= v
    BY <2>4, <2>6, <2>7, Quotients
  <2> QED
    BY <2>8 DEF w, v, q
<1>2. Amount[l] \in Nat /\ Tax[l] \in Nat /\ Quantity[l] \in Nat \ {0} /\ n + m \in Nat
  BY ReturnsAssumption, SMT
<1>3. /\ Cents(Amount[l], Quantity[l], n) <= Cents(Amount[l], Quantity[l], n + m)
      /\ Cents(Tax[l], Quantity[l], n) <= Cents(Tax[l], Quantity[l], n + m)
  BY <1>1, <1>2
<1>4. /\ Cents(Amount[l], Quantity[l], n) \in Nat /\ Cents(Amount[l], Quantity[l], n + m) \in Nat
      /\ Cents(Tax[l], Quantity[l], n) \in Nat /\ Cents(Tax[l], Quantity[l], n + m) \in Nat
  BY <1>2, CentsType
<1> QED
  BY <1>3, <1>4, SMT DEF Value

\* A line returned in two pieces is worth what it is worth in one.
THEOREM PiecesAddUp ==
    ASSUME NEW l \in Lines, NEW n \in Nat, NEW m \in Nat
    PROVE  Value(l, 0, n) + Value(l, n, m) = Value(l, 0, n + m)
<1>1. Amount[l] \in Nat /\ Tax[l] \in Nat /\ Quantity[l] \in Nat \ {0} /\ n + m \in Nat
  BY ReturnsAssumption, SMT
<1>2. 0 + n = n /\ 0 + (n + m) = n + m
  BY SMT
<1>3. /\ Cents(Amount[l], Quantity[l], 0) \in Nat /\ Cents(Tax[l], Quantity[l], 0) \in Nat
      /\ Cents(Amount[l], Quantity[l], n) \in Nat /\ Cents(Tax[l], Quantity[l], n) \in Nat
      /\ Cents(Amount[l], Quantity[l], n + m) \in Nat /\ Cents(Tax[l], Quantity[l], n + m) \in Nat
  BY <1>1, CentsType
<1> QED
  BY <1>2, <1>3, SMT DEF Value

-----------------------------------------------------------------------------
(* Sums, counted cent by cent.                                             *)

\* The cents of finitely many parts are finitely many.
LEMMA PiecesFinite ==
    ASSUME NEW S, IsFiniteSet(S), NEW f \in [S -> Nat]
    PROVE  IsFiniteSet(Pieces(f)) /\ Cardinality(Pieces(f)) \in Nat
<1> DEFINE part == [x \in S |-> {x} \X (1..f[x])]
           T == {{x} \X (1..f[x]) : x \in S}
<1>1. part \in Surjection(S, T)
  BY Zenon DEF Surjection
<1>2. IsFiniteSet(T)
  BY <1>1, FS_Surjection
<1>3. ASSUME NEW x \in S PROVE IsFiniteSet({x} \X (1..f[x]))
  <2>1. IsFiniteSet({x}) /\ IsFiniteSet(1..f[x])
    <3>1. f[x] \in Int /\ 1 \in Int
      BY SMT
    <3>2. IsFiniteSet(1..f[x])
      BY <3>1, FS_Interval, Zenon
    <3>3. IsFiniteSet({x})
      BY FS_Singleton, Zenon
    <3> QED
      BY <3>2, <3>3
  <2> QED
    BY <2>1, FS_Product
<1>4. Pieces(f) = UNION T
  BY DEF Pieces
<1>5. IsFiniteSet(UNION T)
  BY <1>2, <1>3, FS_UNION
<1> QED
  BY <1>4, <1>5, FS_CardinalityType

\* A cent of a sum.
LEMMA PiecesHas ==
    ASSUME NEW S, NEW f \in [S -> Nat], NEW p
    PROVE  p \in Pieces(f) <=> \E x \in S : \E i \in 1..f[x] : p = <<x, i>>
  BY SMT DEF Pieces

\* Parts that are larger one by one by the parts of another sum make a sum that is
\* larger by that sum.
LEMMA PiecesSum ==
    ASSUME NEW S, IsFiniteSet(S), NEW f \in [S -> Nat], NEW g \in [S -> Nat],
           NEW h \in [S -> Nat], \A x \in S : h[x] = f[x] + g[x]
    PROVE  Cardinality(Pieces(h)) = Cardinality(Pieces(f)) + Cardinality(Pieces(g))
<1> DEFINE D == {p \in Pieces(h) : p[2] > f[p[1]]}
           shift == [p \in Pieces(g) |-> <<p[1], f[p[1]] + p[2]>>]
<1>1. /\ IsFiniteSet(Pieces(f)) /\ IsFiniteSet(Pieces(g)) /\ IsFiniteSet(Pieces(h))
      /\ Cardinality(Pieces(f)) \in Nat /\ Cardinality(Pieces(g)) \in Nat
  BY PiecesFinite
<1>2. Pieces(h) = Pieces(f) \cup D
  <2>1. ASSUME NEW p \in Pieces(f) PROVE p \in Pieces(h)
    <3>1. PICK x \in S : \E i \in 1..f[x] : p = <<x, i>>
      BY <2>1, PiecesHas
    <3>2. PICK i \in 1..f[x] : p = <<x, i>>
      BY <3>1
    <3>3. f[x] \in Nat /\ g[x] \in Nat /\ h[x] = f[x] + g[x]
      OBVIOUS
    <3>4. i \in 1..h[x]
      BY <3>2, <3>3, SMT
    <3> QED
      BY <3>2, <3>4, PiecesHas
  <2>2. ASSUME NEW p \in Pieces(h), ~(p[2] > f[p[1]]) PROVE p \in Pieces(f)
    <3>1. PICK x \in S : \E i \in 1..h[x] : p = <<x, i>>
      BY <2>2, PiecesHas
    <3>2. PICK i \in 1..h[x] : p = <<x, i>>
      BY <3>1
    <3>3. i \in 1..f[x]
      BY <2>2, <3>2, SMT
    <3> QED
      BY <3>2, <3>3, PiecesHas
  <2> QED
    BY <2>1, <2>2
<1>3. Pieces(f) \cap D = {}
  <2> SUFFICES ASSUME NEW p \in Pieces(f), p[2] > f[p[1]] PROVE FALSE
    OBVIOUS
  <2>1. PICK x \in S : \E i \in 1..f[x] : p = <<x, i>>
    BY PiecesHas
  <2>2. PICK i \in 1..f[x] : p = <<x, i>>
    BY <2>1
  <2> QED
    BY <2>2, SMT
<1>4. shift \in Bijection(Pieces(g), D)
  <2>1. ASSUME NEW p \in Pieces(g)
        PROVE  /\ shift[p] \in D
               /\ p = <<p[1], p[2]>> /\ p[1] \in S /\ p[2] \in Nat /\ f[p[1]] \in Nat
               /\ shift[p] = <<p[1], f[p[1]] + p[2]>>
    <3>1. PICK x \in S : \E i \in 1..g[x] : p = <<x, i>>
      BY <2>1, PiecesHas
    <3>2. PICK i \in 1..g[x] : p = <<x, i>>
      BY <3>1
    <3>3. f[x] \in Nat /\ g[x] \in Nat /\ h[x] = f[x] + g[x] /\ p[1] = x /\ p[2] = i
      BY <3>2
    <3>4. f[x] + i \in 1..h[x] /\ f[x] + i > f[x] /\ i \in Nat
      BY <3>2, <3>3, SMT
    <3>5. shift[p] = <<x, f[x] + i>>
      BY <3>3
    <3>6. <<x, f[x] + i>> \in Pieces(h)
      BY <3>4, PiecesHas
    <3> QED
      BY <3>2, <3>3, <3>4, <3>5, <3>6
  <2>2. ASSUME NEW d \in D PROVE \E p \in Pieces(g) : shift[p] = d
    <3>1. PICK x \in S : \E i \in 1..h[x] : d = <<x, i>>
      BY <2>2, PiecesHas
    <3>2. PICK i \in 1..h[x] : d = <<x, i>>
      BY <3>1
    <3>3. f[x] \in Nat /\ g[x] \in Nat /\ h[x] = f[x] + g[x] /\ i > f[x]
      BY <2>2, <3>2
    <3>4. i - f[x] \in 1..g[x] /\ f[x] + (i - f[x]) = i
      BY <3>2, <3>3, SMT
    <3>5. <<x, i - f[x]>> \in Pieces(g)
      BY <3>4, PiecesHas
    <3>6. shift[<<x, i - f[x]>>] = d
      BY <3>2, <3>4, <3>5
    <3> QED
      BY <3>5, <3>6
  <2>3. ASSUME NEW p \in Pieces(g), NEW q \in Pieces(g), shift[p] = shift[q] PROVE p = q
    <3> HIDE DEF shift
    <3>1. p = <<p[1], p[2]>> /\ q = <<q[1], q[2]>>
      BY <2>1
    <3>2. p[1] = q[1] /\ f[p[1]] + p[2] = f[q[1]] + q[2]
      BY <2>1, <2>3
    <3>3. p[2] \in Nat /\ q[2] \in Nat /\ f[p[1]] \in Nat
      BY <2>1
    <3>4. p[2] = q[2]
      BY <3>2, <3>3, SMT
    <3> QED
      BY <3>1, <3>2, <3>4
  <2>4. shift \in [Pieces(g) -> D]
    BY <2>1
  <2> HIDE DEF shift, D
  <2> QED
    BY <2>2, <2>3, <2>4, Zenon DEF Bijection, Injection, Surjection, IsInjective
<1>5. IsFiniteSet(D) /\ Cardinality(D) = Cardinality(Pieces(g))
  <2>1. ExistsBijection(Pieces(g), D)
    BY <1>4 DEF ExistsBijection
  <2> QED
    BY <1>1, <2>1, FS_Bijection
<1>6. Cardinality(Pieces(h)) = Cardinality(Pieces(f)) + Cardinality(D) - Cardinality({})
  <2> HIDE DEF D
  <2> QED
    BY <1>1, <1>2, <1>3, <1>5, FS_Union
<1> QED
  BY <1>1, <1>5, <1>6, FS_EmptySet, SMT

\* The same for returned lines: what they are worth is a number of cents, none if
\* nothing is returned, and lines returned in pieces are worth what they are at once.
LEMMA WorthType ==
    ASSUME NEW r \in [Lines -> Nat], NEW u \in [Lines -> Nat]
    PROVE  Worth(r, u) \in Nat
<1> DEFINE f == [l \in Lines |-> Value(l, r[l], u[l])]
<1>1. ASSUME NEW l \in Lines PROVE Value(l, r[l], u[l]) \in Nat
  BY <1>1, UnitsNeverLoseValue
<1>2. f \in [Lines -> Nat]
  BY <1>1
<1>3. IsFiniteSet(Lines)
  BY ReturnsAssumption
<1> HIDE DEF f
<1>4. Cardinality(Pieces(f)) \in Nat
  BY <1>2, <1>3, PiecesFinite
<1> QED
  BY <1>4 DEF Worth, f

\* A return's lines as they are added to those that came back before.
Nothing == [l \in Lines |-> 0]
Plus(r, u) == [l \in Lines |-> r[l] + u[l]]

LEMMA WorthAddsUp ==
    ASSUME NEW r \in [Lines -> Nat], NEW u \in [Lines -> Nat]
    PROVE  Worth(Nothing, Plus(r, u)) = Worth(Nothing, r) + Worth(r, u)
<1> DEFINE f == [l \in Lines |-> Value(l, Nothing[l], r[l])]
           g == [l \in Lines |-> Value(l, r[l], u[l])]
           h == [l \in Lines |-> Value(l, Nothing[l], Plus(r, u)[l])]
<1>1. ASSUME NEW l \in Lines
      PROVE  /\ f[l] \in Nat /\ g[l] \in Nat /\ h[l] \in Nat /\ h[l] = f[l] + g[l]
  <2>1. r[l] \in Nat /\ u[l] \in Nat /\ 0 \in Nat /\ r[l] + u[l] \in Nat
    BY SMT
  <2>2. f[l] = Value(l, 0, r[l]) /\ g[l] = Value(l, r[l], u[l]) /\ h[l] = Value(l, 0, r[l] + u[l])
    BY DEF Nothing, Plus
  <2>3. Value(l, 0, r[l]) \in Nat /\ Value(l, r[l], u[l]) \in Nat /\ Value(l, 0, r[l] + u[l]) \in Nat
    BY <2>1, UnitsNeverLoseValue
  <2>4. Value(l, 0, r[l]) + Value(l, r[l], u[l]) = Value(l, 0, r[l] + u[l])
    BY <2>1, PiecesAddUp
  <2> QED
    BY <2>2, <2>3, <2>4
<1>2. f \in [Lines -> Nat] /\ g \in [Lines -> Nat] /\ h \in [Lines -> Nat] /\ IsFiniteSet(Lines)
  BY <1>1, ReturnsAssumption
<1>3. /\ Worth(Nothing, r) = Cardinality(Pieces(f)) /\ Worth(r, u) = Cardinality(Pieces(g))
      /\ Worth(Nothing, Plus(r, u)) = Cardinality(Pieces(h))
  BY DEF Worth
<1>4. \A l \in Lines : h[l] = f[l] + g[l]
  BY <1>1
<1> HIDE DEF f, g, h
<1>5. Cardinality(Pieces(h)) = Cardinality(Pieces(f)) + Cardinality(Pieces(g))
  BY <1>2, <1>4, PiecesSum
<1> QED
  BY <1>3, <1>5

LEMMA NothingIsWorthNothing == Worth(Nothing, Nothing) = 0
<1>1. ASSUME NEW l \in Lines PROVE Value(l, Nothing[l], Nothing[l]) = 0
  <2> DEFINE v == Value(l, 0, 0)
  <2>1. v \in Nat /\ v + v = Value(l, 0, 0 + 0)
    BY UnitsNeverLoseValue, PiecesAddUp, SMT
  <2>2. 0 + 0 = 0
    BY SMT
  <2>3. v + v = v
    BY <2>1, <2>2
  <2>4. v = Value(l, Nothing[l], Nothing[l])
    BY DEF Nothing
  <2> HIDE DEF v
  <2>5. v = 0
    BY <2>1, <2>3, SMT
  <2> QED
    BY <2>4, <2>5
<1> DEFINE f == [l \in Lines |-> Value(l, Nothing[l], Nothing[l])]
<1>2. Pieces(f) = {}
  <2>1. ASSUME NEW l \in Lines PROVE f[l] = 0
    BY <1>1
  <2>2. f \in [Lines -> Nat]
    BY <2>1
  <2> HIDE DEF f
  <2>3. ASSUME NEW p \in Pieces(f) PROVE FALSE
    <3>1. PICK l \in Lines : \E i \in 1..f[l] : p = <<l, i>>
      BY <2>2, <2>3, PiecesHas
    <3> QED
      BY <2>1, <3>1, SMT
  <2> QED
    BY <2>3
<1> QED
  BY <1>2, FS_EmptySet DEF Worth

\* A return in one transaction, by credit, cash or both, leaves the tenders exact: in
\* whatever pieces goods come back, the customer gets what one return would give.
THEOREM ReturnStaysExact ==
    ASSUME order \in Orders, Exact, NEW k \in Keys, NEW units \in [Lines -> Nat],
           returned \in [Lines -> Nat], Return(k, units)
    PROVE  Exact'
<1> DEFINE a == Worth(returned, units)
           b == Sum(given) + a
<1>1. b \in 0..Total /\ a \in Nat /\ Sum(given) \in 0..Total /\ Total \in Nat
  <2>1. a \in Nat
    BY WorthType
  <2>2. /\ Sum(given) + a <= Total /\ Sum(given) \in 0..Total /\ Total \in Nat
    BY PaidType DEF Return, Returnable, Divisible, Exact
  <2> HIDE DEF a
  <2> QED
    BY <2>1, <2>2, SMT
<1>2. given' = [t \in Tenders |-> given[t] + Due(t, a, given)]
  BY DEF Return
<1> HIDE DEF a
<1>3. \A t \in Tenders : given'[t] = Share(t, b)
  <2> TAKE t \in Tenders
  <2>1. Share(t, b) \in Nat /\ given[t] \in Nat
    BY <1>1, ShareParts, SMT DEF Exact
  <2> QED
    BY <1>2, <2>1, SMT DEF Due
<1>4. Share("credit", b) + Share("external", b) = b
  BY <1>1, SharesAddUp
<1>5. Sum(given') = b
  BY <1>3, <1>4, Zenon DEF Sum, Tenders
<1>6. \A t \in Tenders : Share(t, b) \in 0..Total
  <2> TAKE t \in Tenders
  <2>1. Share(t, b) \in 0..Paid(t)
    BY <1>1, SharesWithinPaid
  <2> QED
    BY <2>1, PaidType, SMT DEF Tenders
<1>7. /\ given' \in [Tenders -> 0..Total]
      /\ \A t \in Tenders : given'[t] = Share(t, Sum(given'))
  BY <1>2, <1>3, <1>5, <1>6
<1>8. /\ order'.credit = order.credit /\ order'.external = order.external
  BY SMT DEF Return, Orders
<1>9. \A t \in Tenders : \A n \in 0..Total : Share(t, n)' = Share(t, n)
  BY <1>8 DEF Share, Left, CreditFirst, Paid
<1> QED
  BY <1>1, <1>5, <1>7, <1>8 DEF Exact, Sum, Share, Left, CreditFirst, Paid

\* What PayPal has to give back for the returns of some keys, as their rows say.
Refunds(R, S) == Cardinality(Pieces([k \in S |-> R[k].paypal]))

LEMMA RefundsType ==
    ASSUME NEW R \in [Keys -> Rows], NEW S \in SUBSET Keys
    PROVE  /\ Refunds(R, S) \in Nat /\ [k \in S |-> R[k].paypal] \in [S -> Nat]
           /\ IsFiniteSet(Pieces([k \in S |-> R[k].paypal])) /\ IsFiniteSet(S)
<1> DEFINE f == [k \in S |-> R[k].paypal]
<1>1. IsFiniteSet(S)
  BY ReturnsAssumption, FS_Subset
<1>2. f \in [S -> Nat]
  BY SMT DEF Rows
<1> HIDE DEF f
<1>3. IsFiniteSet(Pieces(f)) /\ Cardinality(Pieces(f)) \in Nat
  BY <1>1, <1>2, PiecesFinite
<1> QED
  BY <1>1, <1>2, <1>3 DEF Refunds, f

\* Keys without a refund do not count, nor does anything of a row but its refund.
LEMMA RefundsSame ==
    ASSUME NEW R \in [Keys -> Rows], NEW Q \in [Keys -> Rows],
           NEW S \in SUBSET Keys, NEW T \in SUBSET Keys,
           \A k \in S : (k \in T /\ R[k].paypal = Q[k].paypal) \/ R[k].paypal = 0,
           \A k \in T : (k \in S /\ R[k].paypal = Q[k].paypal) \/ Q[k].paypal = 0
    PROVE  Refunds(R, S) = Refunds(Q, T)
<1> DEFINE f == [k \in S |-> R[k].paypal]
           g == [k \in T |-> Q[k].paypal]
<1>1. f \in [S -> Nat] /\ g \in [T -> Nat]
  BY RefundsType
<1>2. /\ \A k \in S : (k \in T /\ f[k] = g[k]) \/ f[k] = 0
      /\ \A k \in T : (k \in S /\ f[k] = g[k]) \/ g[k] = 0
  OBVIOUS
<1>3. Refunds(R, S) = Cardinality(Pieces(f)) /\ Refunds(Q, T) = Cardinality(Pieces(g))
  BY DEF Refunds
<1> HIDE DEF f, g
<1>4. ASSUME NEW p \in Pieces(f) PROVE p \in Pieces(g)
  <2>1. PICK k \in S : \E i \in 1..f[k] : p = <<k, i>>
    BY <1>1, <1>4, PiecesHas
  <2>2. f[k] # 0
    BY <2>1, SMT
  <2>3. k \in T /\ f[k] = g[k]
    BY <1>2, <2>2
  <2> QED
    BY <1>1, <2>1, <2>3, PiecesHas
<1>5. ASSUME NEW p \in Pieces(g) PROVE p \in Pieces(f)
  <2>1. PICK k \in T : \E i \in 1..g[k] : p = <<k, i>>
    BY <1>1, <1>5, PiecesHas
  <2>2. g[k] # 0
    BY <2>1, SMT
  <2>3. k \in S /\ f[k] = g[k]
    BY <1>2, <2>2
  <2> QED
    BY <1>1, <2>1, <2>3, PiecesHas
<1>6. Pieces(f) = Pieces(g)
  BY <1>4, <1>5
<1> QED
  BY <1>3, <1>6

\* More keys have to be given back no less.
LEMMA RefundsGrow ==
    ASSUME NEW R \in [Keys -> Rows], NEW T \in SUBSET Keys, NEW S \in SUBSET T
    PROVE  Refunds(R, S) <= Refunds(R, T)
<1> DEFINE f == [k \in S |-> R[k].paypal]
           g == [k \in T |-> R[k].paypal]
<1>1. f \in [S -> Nat] /\ g \in [T -> Nat] /\ IsFiniteSet(Pieces(g))
  BY RefundsType
<1>2. \A k \in S : k \in T /\ f[k] = g[k]
  OBVIOUS
<1>3. Refunds(R, S) = Cardinality(Pieces(f)) /\ Refunds(R, T) = Cardinality(Pieces(g))
  BY DEF Refunds
<1> HIDE DEF f, g
<1>4. Pieces(f) \subseteq Pieces(g)
  BY <1>1, <1>2, PiecesHas
<1> QED
  BY <1>1, <1>3, <1>4, FS_Subset

\* One more return to give back for.
LEMMA RefundsAdd ==
    ASSUME NEW R \in [Keys -> Rows], NEW S \in SUBSET Keys, NEW k \in Keys, k \notin S
    PROVE  Refunds(R, S \cup {k}) = Refunds(R, S) + R[k].paypal
<1> DEFINE T == S \cup {k}
           f == [x \in T |-> IF x = k THEN 0 ELSE R[x].paypal]
           g == [x \in T |-> IF x = k THEN R[k].paypal ELSE 0]
           h == [x \in T |-> R[x].paypal]
           n == R[k].paypal
<1>1. IsFiniteSet(T) /\ h \in [T -> Nat] /\ n \in Nat
  <2>1. n \in Nat
    BY SMT DEF Rows
  <2>2. T \in SUBSET Keys
    OBVIOUS
  <2> HIDE DEF T
  <2> QED
    BY <2>1, <2>2, RefundsType
<1>2. f \in [T -> Nat] /\ g \in [T -> Nat]
  <2>1. \A x \in T : R[x].paypal \in Nat
    BY SMT DEF Rows
  <2> QED
    BY <2>1, SMT
<1>3. \A x \in T : h[x] = f[x] + g[x]
  BY <1>1, <1>2, SMT
<1>4. Refunds(R, T) = Cardinality(Pieces(h))
  BY DEF Refunds
<1>5. Pieces(g) = {k} \X (1..n)
  <2>1. g[k] = n /\ k \in T /\ \A x \in T : x # k => g[x] = 0
    OBVIOUS
  <2> HIDE DEF g, T, n
  <2>2. ASSUME NEW p \in Pieces(g) PROVE p \in {k} \X (1..n)
    <3>1. PICK x \in T : \E i \in 1..g[x] : p = <<x, i>>
      BY <1>2, <2>2, PiecesHas
    <3>2. g[x] # 0
      BY <3>1, SMT
    <3> QED
      BY <2>1, <3>1, <3>2
  <2>3. ASSUME NEW p \in {k} \X (1..n) PROVE p \in Pieces(g)
    <3>1. PICK i \in 1..n : p = <<k, i>>
      BY <2>3
    <3> QED
      BY <1>2, <2>1, <3>1, PiecesHas
  <2> QED
    BY <2>2, <2>3
<1>6. Cardinality(Pieces(g)) = n
  <2> HIDE DEF n, g
  <2>0. 1 \in Int /\ n \in Int
    BY <1>1, SMT
  <2>1. IsFiniteSet({k}) /\ Cardinality({k}) = 1 /\ 1 \in Int /\ n \in Int
    BY <2>0, FS_Singleton, Zenon
  <2>2. IsFiniteSet(1..n) /\ Cardinality(1..n) = n
    BY <1>1, <2>1, FS_Interval, SMT
  <2>3. Cardinality({k} \X (1..n)) = Cardinality({k}) * Cardinality(1..n)
    BY <2>1, <2>2, FS_Product
  <2> QED
    BY <1>1, <1>5, <2>1, <2>2, <2>3, SMT
<1>7. Pieces(f) = Pieces([x \in S |-> R[x].paypal])
  <2> DEFINE e == [x \in S |-> R[x].paypal]
  <2>1. e \in [S -> Nat]
    BY RefundsType
  <2>2. (\A x \in S : x \in T /\ f[x] = e[x]) /\ (\A x \in T : (x \in S /\ f[x] = e[x]) \/ f[x] = 0)
    BY Zenon
  <2> HIDE DEF e, f, T
  <2>3. ASSUME NEW p \in Pieces(f) PROVE p \in Pieces(e)
    <3>1. PICK x \in T : \E i \in 1..f[x] : p = <<x, i>>
      BY <1>2, <2>3, PiecesHas
    <3>2. f[x] # 0
      BY <3>1, SMT
    <3>3. x \in S /\ f[x] = e[x]
      BY <2>2, <3>2
    <3> QED
      BY <2>1, <3>1, <3>3, PiecesHas
  <2>4. ASSUME NEW p \in Pieces(e) PROVE p \in Pieces(f)
    BY <1>2, <2>1, <2>2, <2>4, PiecesHas
  <2>5. Pieces(f) = Pieces(e)
    BY <2>3, <2>4
  <2> QED
    BY <2>5 DEF e
<1> HIDE DEF f, g, h, T
<1>8. Cardinality(Pieces(h)) = Cardinality(Pieces(f)) + Cardinality(Pieces(g))
  BY <1>1, <1>2, <1>3, PiecesSum
<1> QED
  BY <1>4, <1>6, <1>7, <1>8 DEF Refunds, T

-----------------------------------------------------------------------------
(* The inductive invariant.                                                *)

Types ==
    /\ order \in Orders /\ ret \in [Keys -> Rows]
    /\ returned \in [Lines -> Nat] /\ given \in [Tenders -> Int]
    /\ refund \in [Keys -> RefundStates] /\ made \in [Keys -> {"none"} \cup Outcomes]
    /\ calls \in [Callers -> Calls \cup {Idle}]

\* The rows of a return and of its refund tell the same, and what a refund's row says
\* of PayPal is what PayPal did.
RowInv(k) ==
    /\ ret[k].status = "none" => refund[k] = "none" /\ ret[k].paypal = 0
    /\ refund[k] = "none" => ret[k].tender # "paypal" /\ ret[k].paypal = 0
    /\ refund[k] # "none" => ret[k].tender = "paypal"
    /\ refund[k] \in {"provider_succeeded", "locally_finalized"} => made[k] = "provider_succeeded"
    /\ refund[k] = "failed" => made[k] = "failed"
    /\ ret[k].status = "completed" /\ refund[k] # "none" => made[k] = "provider_succeeded"
RowsInv == \A k \in Keys : RowInv(k)

\* A request that is late still has a true answer: what PayPal has decided once it
\* does not take back.
CallInv(c) ==
    calls[c].at # "idle" =>
      /\ refund[calls[c].key] # "none"
      /\ calls[c].seen \in {"provider_succeeded", "failed"} =>
           made[calls[c].key] = calls[c].seen
      /\ calls[c].at \in {"record", "told"} => calls[c].seen # "none"
      /\ calls[c].at \in {"finalize", "complete"} => made[calls[c].key] = "provider_succeeded"
CallsInv == \A c \in Callers : CallInv(c)

\* One return at a time is under way.
OneWaits == \A k \in Waiting, m \in Waiting : k = m

\* What the returned units are worth, which is what the tenders are to share.
Goods == Worth(Nothing, returned)
Completed == {k \in Keys : ret[k].status = "completed"}
Booked == {k \in Keys : refund[k] = "locally_finalized"}

\* PayPal's tender has its share, but for refunds of completed returns that are not
\* booked any more, and for one that is booked before its return is completed.
ExternalInv ==
    /\ Goods <= Total
    /\ \A l \in Lines : returned[l] <= Quantity[l]
    /\ Refunds(ret, Completed) <= Share("external", Goods)
    /\ given["external"] + Refunds(ret, Completed)
         = Share("external", Goods) + Refunds(ret, Booked)

\* The return that is under way: its lines are still there, and its part for PayPal is
\* what is due now.
PendingInv(k) ==
    /\ \A l \in Lines : returned[l] + ret[k].units[l] <= Quantity[l]
    /\ ret[k].value = Worth(returned, ret[k].units)
    /\ Goods + ret[k].value <= Total
    /\ IF ret[k].tender = "paypal"
       THEN /\ Share("external", Goods + ret[k].value) = Share("external", Goods) + ret[k].paypal
            /\ given["credit"] = Share("credit", Goods)
       ELSE given["credit"] = Share("credit", Goods + ret[k].value)
WaitingInv ==
    /\ Waiting = {} => given["credit"] = Share("credit", Goods)
    /\ \A k \in Waiting : PendingInv(k)

ReturnsInv == Types /\ RowsInv /\ CallsInv /\ OneWaits /\ ExternalInv /\ WaitingInv

-----------------------------------------------------------------------------
(* What follows from it in a state.                                        *)

\* The shares of a sum, as numbers.
LEMMA ShareNumbers ==
    ASSUME order \in Orders, NEW n \in 0..Total
    PROVE  /\ Share("credit", n) \in Nat /\ Share("external", n) \in Nat
           /\ Share("credit", n) + Share("external", n) = n
           /\ Share("credit", n) <= Paid("credit") /\ Share("external", n) <= Paid("external")
           /\ Paid("credit") \in 0..Total /\ Paid("external") \in 0..Total
<1>1. Share("credit", n) \in 0..Paid("credit") /\ Share("external", n) \in 0..Paid("external")
  BY SharesWithinPaid DEF Tenders
<1>2. Share("credit", n) + Share("external", n) = n
  BY SharesAddUp
<1> QED
  BY <1>1, <1>2, PaidType, SMT

\* The sums of an order that keeps the invariant.
LEMMA Numbers ==
    ASSUME ReturnsInv
    PROVE  /\ Goods \in 0..Total /\ Total \in Nat
           /\ given["credit"] \in Int /\ given["external"] \in Int
           /\ Share("external", Goods) \in Nat /\ Share("credit", Goods) \in Nat
           /\ Refunds(ret, Completed) \in Nat /\ Refunds(ret, Booked) \in Nat
           /\ Nothing \in [Lines -> Nat]
           /\ \A k \in Keys : /\ ret[k].value \in Nat /\ ret[k].paypal \in Nat
                              /\ ret[k].units \in [Lines -> Nat]
<1>1. Nothing \in [Lines -> Nat]
  BY SMT DEF Nothing
<1>2. returned \in [Lines -> Nat] /\ ret \in [Keys -> Rows] /\ order \in Orders
      /\ given \in [Tenders -> Int] /\ Goods <= Total
  BY DEF ReturnsInv, Types, ExternalInv
<1>3. Goods \in Nat /\ Total \in Nat
  BY <1>1, <1>2, WorthType, ReturnsAssumption DEF Goods
<1>4. Goods \in 0..Total
  BY <1>2, <1>3, SMT
<1>5. Share("external", Goods) \in Nat /\ Share("credit", Goods) \in Nat
  BY <1>2, <1>4, ShareNumbers
<1>6. Refunds(ret, Completed) \in Nat /\ Refunds(ret, Booked) \in Nat
  <2>1. Completed \in SUBSET Keys /\ Booked \in SUBSET Keys
    BY DEF Completed, Booked
  <2> QED
    BY <1>2, <2>1, RefundsType
<1>7. \A k \in Keys : /\ ret[k].value \in Nat /\ ret[k].paypal \in Nat
                      /\ ret[k].units \in [Lines -> Nat]
  BY <1>2, SMT DEF Rows
<1>8. given["credit"] \in Int /\ given["external"] \in Int
  BY <1>2 DEF Tenders
<1> QED
  BY <1>1, <1>3, <1>4, <1>5, <1>6, <1>7, <1>8

\* What the ledger of refunds holds is what completed returns gave, and the part of the
\* return under way if that is booked.
LEMMA BookedParts ==
    ASSUME ReturnsInv
    PROVE  /\ Waiting = {} => Refunds(ret, Booked) <= Refunds(ret, Completed)
           /\ \A k \in Waiting : Refunds(ret, Booked) <= Refunds(ret, Completed) + ret[k].paypal
           /\ \A k \in Booked : ret[k].paypal <= Refunds(ret, Booked)
<1>1. ret \in [Keys -> Rows] /\ Completed \in SUBSET Keys /\ Booked \in SUBSET Keys
  BY DEF ReturnsInv, Types, Completed, Booked
<1>2. \A k \in Booked : k \in Completed \/ k \in Waiting
  <2> TAKE k \in Booked
  <2>1. ret[k].status \in {"none", "pending", "completed"} /\ k \in Keys /\ RowInv(k)
    BY <1>1 DEF Rows, ReturnsInv, RowsInv
  <2>2. refund[k] # "none"
    BY DEF Booked
  <2> QED
    BY <2>1, <2>2 DEF RowInv, Completed, Waiting
<1>3. ASSUME Waiting = {} PROVE Refunds(ret, Booked) <= Refunds(ret, Completed)
  <2>1. Booked \in SUBSET Completed
    BY <1>2, <1>3
  <2> QED
    BY <1>1, <2>1, RefundsGrow
<1>4. ASSUME NEW k \in Waiting
      PROVE  Refunds(ret, Booked) <= Refunds(ret, Completed) + ret[k].paypal
  <2>1. k \in Keys /\ k \notin Completed
    BY DEF Waiting, Completed
  <2>2. Booked \in SUBSET (Completed \cup {k}) /\ Completed \cup {k} \in SUBSET Keys
    BY <1>1, <1>2, <2>1 DEF ReturnsInv, OneWaits
  <2>3. Refunds(ret, Booked) <= Refunds(ret, Completed \cup {k})
    BY <1>1, <2>2, RefundsGrow
  <2>4. Refunds(ret, Completed \cup {k}) = Refunds(ret, Completed) + ret[k].paypal
    BY <1>1, <2>1, RefundsAdd
  <2> QED
    BY <2>3, <2>4
<1>5. ASSUME NEW k \in Booked PROVE ret[k].paypal <= Refunds(ret, Booked)
  <2>1. k \in Keys /\ k \notin {} /\ {} \in SUBSET Keys /\ {} \cup {k} \in SUBSET Booked
    BY DEF Booked
  <2>2. Refunds(ret, {} \cup {k}) = Refunds(ret, {}) + ret[k].paypal
    BY <1>1, <2>1, RefundsAdd
  <2>3. Refunds(ret, {} \cup {k}) <= Refunds(ret, Booked)
    BY <1>1, <2>1, RefundsGrow
  <2>4. Refunds(ret, {}) \in Nat /\ Refunds(ret, Booked) \in Nat /\ ret[k].paypal \in Nat
    BY <1>1, <2>1, RefundsType, Numbers
  <2> HIDE DEF Booked
  <2> QED
    BY <2>2, <2>3, <2>4, SMT
<1> QED
  BY <1>3, <1>4, <1>5

\* No tender has been given more than was paid by it, nor less than nothing.
LEMMA GivenRange ==
    ASSUME ReturnsInv
    PROVE  /\ given["credit"] \in 0..Paid("credit") /\ given["external"] \in 0..Paid("external")
           /\ Paid("credit") \in 0..Total /\ Paid("external") \in 0..Total
           /\ given["external"] >= Refunds(ret, Booked)
<1>1. order \in Orders /\ Goods \in 0..Total
  BY Numbers DEF ReturnsInv, Types
<1>2. /\ Share("credit", Goods) \in Nat /\ Share("external", Goods) \in Nat
      /\ Share("credit", Goods) <= Paid("credit") /\ Share("external", Goods) <= Paid("external")
      /\ Paid("credit") \in 0..Total /\ Paid("external") \in 0..Total
  BY <1>1, ShareNumbers
<1>3. /\ given["credit"] \in Int /\ given["external"] \in Int /\ Total \in Nat
      /\ Refunds(ret, Completed) \in Nat /\ Refunds(ret, Booked) \in Nat
      /\ Refunds(ret, Completed) <= Share("external", Goods)
      /\ given["external"] + Refunds(ret, Completed)
           = Share("external", Goods) + Refunds(ret, Booked)
  BY Numbers DEF ReturnsInv, ExternalInv
<1>4. CASE Waiting = {}
  <2>1. /\ Refunds(ret, Booked) <= Refunds(ret, Completed)
        /\ given["credit"] = Share("credit", Goods)
    BY <1>4, BookedParts DEF ReturnsInv, WaitingInv
  <2> QED
    BY <1>2, <1>3, <2>1, SMT
<1>5. ASSUME NEW k \in Waiting
      PROVE  /\ given["credit"] \in 0..Paid("credit")
             /\ given["external"] \in 0..Paid("external")
             /\ given["external"] >= Refunds(ret, Booked)
  <2>1. /\ PendingInv(k) /\ k \in Keys /\ RowInv(k)
        /\ Refunds(ret, Booked) <= Refunds(ret, Completed) + ret[k].paypal
    BY <1>5, BookedParts DEF ReturnsInv, WaitingInv, Waiting, RowsInv
  <2> DEFINE n == Goods + ret[k].value
  <2>2. n \in 0..Total
    BY <1>1, <2>1, Numbers, SMT DEF PendingInv
  <2>3. /\ Share("credit", n) \in Nat /\ Share("external", n) \in Nat
        /\ Share("credit", n) <= Paid("credit") /\ Share("external", n) <= Paid("external")
    BY <1>1, <2>2, ShareNumbers
  <2>4. ret[k].paypal \in Nat
    BY <2>1, Numbers
  <2>5. CASE ret[k].tender = "paypal"
    <3>1. /\ Share("external", n) = Share("external", Goods) + ret[k].paypal
          /\ given["credit"] = Share("credit", Goods)
      BY <2>1, <2>5 DEF PendingInv
    <3> HIDE DEF n
    <3> QED
      BY <1>2, <1>3, <2>1, <2>3, <2>4, <3>1, SMT
  <2>6. CASE ret[k].tender # "paypal"
    <3>1. ret[k].paypal = 0 /\ given["credit"] = Share("credit", n)
      BY <2>1, <2>6 DEF PendingInv, RowInv
    <3> HIDE DEF n
    <3> QED
      BY <1>2, <1>3, <2>1, <2>3, <2>4, <3>1, SMT
  <2> QED
    BY <2>5, <2>6
<1> QED
  BY <1>2, <1>4, <1>5

\* When nothing is under way, each tender has its share of what was returned.
LEMMA QuietExact ==
    ASSUME ReturnsInv, Active = {}, Waiting = {}
    PROVE  /\ given["credit"] = Share("credit", Goods)
           /\ given["external"] = Share("external", Goods)
           /\ Sum(given) = Goods
<1>1. ret \in [Keys -> Rows] /\ Completed \in SUBSET Keys /\ Booked \in SUBSET Keys
      /\ order \in Orders /\ refund \in [Keys -> RefundStates]
  BY DEF ReturnsInv, Types, Completed, Booked
<1>2. ASSUME NEW k \in Keys
      PROVE  /\ k \in Completed => k \in Booked \/ ret[k].paypal = 0
             /\ k \in Booked => k \in Completed
  <2>1. /\ ret[k].status \in {"none", "pending", "completed"} /\ ret[k].status # "pending"
        /\ refund[k] \in {"none", "failed", "locally_finalized"} /\ RowInv(k)
    BY <1>1 DEF Rows, Active, Waiting, ReturnsInv, RowsInv
  <2> QED
    BY <2>1 DEF RowInv, Completed, Booked
<1>3. Refunds(ret, Completed) = Refunds(ret, Booked)
  <2>1. /\ \A k \in Completed : k \in Booked \/ ret[k].paypal = 0
        /\ \A k \in Booked : k \in Completed
    BY <1>1, <1>2
  <2> QED
    BY <1>1, <2>1, RefundsSame
<1>4. given["external"] = Share("external", Goods)
  BY <1>3, Numbers, SMT DEF ReturnsInv, ExternalInv
<1>5. given["credit"] = Share("credit", Goods)
  BY DEF ReturnsInv, WaitingInv
<1>6. Share("credit", Goods) + Share("external", Goods) = Goods
  BY <1>1, Numbers, ShareNumbers
<1> QED
  BY <1>4, <1>5, <1>6 DEF Sum

-----------------------------------------------------------------------------
(* How steps keep it.                                                      *)

\* How an order was paid does not change.
SamePayment == /\ order \in Orders /\ order' \in Orders
               /\ order'.credit = order.credit /\ order'.external = order.external

LEMMA SharesKept ==
    ASSUME SamePayment
    PROVE  /\ Share("external", Goods)' = Share("external", Goods')
           /\ Share("credit", Goods)' = Share("credit", Goods')
           /\ \A k \in Keys :
                /\ Share("external", Goods + ret[k].value)' = Share("external", Goods' + ret'[k].value)
                /\ Share("credit", Goods + ret[k].value)' = Share("credit", Goods' + ret'[k].value)
BY Zenon DEF SamePayment, Share, Left, CreditFirst, Paid

\* What the invariant asks of a later state, with the shares as they are split now.
LEMMA ExternalNext ==
    ASSUME SamePayment, Goods' <= Total, \A l \in Lines : returned'[l] <= Quantity[l],
           Refunds(ret', Completed') <= Share("external", Goods'),
           given'["external"] + Refunds(ret', Completed')
             = Share("external", Goods') + Refunds(ret', Booked')
    PROVE  ExternalInv'
BY SharesKept, Zenon DEF ExternalInv, Refunds

PendingNext(k) ==
    /\ \A l \in Lines : returned'[l] + ret'[k].units[l] <= Quantity[l]
    /\ ret'[k].value = Worth(returned', ret'[k].units)
    /\ Goods' + ret'[k].value <= Total
    /\ IF ret'[k].tender = "paypal"
       THEN /\ Share("external", Goods' + ret'[k].value)
                 = Share("external", Goods') + ret'[k].paypal
            /\ given'["credit"] = Share("credit", Goods')
       ELSE given'["credit"] = Share("credit", Goods' + ret'[k].value)
LEMMA WaitingNext ==
    ASSUME SamePayment,
           Waiting' = {} => given'["credit"] = Share("credit", Goods'),
           \A k \in Waiting' : PendingNext(k)
    PROVE  WaitingInv'
<1>1. ASSUME NEW k \in Waiting' PROVE PendingInv(k)'
  <2>1. PendingNext(k) /\ k \in Keys
    BY DEF Waiting
  <2> QED
    BY <2>1, SharesKept, Zenon DEF PendingInv, PendingNext
<1> QED
  BY <1>1, SharesKept DEF WaitingInv

\* Steps that touch neither rows nor money.
LEMMA MoneyKept ==
    ASSUME ReturnsInv, SamePayment, UNCHANGED <<ret, returned, given, refund>>
    PROVE  OneWaits' /\ ExternalInv' /\ WaitingInv'
<1>1. Goods' = Goods /\ Waiting' = Waiting /\ Completed' = Completed /\ Booked' = Booked
  BY DEF Goods, Waiting, Completed, Booked
<1>2. ExternalInv'
  BY <1>1, ExternalNext DEF ReturnsInv, ExternalInv
<1>3. \A k \in Waiting' : PendingNext(k)
  BY <1>1 DEF ReturnsInv, WaitingInv, PendingInv, PendingNext
<1>4. WaitingInv'
  BY <1>1, <1>3, WaitingNext DEF ReturnsInv, WaitingInv
<1> QED
  BY <1>1, <1>2, <1>4 DEF ReturnsInv, OneWaits

\* What a new return meets: nothing is under way, the tenders have their shares, and its
\* lines can be divided.
LEMMA NewReturn ==
    ASSUME ReturnsInv, NEW k \in Keys, NEW units \in Requests, Returnable(k, units)
    PROVE  /\ units \in [Lines -> Nat] /\ Worth(returned, units) \in Nat
           /\ Goods + Worth(returned, units) \in 0..Total
           /\ given["credit"] = Share("credit", Goods)
           /\ given["external"] = Share("external", Goods)
           /\ Sum(given) = Goods
           /\ \A t \in Tenders :
                /\ Share(t, Goods) \in Nat /\ Share(t, Goods + Worth(returned, units)) \in Nat
                /\ Share(t, Goods) <= Share(t, Goods + Worth(returned, units))
                /\ Due(t, Worth(returned, units), given)
                     = Share(t, Goods + Worth(returned, units)) - Share(t, Goods)
           /\ ret[k].status = "none" /\ refund[k] = "none"
           /\ Waiting = {} /\ Refunds(ret, Booked) <= Refunds(ret, Completed)
<1> DEFINE a == Worth(returned, units)
<1>1. units \in [Lines -> Nat]
  BY SMT DEF Requests
<1>2. a \in Nat
  BY <1>1, WorthType DEF ReturnsInv, Types
<1>3. /\ ret[k].status = "none" /\ Active = {} /\ Waiting = {}
      /\ Divisible(a, given)
  BY DEF Returnable
<1>4. /\ given["credit"] = Share("credit", Goods)
      /\ given["external"] = Share("external", Goods)
      /\ Sum(given) = Goods
  BY <1>3, QuietExact
<1>5. refund[k] = "none"
  BY <1>3 DEF ReturnsInv, RowsInv, RowInv
<1>6. Goods + a \in 0..Total /\ Goods \in 0..Total /\ Goods <= Goods + a
  <2>1. Goods \in 0..Total /\ Total \in Nat
    BY Numbers
  <2>2. Goods + a <= Total
    BY <1>3, <1>4 DEF Divisible
  <2> HIDE DEF a
  <2> QED
    BY <1>2, <2>1, <2>2, SMT
<1> HIDE DEF a
<1>7. ASSUME NEW t \in Tenders
      PROVE  /\ Share(t, Goods) \in Nat /\ Share(t, Goods + a) \in Nat
             /\ Share(t, Goods) <= Share(t, Goods + a)
             /\ Due(t, a, given) = Share(t, Goods + a) - Share(t, Goods)
  <2>1. order \in Orders
    BY DEF ReturnsInv, Types
  <2>2. Share(t, Goods) \in Nat /\ Share(t, Goods + a) \in Nat
    BY <1>6, <2>1, ShareParts
  <2>3. Share(t, Goods) <= Share(t, Goods + a)
    BY <1>6, <2>1, SharesAreMonotone
  <2>4. given[t] = Share(t, Goods)
    BY <1>4 DEF Tenders
  <2> QED
    BY <1>4, <2>2, <2>3, <2>4 DEF Due
<1>8. Refunds(ret, Booked) <= Refunds(ret, Completed)
  BY <1>3, BookedParts
<1> QED
  BY <1>1, <1>2, <1>3, <1>4, <1>5, <1>6, <1>7, <1>8 DEF a

\* The row a new return makes.
LEMMA NewRow ==
    ASSUME ReturnsInv, NEW k \in Keys, NEW units \in [Lines -> Nat],
           Worth(returned, units) \in Nat,
           NEW status \in {"pending", "completed"}, NEW tender \in {"credit", "cash", "paypal"},
           NEW part \in Nat, Row(k, units, status, tender, part)
    PROVE  /\ ret' \in [Keys -> Rows]
           /\ ret'[k].status = status /\ ret'[k].tender = tender /\ ret'[k].paypal = part
           /\ ret'[k].value = Worth(returned, units) /\ ret'[k].units = units
           /\ \A m \in Keys \ {k} : ret'[m] = ret[m]
<1> DEFINE row == [status |-> status, tender |-> tender, value |-> Worth(returned, units),
                   paypal |-> part, units |-> units]
<1>1. row \in Rows
  BY DEF Rows
<1>2. ret' = [ret EXCEPT ![k] = row]
  BY DEF Row
<1>3. ret \in [Keys -> Rows]
  BY DEF ReturnsInv, Types
<1> QED
  BY <1>1, <1>2, <1>3

\* A return in one transaction gives each tender its share.
LEMMA ReturnStep ==
    ASSUME ReturnsInv, NEW k \in Keys, NEW units \in Requests, Return(k, units)
    PROVE  ReturnsInv'
<1> DEFINE a == Worth(returned, units)
           tender == IF ByCash(a) THEN "cash" ELSE "credit"
<1>1. Returnable(k, units) /\ returned' = [l \in Lines |-> returned[l] + units[l]]
      /\ UNCHANGED <<refund, made, calls>> /\ Row(k, units, "completed", tender, 0)
      /\ given' = [t \in Tenders |-> given[t] + Due(t, a, given)]
      /\ order' = [order EXCEPT !.payment = Status(Sum(given) + a)]
  BY DEF Return
<1>2. /\ units \in [Lines -> Nat] /\ a \in Nat /\ Goods + a \in 0..Total
      /\ given["credit"] = Share("credit", Goods) /\ given["external"] = Share("external", Goods)
      /\ \A t \in Tenders : /\ Share(t, Goods) \in Nat /\ Share(t, Goods + a) \in Nat
                            /\ Share(t, Goods) <= Share(t, Goods + a)
                            /\ Due(t, a, given) = Share(t, Goods + a) - Share(t, Goods)
      /\ ret[k].status = "none" /\ refund[k] = "none" /\ Waiting = {}
  BY <1>1, NewReturn
<1>3. /\ ret' \in [Keys -> Rows] /\ ret'[k].status = "completed" /\ ret'[k].tender = tender
      /\ ret'[k].paypal = 0 /\ \A m \in Keys \ {k} : ret'[m] = ret[m]
  <2>1. tender \in {"credit", "cash", "paypal"} /\ 0 \in Nat
    BY SMT
  <2> QED
    BY <1>1, <1>2, <2>1, NewRow, Zenon
<1>4. tender # "paypal"
  OBVIOUS
<1> HIDE DEF a, tender
<1>5. SamePayment
  <2>1. Status(Sum(given) + a) \in {"refunded", "partially_refunded"} /\ order \in Orders
    BY DEF Status, ReturnsInv, Types
  <2> QED
    BY <1>1, <2>1 DEF SamePayment, Orders
<1>6. /\ given'["credit"] = Share("credit", Goods + a)
      /\ given'["external"] = Share("external", Goods + a)
      /\ given' \in [Tenders -> Int]
  <2>1. ASSUME NEW t \in Tenders PROVE given'[t] = Share(t, Goods + a) /\ given'[t] \in Int
    <3>1. given[t] = Share(t, Goods)
      BY <1>2 DEF Tenders
    <3>2. given'[t] = given[t] + Due(t, a, given)
      BY <1>1
    <3>3. Share(t, Goods) \in Nat /\ Share(t, Goods + a) \in Nat
          /\ Due(t, a, given) = Share(t, Goods + a) - Share(t, Goods)
      BY <1>2
    <3> QED
      BY <3>1, <3>2, <3>3, SMT
  <2>2. given' \in [Tenders -> Int]
    BY <1>1, <2>1
  <2> QED
    BY <2>1, <2>2 DEF Tenders
<1>7. returned' \in [Lines -> Nat] /\ Goods' = Goods + a
      /\ \A l \in Lines : returned'[l] <= Quantity[l]
  <2>1. returned \in [Lines -> Nat]
    BY DEF ReturnsInv, Types
  <2>2. returned' = Plus(returned, units)
    BY <1>1 DEF Plus
  <2>3. Worth(Nothing, Plus(returned, units)) = Goods + a
    BY <1>2, <2>1, WorthAddsUp DEF Goods, a
  <2>4. returned' \in [Lines -> Nat]
    BY <1>1, <1>2, <2>1, SMT
  <2>5. \A l \in Lines : returned'[l] <= Quantity[l]
    BY <1>1 DEF Returnable
  <2> QED
    BY <2>2, <2>3, <2>4, <2>5 DEF Goods
<1>8. Types'
  BY <1>1, <1>3, <1>5, <1>6, <1>7 DEF ReturnsInv, Types, SamePayment
<1>9. RowsInv'
  <2> SUFFICES ASSUME NEW m \in Keys PROVE RowInv(m)'
    BY DEF RowsInv
  <2>1. CASE m = k
    BY <1>1, <1>2, <1>3, <1>4, <2>1 DEF RowInv
  <2>2. CASE m # k
    BY <1>1, <1>3, <2>2 DEF RowInv, ReturnsInv, RowsInv
  <2> QED
    BY <2>1, <2>2
<1>10. CallsInv'
  BY <1>1 DEF ReturnsInv, CallsInv, CallInv
<1>11. Waiting' = {}
  BY <1>2, <1>3 DEF Waiting
<1>12. OneWaits'
  BY <1>11 DEF OneWaits
<1>13. Refunds(ret', Completed') = Refunds(ret, Completed)
       /\ Refunds(ret', Booked') = Refunds(ret, Booked)
  <2>1. /\ Completed' = Completed \cup {k} /\ k \notin Completed /\ Booked' = Booked
        /\ k \notin Booked /\ Completed \in SUBSET Keys /\ Booked \in SUBSET Keys
    BY <1>1, <1>2, <1>3 DEF Completed, Booked
  <2>2. ret \in [Keys -> Rows] /\ Completed' \in SUBSET Keys
    BY <2>1 DEF ReturnsInv, Types
  <2>3. /\ \A m \in Completed' : (m \in Completed /\ ret'[m].paypal = ret[m].paypal) \/ ret'[m].paypal = 0
        /\ \A m \in Completed : (m \in Completed' /\ ret'[m].paypal = ret[m].paypal) \/ ret[m].paypal = 0
        /\ \A m \in Booked : m \in Booked /\ ret'[m].paypal = ret[m].paypal
    BY <1>3, <2>1
  <2>4. Refunds(ret', Completed') = Refunds(ret, Completed)
    BY <1>3, <2>1, <2>2, <2>3, RefundsSame
  <2>5. Refunds(ret', Booked) = Refunds(ret, Booked)
    BY <1>3, <2>1, <2>2, <2>3, RefundsSame
  <2> QED
    BY <2>1, <2>4, <2>5
<1>14. ExternalInv'
  <2>1. /\ Refunds(ret, Completed) \in Nat /\ Refunds(ret, Booked) \in Nat
        /\ Refunds(ret, Completed) <= Share("external", Goods)
        /\ given["external"] + Refunds(ret, Completed) = Share("external", Goods) + Refunds(ret, Booked)
    BY Numbers DEF ReturnsInv, ExternalInv
  <2>2. /\ Share("external", Goods) \in Nat /\ Share("external", Goods + a) \in Nat
        /\ Share("external", Goods) <= Share("external", Goods + a)
    BY <1>2 DEF Tenders
  <2>3. Goods' <= Total
    BY <1>2, <1>7, SMT
  <2>4. Refunds(ret', Completed') <= Share("external", Goods')
    BY <1>7, <1>13, <2>1, <2>2, SMT
  <2>5. given'["external"] + Refunds(ret', Completed') = Share("external", Goods') + Refunds(ret', Booked')
    <3>1. given["external"] = Share("external", Goods)
      BY <1>2
    <3>2. Refunds(ret, Completed) = Refunds(ret, Booked)
      BY <2>1, <2>2, <3>1, SMT
    <3>3. given'["external"] = Share("external", Goods')
      BY <1>6, <1>7
    <3> QED
      BY <1>13, <3>2, <3>3
  <2> QED
    BY <1>5, <1>7, <2>3, <2>4, <2>5, ExternalNext
<1>15. WaitingInv'
  BY <1>5, <1>6, <1>7, <1>11, WaitingNext
<1> QED
  BY <1>8, <1>9, <1>10, <1>12, <1>14, <1>15 DEF ReturnsInv

\* A return for a closed shift is refused with its row and the credit's part committed;
\* it then stands in the way of others.
LEMMA RefuseStep ==
    ASSUME ReturnsInv, NEW k \in Keys, NEW units \in Requests, Refuse(k, units)
    PROVE  ReturnsInv'
<1> DEFINE a == Worth(returned, units)
<1>1. /\ Returnable(k, units) /\ UNCHANGED <<order, returned, refund, made, calls>>
      /\ Row(k, units, "pending", "cash", 0)
      /\ given' = [given EXCEPT !["credit"] = @ + Due("credit", a, given)]
  BY DEF Refuse
<1>2. /\ units \in [Lines -> Nat] /\ a \in Nat /\ Goods + a \in 0..Total
      /\ given["credit"] = Share("credit", Goods) /\ given["external"] = Share("external", Goods)
      /\ Share("credit", Goods) \in Nat /\ Share("credit", Goods + a) \in Nat
      /\ Due("credit", a, given) = Share("credit", Goods + a) - Share("credit", Goods)
      /\ ret[k].status = "none" /\ refund[k] = "none" /\ Waiting = {}
  BY <1>1, NewReturn DEF Tenders
<1>3. /\ ret' \in [Keys -> Rows] /\ ret'[k].status = "pending" /\ ret'[k].tender = "cash"
      /\ ret'[k].paypal = 0 /\ ret'[k].value = a /\ ret'[k].units = units
      /\ \A m \in Keys \ {k} : ret'[m] = ret[m]
  <2>1. 0 \in Nat
    BY SMT
  <2> QED
    BY <1>1, <1>2, <2>1, NewRow, Zenon
<1> HIDE DEF a
<1>5. SamePayment
  BY <1>1 DEF SamePayment, ReturnsInv, Types
<1>6. /\ given'["credit"] = Share("credit", Goods + a)
      /\ given'["external"] = given["external"]
      /\ given' \in [Tenders -> Int]
  <2>1. given \in [Tenders -> Int]
    BY DEF ReturnsInv, Types
  <2>2. given["credit"] + Due("credit", a, given) = Share("credit", Goods + a)
    BY <1>2, SMT
  <2> QED
    BY <1>1, <1>2, <2>1, <2>2, SMT DEF Tenders
<1>7. Goods' = Goods /\ Waiting' = {k} /\ Completed' = Completed /\ Booked' = Booked
      /\ k \notin Completed /\ k \notin Booked
  BY <1>1, <1>2, <1>3 DEF Goods, Waiting, Completed, Booked
<1>8. Types'
  BY <1>1, <1>3, <1>6 DEF ReturnsInv, Types
<1>9. RowsInv'
  <2> SUFFICES ASSUME NEW m \in Keys PROVE RowInv(m)'
    BY DEF RowsInv
  <2>1. CASE m = k
    BY <1>1, <1>2, <1>3, <2>1 DEF RowInv
  <2>2. CASE m # k
    BY <1>1, <1>3, <2>2 DEF RowInv, ReturnsInv, RowsInv
  <2> QED
    BY <2>1, <2>2
<1>10. CallsInv'
  BY <1>1 DEF ReturnsInv, CallsInv, CallInv
<1>12. OneWaits'
  BY <1>7 DEF OneWaits
<1>13. Refunds(ret', Completed') = Refunds(ret, Completed)
       /\ Refunds(ret', Booked') = Refunds(ret, Booked)
  <2>1. ret \in [Keys -> Rows] /\ Completed \in SUBSET Keys /\ Booked \in SUBSET Keys
    BY DEF ReturnsInv, Types, Completed, Booked
  <2>2. /\ \A m \in Completed : m \in Completed /\ ret'[m].paypal = ret[m].paypal
        /\ \A m \in Booked : m \in Booked /\ ret'[m].paypal = ret[m].paypal
    BY <1>3, <1>7, <2>1
  <2> QED
    BY <1>3, <1>7, <2>1, <2>2, RefundsSame
<1>14. ExternalInv'
  BY <1>1, <1>5, <1>6, <1>7, <1>13, ExternalNext DEF ReturnsInv, ExternalInv
<1>15. PendingNext(k)
  BY <1>1, <1>2, <1>3, <1>6, <1>7, SMT DEF PendingNext, Returnable, a
<1>16. WaitingInv'
  BY <1>5, <1>7, <1>15, WaitingNext
<1> QED
  BY <1>8, <1>9, <1>10, <1>12, <1>14, <1>16 DEF ReturnsInv

\* What a request or webhook at work is, and what becomes of it.
LEMMA CallTypes ==
    ASSUME Types
    PROVE  /\ \A c \in Callers : calls[c].at # "idle" =>
                /\ calls[c].key \in Keys /\ calls[c].at \in Steps
                /\ calls[c].seen \in {"none"} \cup Outcomes /\ calls[c] \in Calls
           /\ \A c \in Callers, k \in Keys, at \in Steps, seen \in {"none"} \cup Outcomes :
                Call(c, k, at, seen) =>
                  /\ calls' \in [Callers -> Calls \cup {Idle}]
                  /\ calls'[c].at = at /\ calls'[c].key = k /\ calls'[c].seen = seen
                  /\ \A d \in Callers \ {c} : calls'[d] = calls[d]
           /\ \A c \in Callers : Ends(c) =>
                  /\ calls' \in [Callers -> Calls \cup {Idle}] /\ calls'[c].at = "idle"
                  /\ \A d \in Callers \ {c} : calls'[d] = calls[d]
           /\ \A c \in Callers, at \in Steps : Goto(c, at) /\ calls[c].at # "idle" =>
                  /\ calls' \in [Callers -> Calls \cup {Idle}]
                  /\ calls'[c].at = at /\ calls'[c].key = calls[c].key
                  /\ calls'[c].seen = calls[c].seen
                  /\ \A d \in Callers \ {c} : calls'[d] = calls[d]
<1>1. calls \in [Callers -> Calls \cup {Idle}]
  BY DEF Types
<1>2. ASSUME NEW c \in Callers, calls[c].at # "idle"
      PROVE  /\ calls[c].key \in Keys /\ calls[c].at \in Steps
             /\ calls[c].seen \in {"none"} \cup Outcomes /\ calls[c] \in Calls
  <2>1. calls[c] \in Calls
    BY <1>1, <1>2 DEF Idle
  <2> QED
    BY <2>1 DEF Calls
<1>3. ASSUME NEW c \in Callers, NEW k \in Keys, NEW at \in Steps,
             NEW seen \in {"none"} \cup Outcomes, Call(c, k, at, seen)
      PROVE  /\ calls' \in [Callers -> Calls \cup {Idle}]
             /\ calls'[c].at = at /\ calls'[c].key = k /\ calls'[c].seen = seen
             /\ \A d \in Callers \ {c} : calls'[d] = calls[d]
  <2> DEFINE call == [key |-> k, at |-> at, seen |-> seen]
  <2>1. call \in Calls /\ call.at = at /\ call.key = k /\ call.seen = seen
    BY DEF Calls
  <2>2. calls' = [calls EXCEPT ![c] = call]
    BY <1>3 DEF Call
  <2> HIDE DEF call
  <2> QED
    BY <1>1, <2>1, <2>2
<1>4. ASSUME NEW c \in Callers, Ends(c)
      PROVE  /\ calls' \in [Callers -> Calls \cup {Idle}] /\ calls'[c].at = "idle"
             /\ \A d \in Callers \ {c} : calls'[d] = calls[d]
  BY <1>1, <1>4 DEF Ends, Idle
<1>5. ASSUME NEW c \in Callers, NEW at \in Steps, Goto(c, at), calls[c].at # "idle"
      PROVE  /\ calls' \in [Callers -> Calls \cup {Idle}]
             /\ calls'[c].at = at /\ calls'[c].key = calls[c].key
             /\ calls'[c].seen = calls[c].seen
             /\ \A d \in Callers \ {c} : calls'[d] = calls[d]
  <2>1. calls[c] \in Calls
    BY <1>2, <1>5
  <2>2. [calls[c] EXCEPT !.at = at] \in Calls
    BY <2>1 DEF Calls
  <2>3. calls' = [calls EXCEPT ![c] = [calls[c] EXCEPT !.at = at]]
    BY <1>5 DEF Goto
  <2>4. /\ [calls[c] EXCEPT !.at = at].at = at /\ [calls[c] EXCEPT !.at = at].key = calls[c].key
        /\ [calls[c] EXCEPT !.at = at].seen = calls[c].seen
    BY <2>1 DEF Calls
  <2> QED
    BY <1>1, <2>2, <2>3, <2>4
<1> QED
  BY <1>2, <1>3, <1>4, <1>5

\* A return with a part for PayPal commits that part and asks later.
LEMMA BeginStep ==
    ASSUME ReturnsInv, NEW c \in Callers, NEW k \in Keys, NEW units \in Requests,
           Begin(c, k, units)
    PROVE  ReturnsInv'
<1> DEFINE a == Worth(returned, units)
           part == Due("external", a, given)
<1>1. /\ calls[c].at = "idle" /\ Returnable(k, units) /\ ByPayPal(a)
      /\ Row(k, units, "pending", "paypal", part)
      /\ refund' = [refund EXCEPT ![k] = "requested"] /\ Call(c, k, "prepare", "none")
      /\ UNCHANGED <<order, returned, given, made>>
  BY DEF Begin
<1>2. /\ units \in [Lines -> Nat] /\ a \in Nat /\ Goods + a \in 0..Total
      /\ given["credit"] = Share("credit", Goods)
      /\ Share("external", Goods) \in Nat /\ Share("external", Goods + a) \in Nat
      /\ Share("external", Goods) <= Share("external", Goods + a)
      /\ part = Share("external", Goods + a) - Share("external", Goods)
      /\ ret[k].status = "none" /\ refund[k] = "none" /\ Waiting = {}
  BY <1>1, NewReturn DEF Tenders
<1>3. part \in Nat
  <2> HIDE DEF part
  <2> QED
    BY <1>2, SMT
<1> HIDE DEF part
<1>4. /\ ret' \in [Keys -> Rows] /\ ret'[k].status = "pending" /\ ret'[k].tender = "paypal"
      /\ ret'[k].paypal = part /\ ret'[k].value = a /\ ret'[k].units = units
      /\ \A m \in Keys \ {k} : ret'[m] = ret[m]
  BY <1>1, <1>2, <1>3, NewRow, Zenon
<1> HIDE DEF a
<1>5. SamePayment
  BY <1>1 DEF SamePayment, ReturnsInv, Types
<1>6. /\ calls' \in [Callers -> Calls \cup {Idle}]
      /\ calls'[c].at = "prepare" /\ calls'[c].key = k /\ calls'[c].seen = "none"
      /\ \A d \in Callers \ {c} : calls'[d] = calls[d]
  <2>1. "prepare" \in Steps /\ "none" \in {"none"} \cup Outcomes /\ Types
    BY DEF Steps, ReturnsInv
  <2> QED
    BY <1>1, <2>1, CallTypes, Zenon
<1>7. /\ refund' \in [Keys -> RefundStates] /\ refund'[k] = "requested"
      /\ \A m \in Keys \ {k} : refund'[m] = refund[m]
  BY <1>1 DEF ReturnsInv, Types, RefundStates
<1>8. Goods' = Goods /\ Waiting' = {k} /\ Completed' = Completed /\ Booked' = Booked
      /\ k \notin Completed /\ k \notin Booked
  BY <1>1, <1>2, <1>4, <1>7 DEF Goods, Waiting, Completed, Booked
<1>9. Types'
  BY <1>1, <1>4, <1>6, <1>7 DEF ReturnsInv, Types
<1>10. RowsInv'
  <2> SUFFICES ASSUME NEW m \in Keys PROVE RowInv(m)'
    BY DEF RowsInv
  <2>1. CASE m = k
    BY <1>1, <1>2, <1>4, <1>7, <2>1 DEF RowInv
  <2>2. CASE m # k
    BY <1>1, <1>4, <1>7, <2>2 DEF RowInv, ReturnsInv, RowsInv
  <2> QED
    BY <2>1, <2>2
<1>11. CallsInv'
  <2> SUFFICES ASSUME NEW d \in Callers PROVE CallInv(d)'
    BY DEF CallsInv
  <2>1. CASE d = c
    BY <1>6, <1>7, <2>1 DEF CallInv
  <2>2. CASE d # c
    <3>1. calls[d].at # "idle" => calls[d].key \in Keys
      BY CallTypes DEF ReturnsInv
    <3> QED
      BY <1>1, <1>6, <1>7, <2>2, <3>1 DEF CallInv, ReturnsInv, CallsInv
  <2> QED
    BY <2>1, <2>2
<1>12. OneWaits'
  BY <1>8 DEF OneWaits
<1>13. Refunds(ret', Completed') = Refunds(ret, Completed)
       /\ Refunds(ret', Booked') = Refunds(ret, Booked)
  <2>1. ret \in [Keys -> Rows] /\ Completed \in SUBSET Keys /\ Booked \in SUBSET Keys
    BY DEF ReturnsInv, Types, Completed, Booked
  <2>2. /\ \A m \in Completed : m \in Completed /\ ret'[m].paypal = ret[m].paypal
        /\ \A m \in Booked : m \in Booked /\ ret'[m].paypal = ret[m].paypal
    BY <1>4, <1>8, <2>1
  <2> QED
    BY <1>4, <1>8, <2>1, <2>2, RefundsSame
<1>14. ExternalInv'
  BY <1>1, <1>5, <1>8, <1>13, ExternalNext DEF ReturnsInv, ExternalInv
<1>15. PendingNext(k)
  <2>1. Share("external", Goods + a) = Share("external", Goods) + part
    BY <1>2, <1>3, SMT
  <2> QED
    BY <1>1, <1>2, <1>4, <1>8, <2>1, SMT DEF PendingNext, Returnable, a
<1>16. WaitingInv'
  BY <1>5, <1>8, <1>15, WaitingNext
<1> QED
  BY <1>9, <1>10, <1>11, <1>12, <1>14, <1>16 DEF ReturnsInv

\* PayPal does not take back what it has decided, and no refund's row disappears.
Decided == {"provider_succeeded", "failed"}
Forward == /\ \A k \in Keys : made[k] \in Decided => made'[k] = made[k]
           /\ \A k \in Keys : refund[k] # "none" => refund'[k] # "none"

LEMMA OthersKeep ==
    ASSUME ReturnsInv, Forward, NEW d \in Callers, calls'[d] = calls[d]
    PROVE  CallInv(d)'
<1>1. CallInv(d) /\ (calls[d].at # "idle" => calls[d].key \in Keys)
  BY CallTypes DEF ReturnsInv, CallsInv
<1>2. ASSUME calls[d].at # "idle"
      PROVE  /\ refund'[calls[d].key] # "none"
             /\ calls[d].seen \in Decided => made'[calls[d].key] = calls[d].seen
             /\ calls[d].at \in {"record", "told"} => calls[d].seen # "none"
             /\ calls[d].at \in {"finalize", "complete"} =>
                  made'[calls[d].key] = "provider_succeeded"
  BY <1>1, <1>2 DEF CallInv, Forward, Decided
<1> QED
  BY <1>2 DEF CallInv, Decided

\* The steps that only concern requests, webhooks and PayPal: no row and no money.
LEMMA TalkStep ==
    ASSUME ReturnsInv,
           \/ \E c \in Callers : \/ Prepare(c) \/ Ask(c) \/ Stop(c)
                                 \/ \E k \in Keys : Resume(c, k) \/ HookReads(c, k)
           \/ \E k \in Keys : Settle(k)
           \/ CloseShift
    PROVE  ReturnsInv'
<1>1. ASSUME UNCHANGED <<order, ret, returned, given, refund>>,
             made' \in [Keys -> {"none"} \cup Outcomes], Forward,
             calls' \in [Callers -> Calls \cup {Idle}], CallsInv'
      PROVE  ReturnsInv'
  <2>1. SamePayment /\ Types'
    BY <1>1 DEF SamePayment, ReturnsInv, Types
  <2>2. RowsInv'
    BY <1>1 DEF RowsInv, RowInv, ReturnsInv, Forward, Decided
  <2>3. OneWaits' /\ ExternalInv' /\ WaitingInv'
    BY <1>1, <2>1, MoneyKept
  <2> QED
    BY <1>1, <2>1, <2>2, <2>3 DEF ReturnsInv
<1>2. Types /\ made \in [Keys -> {"none"} \cup Outcomes]
  BY DEF ReturnsInv, Types
<1>3. ASSUME NEW c \in Callers, Prepare(c) PROVE ReturnsInv'
  <2> DEFINE k == calls[c].key
             to == CASE refund[k] = "locally_finalized" -> "complete"
                     [] refund[k] = "provider_succeeded" -> "finalize"
                     [] OTHER -> "ask"
  <2>1. calls[c].at = "prepare" /\ UNCHANGED <<order, ret, returned, given, refund, made>>
    BY <1>3 DEF Prepare
  <2>2. k \in Keys /\ RowInv(k) /\ CallInv(c)
    BY <1>2, <2>1, CallTypes DEF ReturnsInv, RowsInv, CallsInv
  <2>3. to \in Steps /\ (to \in {"finalize", "complete"} => made[k] = "provider_succeeded")
        /\ to \notin {"record", "told"}
    BY <2>2 DEF Steps, RowInv
  <2>4. Goto(c, to)
    BY <1>3 DEF Prepare
  <2> HIDE DEF to
  <2>5. /\ calls' \in [Callers -> Calls \cup {Idle}]
        /\ calls'[c].at = to /\ calls'[c].key = k /\ calls'[c].seen = calls[c].seen
        /\ \A d \in Callers \ {c} : calls'[d] = calls[d]
    BY <1>2, <2>1, <2>3, <2>4, CallTypes, Zenon
  <2>6. Forward
    BY <2>1 DEF Forward
  <2>7. CallInv(c)'
    BY <2>1, <2>2, <2>3, <2>5 DEF CallInv
  <2>8. CallsInv'
    BY <2>5, <2>6, <2>7, OthersKeep DEF CallsInv
  <2> QED
    BY <1>1, <1>2, <2>1, <2>5, <2>6, <2>8
<1>4. ASSUME NEW c \in Callers, Ask(c) PROVE ReturnsInv'
  <2> DEFINE k == calls[c].key
  <2>1. calls[c].at = "ask" /\ UNCHANGED <<order, ret, returned, given, refund>>
    BY <1>4 DEF Ask
  <2>2. k \in Keys /\ CallInv(c)
    BY <1>2, <2>1, CallTypes DEF ReturnsInv, CallsInv
  <2>3. PICK o \in Outcomes : /\ made[k] \in {"none", o} /\ made' = [made EXCEPT ![k] = o]
                              /\ \E at \in {"record", "lost"} : Call(c, k, at, o)
    BY <1>4 DEF Ask
  <2>4. PICK at \in {"record", "lost"} : Call(c, k, at, o)
    BY <2>3
  <2>5. at \in Steps /\ o \in {"none"} \cup Outcomes /\ o # "none"
    BY DEF Steps, Outcomes
  <2> HIDE DEF k
  <2>6. /\ calls' \in [Callers -> Calls \cup {Idle}]
        /\ calls'[c].at = at /\ calls'[c].key = k /\ calls'[c].seen = o
        /\ \A d \in Callers \ {c} : calls'[d] = calls[d]
    BY <1>2, <2>2, <2>4, <2>5, CallTypes, Zenon
  <2>7. Forward /\ made' \in [Keys -> {"none"} \cup Outcomes] /\ made'[k] = o
    BY <1>2, <2>1, <2>2, <2>3 DEF Forward, Decided
  <2>8. CallInv(c)'
    BY <2>1, <2>2, <2>5, <2>6, <2>7 DEF CallInv, k
  <2>9. CallsInv'
    BY <2>6, <2>7, <2>8, OthersKeep DEF CallsInv
  <2> QED
    BY <1>1, <2>1, <2>6, <2>7, <2>9
<1>5. ASSUME NEW c \in Callers, Stop(c) PROVE ReturnsInv'
  <2>1. Ends(c) /\ UNCHANGED <<order, ret, returned, given, refund, made>>
    BY <1>5 DEF Stop
  <2>2. /\ calls' \in [Callers -> Calls \cup {Idle}] /\ calls'[c].at = "idle"
        /\ \A d \in Callers \ {c} : calls'[d] = calls[d]
    BY <1>2, <2>1, CallTypes
  <2>3. Forward
    BY <2>1 DEF Forward
  <2>4. CallsInv'
    BY <2>2, <2>3, OthersKeep DEF CallsInv, CallInv
  <2> QED
    BY <1>1, <1>2, <2>1, <2>2, <2>3, <2>4
<1>6. ASSUME NEW c \in Callers, NEW k \in Keys, Resume(c, k) \/ HookReads(c, k)
      PROVE  ReturnsInv'
  <2>1. UNCHANGED <<order, ret, returned, given, refund, made>> /\ refund[k] # "none"
    BY <1>6 DEF Resume, HookReads, ReturnsInv, RowsInv, RowInv
  <2>2. \/ Call(c, k, "prepare", "none")
        \/ Call(c, k, "told", made[k]) /\ made[k] \in Outcomes /\ made[k] # "none"
    BY <1>2, <1>6 DEF Resume, HookReads
  <2>3. PICK at \in {"prepare", "told"}, seen \in {"none"} \cup Outcomes :
          /\ Call(c, k, at, seen) /\ (seen \in Decided => made[k] = seen)
          /\ (at = "told" => seen # "none")
    <3>1. CASE Call(c, k, "prepare", "none")
      BY <3>1 DEF Decided
    <3>2. CASE Call(c, k, "told", made[k]) /\ made[k] \in Outcomes /\ made[k] # "none"
      BY <3>2
    <3> QED
      BY <2>2, <3>1, <3>2
  <2>4. at \in Steps
    BY DEF Steps
  <2>5. /\ calls' \in [Callers -> Calls \cup {Idle}]
        /\ calls'[c].at = at /\ calls'[c].key = k /\ calls'[c].seen = seen
        /\ \A d \in Callers \ {c} : calls'[d] = calls[d]
    BY <1>2, <2>3, <2>4, CallTypes, Zenon
  <2>6. Forward
    BY <2>1 DEF Forward
  <2>7. CallInv(c)'
    BY <2>1, <2>3, <2>5 DEF CallInv, Decided
  <2>8. CallsInv'
    BY <2>5, <2>6, <2>7, OthersKeep DEF CallsInv
  <2> QED
    BY <1>1, <1>2, <2>1, <2>5, <2>6, <2>8
<1>7. ASSUME NEW k \in Keys, Settle(k) PROVE ReturnsInv'
  <2>1. /\ made[k] = "pending" /\ UNCHANGED <<order, ret, returned, given, refund, calls>>
        /\ \E o \in {"provider_succeeded", "failed"} : made' = [made EXCEPT ![k] = o]
    BY <1>7 DEF Settle
  <2>2. Forward /\ made' \in [Keys -> {"none"} \cup Outcomes]
    BY <1>2, <2>1 DEF Forward, Decided, Outcomes
  <2>3. calls' \in [Callers -> Calls \cup {Idle}]
    BY <1>2, <2>1 DEF Types
  <2>4. CallsInv'
    BY <2>1, <2>2, OthersKeep DEF CallsInv
  <2> QED
    BY <1>1, <2>1, <2>2, <2>3, <2>4
<1>8. ASSUME CloseShift PROVE ReturnsInv'
  <2>1. /\ UNCHANGED <<ret, returned, given, refund, made, calls>>
        /\ order' = [order EXCEPT !.shift = FALSE]
    BY <1>8 DEF CloseShift
  <2>2. SamePayment /\ Types'
    BY <2>1 DEF SamePayment, ReturnsInv, Types, Orders
  <2>3. RowsInv' /\ CallsInv'
    BY <2>1 DEF ReturnsInv, RowsInv, RowInv, CallsInv, CallInv
  <2>4. OneWaits' /\ ExternalInv' /\ WaitingInv'
    BY <2>1, <2>2, MoneyKept
  <2> QED
    BY <2>2, <2>3, <2>4 DEF ReturnsInv
<1> QED
  BY <1>3, <1>4, <1>5, <1>6, <1>7, <1>8

\* Writing a refund's row by its id, at any time, moves money between what is booked and
\* what is not, and nothing else.
LEMMA WriteStep ==
    ASSUME ReturnsInv, NEW c \in Callers,
           Record(c) \/ Lost(c) \/ HookWrites(c)
    PROVE  ReturnsInv'
<1> DEFINE k == calls[c].key
<1>1. UNCHANGED <<order, ret, returned, made>> /\ calls[c].at \in {"record", "lost", "told"}
  BY DEF Record, Lost, HookWrites
<1>2. k \in Keys /\ RowInv(k) /\ CallInv(c) /\ Types
      /\ calls[c].seen \in {"none"} \cup Outcomes
  BY <1>1, CallTypes DEF ReturnsInv, RowsInv, CallsInv
<1>3. PICK state \in Outcomes \cup {"reconciliation_required"} :
        Write(k, state) /\ (state \in Decided => made[k] = state)
  <2>1. CASE Record(c) \/ HookWrites(c)
    <3>1. Write(k, calls[c].seen) /\ calls[c].seen \in Outcomes
      BY <1>1, <1>2, <2>1 DEF Record, HookWrites, CallInv
    <3>2. calls[c].seen \in Decided => made[k] = calls[c].seen
      BY <1>1, <1>2 DEF CallInv, Decided
    <3> QED
      BY <3>1, <3>2
  <2>2. CASE Lost(c)
    <3>1. Write(k, "reconciliation_required")
      BY <2>2 DEF Lost
    <3> QED
      BY <3>1 DEF Decided
  <2> QED
    BY <2>1, <2>2
<1>4. /\ calls' \in [Callers -> Calls \cup {Idle}]
      /\ \A d \in Callers \ {c} : calls'[d] = calls[d]
      /\ \/ calls'[c].at = "idle"
         \/ /\ calls'[c].at = "finalize" /\ calls'[c].key = k
            /\ calls'[c].seen = calls[c].seen /\ calls[c].seen = "provider_succeeded"
  <2>1. Ends(c) \/ (Goto(c, "finalize") /\ calls[c].seen = "provider_succeeded")
    BY DEF Record, Lost, HookWrites
  <2>2. "finalize" \in Steps /\ calls[c].at # "idle"
    BY <1>1 DEF Steps
  <2>3. CASE Ends(c)
    BY <1>2, <2>3, CallTypes, Zenon
  <2>4. CASE Goto(c, "finalize") /\ calls[c].seen = "provider_succeeded"
    BY <1>2, <2>2, <2>4, CallTypes, Zenon
  <2> QED
    BY <2>1, <2>3, <2>4
<1>5. /\ refund' \in [Keys -> RefundStates] /\ refund'[k] = state
      /\ \A m \in Keys \ {k} : refund'[m] = refund[m]
      /\ state # "none" /\ state # "locally_finalized" /\ refund[k] # "none"
  BY <1>1, <1>2, <1>3 DEF Write, Types, RefundStates, Outcomes, CallInv
<1>6. Forward
  BY <1>1, <1>5 DEF Forward
<1>7. CallsInv'
  <2>1. CallInv(c)'
    BY <1>1, <1>2, <1>4, <1>5 DEF CallInv
  <2> QED
    BY <1>4, <1>6, <2>1, OthersKeep DEF CallsInv
<1>8. RowsInv'
  <2> SUFFICES ASSUME NEW m \in Keys PROVE RowInv(m)'
    BY DEF RowsInv
  <2>1. CASE m = k
    BY <1>1, <1>2, <1>3, <1>5, <2>1 DEF RowInv, Decided
  <2>2. CASE m # k
    BY <1>1, <1>5, <2>2 DEF RowInv, ReturnsInv, RowsInv
  <2> QED
    BY <2>1, <2>2
<1>9. Goods' = Goods /\ Waiting' = Waiting /\ Completed' = Completed /\ Booked' = Booked \ {k}
      /\ Booked \in SUBSET Keys /\ Completed \in SUBSET Keys
  BY <1>1, <1>5 DEF Goods, Waiting, Completed, Booked
<1>10. /\ given' \in [Tenders -> Int] /\ given'["credit"] = given["credit"]
       /\ given'["external"] = IF k \in Booked THEN given["external"] - ret[k].paypal
                               ELSE given["external"]
  <2>1. given \in [Tenders -> Int] /\ ret[k].paypal \in Int
    BY <1>2, Numbers, SMT DEF ReturnsInv, Types
  <2>2. k \in Booked <=> refund[k] = "locally_finalized"
    BY <1>2 DEF Booked
  <2> QED
    BY <1>3, <2>1, <2>2, SMT DEF Write, Tenders
<1>11. Refunds(ret', Completed') = Refunds(ret, Completed)
       /\ Refunds(ret, Booked)
            = Refunds(ret', Booked') + IF k \in Booked THEN ret[k].paypal ELSE 0
  <2>1. ret \in [Keys -> Rows] /\ Booked \ {k} \in SUBSET Keys
    BY <1>9 DEF ReturnsInv, Types
  <2>2. CASE k \in Booked
    <3>1. Booked = (Booked \ {k}) \cup {k} /\ k \notin Booked \ {k}
      BY <2>2
    <3>2. Refunds(ret, (Booked \ {k}) \cup {k}) = Refunds(ret, Booked \ {k}) + ret[k].paypal
      BY <1>2, <2>1, <3>1, RefundsAdd
    <3> QED
      BY <1>1, <1>9, <2>2, <3>1, <3>2
  <2>3. CASE k \notin Booked
    <3>1. Booked \ {k} = Booked
      BY <2>3
    <3>2. Refunds(ret, Booked) \in Nat
      BY Numbers
    <3> QED
      BY <1>1, <1>9, <2>3, <3>1, <3>2, SMT
  <2> QED
    BY <2>2, <2>3
<1>12. SamePayment /\ Types'
  BY <1>1, <1>4, <1>5, <1>10 DEF SamePayment, ReturnsInv, Types
<1>13. ExternalInv'
  <2>1. /\ Refunds(ret, Completed) <= Share("external", Goods)
        /\ given["external"] + Refunds(ret, Completed) = Share("external", Goods) + Refunds(ret, Booked)
        /\ Goods <= Total /\ \A l \in Lines : returned[l] <= Quantity[l]
    BY DEF ReturnsInv, ExternalInv
  <2>2. Refunds(ret', Booked') \in Nat
    <3>1. ret' \in [Keys -> Rows] /\ Booked' \in SUBSET Keys
      BY <1>9, <1>12 DEF Types
    <3> QED
      BY <3>1, RefundsType
  <2>3. given["external"] \in Int /\ ret[k].paypal \in Nat /\ Share("external", Goods) \in Nat
        /\ Refunds(ret, Completed) \in Nat
    BY <1>2, Numbers
  <2> HIDE DEF k
  <2>4. given'["external"] + Refunds(ret', Completed') = Share("external", Goods') + Refunds(ret', Booked')
    BY <1>9, <1>10, <1>11, <2>1, <2>2, <2>3, SMT
  <2> QED
    BY <1>1, <1>9, <1>11, <1>12, <2>1, <2>4, ExternalNext
<1>14. OneWaits' /\ WaitingInv'
  <2>1. \A m \in Waiting' : PendingNext(m)
    BY <1>1, <1>9, <1>10 DEF ReturnsInv, WaitingInv, PendingInv, PendingNext
  <2>2. WaitingInv'
    BY <1>9, <1>10, <1>12, <2>1, WaitingNext DEF ReturnsInv, WaitingInv
  <2> QED
    BY <1>9, <2>2 DEF ReturnsInv, OneWaits
<1> QED
  BY <1>7, <1>8, <1>12, <1>13, <1>14 DEF ReturnsInv

\* Finalizing a refund books its amount, once.
LEMMA FinalizeStep ==
    ASSUME ReturnsInv, NEW c \in Callers, Finalize(c)
    PROVE  ReturnsInv'
<1> DEFINE k == calls[c].key
           sum == given["external"] + ret[k].paypal
<1>1. /\ calls[c].at = "finalize" /\ Goto(c, "complete") /\ UNCHANGED <<ret, returned, made>>
      /\ \/ refund[k] = "locally_finalized" /\ UNCHANGED <<order, given, refund>>
         \/ /\ refund[k] = "provider_succeeded"
            /\ refund' = [refund EXCEPT ![k] = "locally_finalized"]
            /\ given' = [given EXCEPT !["external"] = sum]
            /\ \/ order' = order
               \/ order' = [order EXCEPT !.payment = "refunded"]
               \/ order' = [order EXCEPT !.payment = "partially_refunded"]
  BY DEF Finalize
<1>2. k \in Keys /\ RowInv(k) /\ CallInv(c) /\ Types
  BY <1>1, CallTypes DEF ReturnsInv, RowsInv, CallsInv
<1>3. /\ calls' \in [Callers -> Calls \cup {Idle}]
      /\ calls'[c].at = "complete" /\ calls'[c].key = k /\ calls'[c].seen = calls[c].seen
      /\ \A d \in Callers \ {c} : calls'[d] = calls[d]
  <2>1. "complete" \in Steps /\ calls[c].at # "idle"
    BY <1>1 DEF Steps
  <2> QED
    BY <1>1, <1>2, <2>1, CallTypes, Zenon
<1> HIDE DEF k, sum
<1>4. SamePayment
  BY <1>1, <1>2 DEF SamePayment, Types, Orders
<1>5. /\ refund' \in [Keys -> RefundStates] /\ refund'[k] = "locally_finalized"
      /\ \A m \in Keys \ {k} : refund'[m] = refund[m]
      /\ refund[k] # "none" /\ made[k] = "provider_succeeded"
  BY <1>1, <1>2 DEF Types, RefundStates, RowInv
<1>6. Forward
  BY <1>1, <1>5 DEF Forward
<1>7. CallsInv'
  <2>1. CallInv(c)'
    BY <1>1, <1>2, <1>3, <1>5 DEF CallInv, k
  <2> QED
    BY <1>3, <1>6, <2>1, OthersKeep DEF CallsInv
<1>8. RowsInv'
  <2> SUFFICES ASSUME NEW m \in Keys PROVE RowInv(m)'
    BY DEF RowsInv
  <2>1. CASE m = k
    BY <1>1, <1>2, <1>5, <2>1 DEF RowInv
  <2>2. CASE m # k
    BY <1>1, <1>5, <2>2 DEF RowInv, ReturnsInv, RowsInv
  <2> QED
    BY <2>1, <2>2
<1>9. Goods' = Goods /\ Waiting' = Waiting /\ Completed' = Completed /\ Booked' = Booked \cup {k}
      /\ Booked \in SUBSET Keys /\ Completed \in SUBSET Keys
  BY <1>1, <1>2, <1>5 DEF Goods, Waiting, Completed, Booked
<1>10. /\ given' \in [Tenders -> Int] /\ given'["credit"] = given["credit"]
       /\ given'["external"] = IF k \in Booked THEN given["external"]
                               ELSE given["external"] + ret[k].paypal
  <2>1. given \in [Tenders -> Int] /\ ret[k].paypal \in Int
    BY <1>2, Numbers, SMT DEF ReturnsInv, Types
  <2>2. k \in Booked <=> refund[k] = "locally_finalized"
    BY <1>2 DEF Booked
  <2> QED
    BY <1>1, <2>1, <2>2, SMT DEF sum, Tenders
<1>11. Refunds(ret', Completed') = Refunds(ret, Completed)
       /\ Refunds(ret', Booked')
            = Refunds(ret, Booked) + IF k \in Booked THEN 0 ELSE ret[k].paypal
  <2>1. ret \in [Keys -> Rows] /\ Refunds(ret, Booked) \in Nat
    BY Numbers DEF ReturnsInv, Types
  <2>2. CASE k \notin Booked
    BY <1>1, <1>2, <1>9, <2>1, <2>2, RefundsAdd
  <2>3. CASE k \in Booked
    <3>1. Booked' = Booked
      BY <1>9, <2>3
    <3>2. Refunds(ret', Booked') = Refunds(ret, Booked) /\ Refunds(ret', Completed') = Refunds(ret, Completed)
      BY <1>1, <1>9, <3>1
    <3> HIDE DEF Booked
    <3> QED
      BY <2>1, <2>3, <3>2, SMT
  <2> QED
    BY <2>2, <2>3
<1>12. Types'
  BY <1>1, <1>2, <1>3, <1>4, <1>5, <1>10 DEF SamePayment, Types
<1>13. ExternalInv'
  <2>1. /\ Refunds(ret, Completed) <= Share("external", Goods)
        /\ given["external"] + Refunds(ret, Completed) = Share("external", Goods) + Refunds(ret, Booked)
        /\ Goods <= Total /\ \A l \in Lines : returned[l] <= Quantity[l]
    BY DEF ReturnsInv, ExternalInv
  <2>2. /\ given["external"] \in Int /\ ret[k].paypal \in Nat /\ Share("external", Goods) \in Nat
        /\ Refunds(ret, Completed) \in Nat /\ Refunds(ret, Booked) \in Nat
    BY <1>2, Numbers
  <2>3. given'["external"] + Refunds(ret', Completed') = Share("external", Goods') + Refunds(ret', Booked')
    BY <1>9, <1>10, <1>11, <2>1, <2>2, SMT
  <2> QED
    BY <1>1, <1>4, <1>9, <1>11, <2>1, <2>3, ExternalNext
<1>14. OneWaits' /\ WaitingInv'
  <2>1. \A m \in Waiting' : PendingNext(m)
    BY <1>1, <1>9, <1>10 DEF ReturnsInv, WaitingInv, PendingInv, PendingNext
  <2>2. WaitingInv'
    BY <1>4, <1>9, <1>10, <2>1, WaitingNext DEF ReturnsInv, WaitingInv
  <2> QED
    BY <1>9, <2>2 DEF ReturnsInv, OneWaits
<1> QED
  BY <1>7, <1>8, <1>12, <1>13, <1>14 DEF ReturnsInv

\* A return can only be completed with the credit's exact share, whatever refunds are
\* booked at that moment: if the amounts it compares are off, they are off on both
\* sides, or the return is not finishable.
LEMMA CompleteIsExact ==
    ASSUME ReturnsInv, NEW k \in Waiting, ret[k].tender = "paypal", Finishable(k)
    PROVE  given["credit"] + Due("credit", ret[k].value, Before(k))
             = Share("credit", Goods + ret[k].value)
<1> DEFINE v == ret[k].value
           p == ret[k].paypal
           e == given["external"]
           n == given["credit"] + (e - p) + v
<1>1. k \in Keys /\ PendingInv(k) /\ order \in Orders /\ given \in [Tenders -> Int]
  BY DEF Waiting, ReturnsInv, WaitingInv, Types
<1>2. /\ v \in Nat /\ p \in Nat /\ Goods \in 0..Total /\ Total \in Nat
      /\ e \in Int /\ given["credit"] \in Nat /\ Goods + v \in 0..Total
  <2>1. given["credit"] \in Nat
    BY GivenRange, SMT
  <2>2. Goods + v <= Total
    BY <1>1 DEF PendingInv
  <2>3. v \in Nat /\ p \in Nat /\ Goods \in 0..Total /\ Total \in Nat /\ e \in Int
    BY <1>1, Numbers
  <2> HIDE DEF v, p, e
  <2> QED
    BY <2>1, <2>2, <2>3, SMT
<1>3. /\ given["credit"] = Share("credit", Goods)
      /\ Share("external", Goods + v) = Share("external", Goods) + p
  BY <1>1 DEF PendingInv
<1>4. Before(k)["external"] = e - p /\ Before(k)["credit"] = given["credit"]
  BY <1>1 DEF Before, Tenders
<1>5. /\ e >= p /\ n <= Total
      /\ Share("external", n) - (e - p) = p
      /\ Due("credit", v, Before(k)) = Share("credit", n) - given["credit"]
  BY <1>4 DEF Finishable, Divisible, Due, Sum, Tenders
<1> HIDE DEF v, p, e, n
<1>6. n \in 0..Total
  BY <1>2, <1>5, SMT DEF n
<1>7. /\ Share("credit", n) \in Nat /\ Share("external", n) \in Nat
      /\ Share("credit", n) + Share("external", n) = n
      /\ Share("credit", Goods + v) \in Nat /\ Share("external", Goods + v) \in Nat
      /\ Share("credit", Goods + v) + Share("external", Goods + v) = Goods + v
      /\ Share("credit", Goods) \in Nat /\ Share("external", Goods) \in Nat
      /\ Share("credit", Goods) + Share("external", Goods) = Goods
  BY <1>1, <1>2, <1>6, ShareNumbers
<1>8. Share("external", n) = e
  BY <1>2, <1>5, <1>7, SMT
<1>9. Share("credit", n) = Share("credit", Goods + v)
  <2> DEFINE cn == Share("credit", n)
             cg == Share("credit", Goods)
             eg == Share("external", Goods)
             cv == Share("credit", Goods + v)
             ev == Share("external", Goods + v)
  <2>1. cn = n - e /\ n = cg + (e - p) + v
    <3>1. cn + e = n /\ cn \in Nat
      BY <1>7, <1>8
    <3> QED
      BY <1>2, <1>3, <3>1, SMT DEF n
  <2>2. cv = Goods + v - ev /\ ev = eg + p /\ eg = Goods - cg
        /\ cv \in Nat /\ ev \in Nat /\ eg \in Nat /\ cg \in Nat
    BY <1>2, <1>3, <1>7, SMT
  <2> HIDE DEF cn, cg, eg, cv, ev
  <2>3. cn = cv
    BY <1>2, <2>1, <2>2, SMT
  <2> QED
    BY <2>3 DEF cn, cv
<1> QED
  BY <1>2, <1>5, <1>7, <1>9, SMT DEF v

\* The last transaction of a return with a part for PayPal.
LEMMA CompleteStep ==
    ASSUME ReturnsInv, NEW c \in Callers, Complete(c)
    PROVE  ReturnsInv'
<1> DEFINE k == calls[c].key
           v == ret[k].value
           back == Due("credit", v, Before(k))
<1>1. /\ calls[c].at = "complete" /\ ret[k].status = "pending" /\ Finishable(k)
      /\ given' = [given EXCEPT !["credit"] = @ + back]
      /\ order' = [order EXCEPT !.payment = Status(Sum(given) + back)]
      /\ returned' = [l \in Lines |-> returned[l] + ret[k].units[l]]
      /\ ret' = [ret EXCEPT ![k].status = "completed"]
      /\ Ends(c) /\ UNCHANGED <<refund, made>>
  BY DEF Complete
<1>2. k \in Keys /\ RowInv(k) /\ CallInv(c) /\ Types /\ refund[k] # "none"
      /\ made[k] = "provider_succeeded"
  BY <1>1, CallTypes DEF ReturnsInv, RowsInv, CallsInv, CallInv
<1>3. k \in Waiting /\ ret[k].tender = "paypal" /\ PendingInv(k)
  BY <1>1, <1>2 DEF Waiting, RowInv, ReturnsInv, WaitingInv
<1>4. given["credit"] + back = Share("credit", Goods + v)
  BY <1>1, <1>3, CompleteIsExact
<1>5. /\ calls' \in [Callers -> Calls \cup {Idle}] /\ calls'[c].at = "idle"
      /\ \A d \in Callers \ {c} : calls'[d] = calls[d]
  BY <1>1, <1>2, CallTypes, Zenon
<1>6. /\ ret' \in [Keys -> Rows] /\ ret'[k].status = "completed" /\ ret'[k].tender = "paypal"
      /\ ret'[k].paypal = ret[k].paypal /\ \A m \in Keys \ {k} : ret'[m] = ret[m]
  <2> HIDE DEF k
  <2>1. [ret[k] EXCEPT !.status = "completed"] \in Rows
    BY <1>2 DEF Types, Rows
  <2>2. ret' = [ret EXCEPT ![k] = [ret[k] EXCEPT !.status = "completed"]]
    BY <1>1
  <2>3. [ret[k] EXCEPT !.status = "completed"].status = "completed"
        /\ [ret[k] EXCEPT !.status = "completed"].tender = ret[k].tender
        /\ [ret[k] EXCEPT !.status = "completed"].paypal = ret[k].paypal
    BY <1>2 DEF Types, Rows
  <2> QED
    BY <1>2, <1>3, <2>1, <2>2, <2>3 DEF Types
<1> HIDE DEF k, v, back
<1>7. SamePayment
  BY <1>1, <1>2 DEF SamePayment, Types, Orders, Status
<1>8. /\ Share("credit", Goods + v) \in Nat /\ Share("external", Goods + v) \in Nat
      /\ Share("external", Goods + v) = Share("external", Goods) + ret[k].paypal
      /\ Goods + v \in 0..Total /\ v = Worth(returned, ret[k].units)
      /\ ret[k].units \in [Lines -> Nat] /\ ret[k].paypal \in Nat
  <2>1. v \in Nat /\ ret[k].units \in [Lines -> Nat] /\ ret[k].paypal \in Nat
        /\ Goods \in 0..Total /\ Total \in Nat
    BY <1>2, Numbers DEF v
  <2>2. Goods + v <= Total /\ v = Worth(returned, ret[k].units)
        /\ Share("external", Goods + v) = Share("external", Goods) + ret[k].paypal
    BY <1>3 DEF PendingInv, v
  <2>3. Goods + v \in 0..Total
    BY <2>1, <2>2, SMT
  <2>4. Share("credit", Goods + v) \in Nat /\ Share("external", Goods + v) \in Nat
    BY <1>2, <2>3, ShareNumbers DEF Types
  <2> QED
    BY <2>1, <2>2, <2>3, <2>4
<1>9. returned' \in [Lines -> Nat] /\ Goods' = Goods + v
      /\ \A l \in Lines : returned'[l] <= Quantity[l]
  <2>1. returned \in [Lines -> Nat]
    BY <1>2 DEF Types
  <2>2. returned' = Plus(returned, ret[k].units)
    BY <1>1 DEF Plus
  <2>3. Worth(Nothing, Plus(returned, ret[k].units)) = Goods + v
    BY <1>8, <2>1, WorthAddsUp DEF Goods
  <2>4. returned' \in [Lines -> Nat]
    BY <1>1, <1>8, <2>1, SMT
  <2>5. \A l \in Lines : returned'[l] <= Quantity[l]
    BY <1>1, <1>3 DEF PendingInv
  <2> QED
    BY <2>2, <2>3, <2>4, <2>5 DEF Goods
<1>10. /\ given' \in [Tenders -> Int] /\ given'["credit"] = Share("credit", Goods')
       /\ given'["external"] = given["external"]
  <2>1. given \in [Tenders -> Int]
    BY <1>2 DEF Types
  <2> QED
    BY <1>1, <1>4, <1>8, <1>9, <2>1, SMT DEF Tenders
<1>11. Types'
  BY <1>1, <1>2, <1>5, <1>6, <1>7, <1>9, <1>10 DEF Types, SamePayment
<1>12. RowsInv'
  <2> SUFFICES ASSUME NEW m \in Keys PROVE RowInv(m)'
    BY DEF RowsInv
  <2>1. CASE m = k
    BY <1>1, <1>2, <1>6, <2>1 DEF RowInv
  <2>2. CASE m # k
    BY <1>1, <1>6, <2>2 DEF RowInv, ReturnsInv, RowsInv
  <2> QED
    BY <2>1, <2>2
<1>13. CallsInv'
  <2>1. Forward
    BY <1>1 DEF Forward
  <2>2. CallInv(c)'
    BY <1>5 DEF CallInv
  <2> QED
    BY <1>5, <2>1, <2>2, OthersKeep DEF CallsInv
<1>14. Waiting' = {} /\ Booked' = Booked /\ Completed' = Completed \cup {k}
       /\ k \notin Completed /\ Completed \in SUBSET Keys /\ Booked \in SUBSET Keys
       /\ Completed' \in SUBSET Keys
  <2>1. \A m \in Keys : ret[m].status = "pending" => m = k
    BY <1>3 DEF ReturnsInv, OneWaits, Waiting
  <2> QED
    BY <1>1, <1>2, <1>6, <2>1 DEF Waiting, Booked, Completed
<1>15. Refunds(ret', Completed') = Refunds(ret, Completed) + ret[k].paypal
       /\ Refunds(ret', Booked') = Refunds(ret, Booked)
  <2>1. ret \in [Keys -> Rows] /\ \A m \in Keys : ret'[m].paypal = ret[m].paypal
    BY <1>2, <1>6 DEF Types
  <2>2. Refunds(ret', Booked) = Refunds(ret, Booked)
    BY <1>6, <1>14, <2>1, RefundsSame
  <2>3. Refunds(ret', Completed') = Refunds(ret, Completed')
    BY <1>6, <1>14, <2>1, RefundsSame
  <2>4. Refunds(ret, Completed \cup {k}) = Refunds(ret, Completed) + ret[k].paypal
    BY <1>2, <1>14, <2>1, RefundsAdd
  <2> QED
    BY <1>14, <2>2, <2>3, <2>4
<1>16. ExternalInv'
  <2>1. /\ Refunds(ret, Completed) <= Share("external", Goods)
        /\ given["external"] + Refunds(ret, Completed) = Share("external", Goods) + Refunds(ret, Booked)
    BY DEF ReturnsInv, ExternalInv
  <2>2. /\ given["external"] \in Int /\ Share("external", Goods) \in Nat /\ Total \in Nat
        /\ Refunds(ret, Completed) \in Nat /\ Refunds(ret, Booked) \in Nat
    BY Numbers
  <2>3. given'["external"] + Refunds(ret', Completed') = Share("external", Goods') + Refunds(ret', Booked')
    BY <1>8, <1>9, <1>10, <1>15, <2>1, <2>2, SMT
  <2>4. Refunds(ret', Completed') <= Share("external", Goods') /\ Goods' <= Total
    BY <1>8, <1>9, <1>15, <2>1, <2>2, SMT
  <2> QED
    BY <1>7, <1>9, <2>3, <2>4, ExternalNext
<1>17. WaitingInv' /\ OneWaits'
  <2>1. WaitingInv'
    BY <1>7, <1>10, <1>14, WaitingNext
  <2> QED
    BY <1>14, <2>1 DEF OneWaits
<1> QED
  BY <1>11, <1>12, <1>13, <1>16, <1>17 DEF ReturnsInv

-----------------------------------------------------------------------------
(* The theorems.                                                           *)

\* An order that was paid and of which nothing was returned.
LEMMA ReturnsInit == Init => ReturnsInv
<1> SUFFICES ASSUME Init PROVE ReturnsInv
  OBVIOUS
<1>1. /\ order \in Orders /\ ret = [k \in Keys |-> NoRow] /\ returned = Nothing
      /\ given = [t \in Tenders |-> 0] /\ refund = [k \in Keys |-> "none"]
      /\ made = [k \in Keys |-> "none"] /\ calls = [c \in Callers |-> Idle]
  BY DEF Init, Nothing
<1>2. NoRow \in Rows /\ Nothing \in [Lines -> Nat]
  BY SMT DEF NoRow, Rows, Nothing
<1>3. Types
  BY <1>1, <1>2, SMT DEF Types, RefundStates
<1>4. RowsInv /\ CallsInv
  BY <1>1 DEF RowsInv, RowInv, CallsInv, CallInv, NoRow, Idle
<1>5. Waiting = {} /\ Completed = {} /\ Booked = {}
  BY <1>1 DEF Waiting, Completed, Booked, NoRow
<1>6. Goods = 0
  BY <1>1, NothingIsWorthNothing DEF Goods
<1>7. Total \in Nat \ {0} /\ Quantity \in [Lines -> Nat \ {0}]
  BY ReturnsAssumption
<1>8. Share("credit", 0) = 0 /\ Share("external", 0) = 0
  <2>1. 0 \in 0..Total
    BY <1>7, SMT
  <2>2. /\ Share("credit", 0) \in Nat /\ Share("external", 0) \in Nat
        /\ Share("credit", 0) + Share("external", 0) = 0
    BY <1>1, <2>1, ShareNumbers
  <2> QED
    BY <2>2, SMT
<1>9. given["credit"] = 0 /\ given["external"] = 0
  BY <1>1 DEF Tenders
<1>10. Refunds(ret, {}) \in Nat
  BY <1>3, RefundsType DEF Types
<1>11. \A l \in Lines : returned[l] <= Quantity[l]
  BY <1>1, <1>7, SMT DEF Nothing
<1>12. Refunds(ret, {}) = 0
  <2>1. [k \in {} |-> ret[k].paypal] \in [{} -> Nat]
    OBVIOUS
  <2>2. Pieces([k \in {} |-> ret[k].paypal]) = {}
    BY <2>1, PiecesHas
  <2> QED
    BY <2>2, FS_EmptySet DEF Refunds
<1>13. ExternalInv
  BY <1>5, <1>6, <1>7, <1>8, <1>9, <1>11, <1>12, SMT DEF ExternalInv
<1>14. WaitingInv /\ OneWaits
  BY <1>5, <1>6, <1>8, <1>9 DEF WaitingInv, OneWaits
<1> QED
  BY <1>3, <1>4, <1>13, <1>14 DEF ReturnsInv

LEMMA ReturnsNext == ReturnsInv /\ [Next]_vars => ReturnsInv'
<1> SUFFICES ASSUME ReturnsInv, [Next]_vars PROVE ReturnsInv'
  OBVIOUS
<1>1. CASE Posting
  <2>1. PICK k \in Keys, units \in Requests :
          Return(k, units) \/ Refuse(k, units) \/ \E c \in Callers : Begin(c, k, units)
    BY <1>1 DEF Posting
  <2> QED
    BY <2>1, ReturnStep, RefuseStep, BeginStep
<1>2. CASE Refunding
  <2>1. PICK c \in Callers :
          \/ \E k \in Keys : Resume(c, k) \/ HookReads(c, k)
          \/ Prepare(c) \/ Ask(c) \/ Record(c) \/ Lost(c) \/ HookWrites(c)
          \/ Finalize(c) \/ Complete(c) \/ Stop(c)
    BY <1>2 DEF Refunding
  <2> QED
    BY <2>1, TalkStep, WriteStep, FinalizeStep, CompleteStep
<1>3. CASE CloseShift \/ \E k \in Keys : Settle(k)
  BY <1>3, TalkStep
<1>4. CASE UNCHANGED vars
  <2>1. UNCHANGED <<order, ret, returned, given, refund, made, calls>>
    BY <1>4 DEF vars
  <2>2. SamePayment /\ Types' /\ RowsInv' /\ CallsInv'
    BY <2>1 DEF SamePayment, ReturnsInv, Types, RowsInv, RowInv, CallsInv, CallInv
  <2>3. OneWaits' /\ ExternalInv' /\ WaitingInv'
    BY <2>1, <2>2, MoneyKept
  <2> QED
    BY <2>2, <2>3 DEF ReturnsInv
<1> QED
  BY <1>1, <1>2, <1>3, <1>4 DEF Next

\* Through lost answers, late webhooks and refusals, the books of an order's returns stay
\* in order: what PayPal's tender got is its share of what came back, but for refunds
\* that were written again after they were booked (the handlers of routes/returns.ts and
\* the refund paths of payments/service.ts).
THEOREM ReturnsHold == Spec => []ReturnsInv
<1> QED
  BY ReturnsInit, ReturnsNext, PTL DEF Spec

\* Types, that no tender gets back more than the order cost, and that no line is returned
\* more often than it was sold, for any lines, amounts and number of requests.
THEOREM TypeCorrect == Spec => []TypeOK
<1>1. ReturnsInv => TypeOK
  <2> SUFFICES ASSUME ReturnsInv PROVE TypeOK
    OBVIOUS
  <2>1. Types /\ \A l \in Lines : returned[l] <= Quantity[l]
    BY DEF ReturnsInv, ExternalInv
  <2>2. given["credit"] \in 0..Total /\ given["external"] \in 0..Total
    <3>1. /\ given["credit"] \in 0..Paid("credit") /\ given["external"] \in 0..Paid("external")
          /\ Paid("credit") \in 0..Total /\ Paid("external") \in 0..Total /\ Total \in Nat
      BY GivenRange, Numbers
    <3> QED
      BY <3>1, SMT
  <2>3. given \in [Tenders -> 0..Total]
    BY <2>1, <2>2 DEF Types, Tenders
  <2> QED
    BY <2>1, <2>3 DEF TypeOK, Types
<1> QED
  BY <1>1, ReturnsHold, PTL

\* In whatever pieces an order is returned and whatever fails between, each tender has
\* its exact share once nothing is under way, and never more than was paid by it.
THEOREM EachTenderExact == Spec => []SharesAreExact
<1>1. ReturnsInv => SharesAreExact
  <2> SUFFICES ASSUME ReturnsInv, NEW t \in Tenders
               PROVE  given[t] <= Paid(t) /\ (Quiet => given[t] = Share(t, Sum(given)))
    BY DEF SharesAreExact
  <2>1. given[t] <= Paid(t)
    BY GivenRange, SMT DEF Tenders
  <2>2. ASSUME Quiet PROVE given[t] = Share(t, Sum(given))
    <3>1. /\ given["credit"] = Share("credit", Goods)
          /\ given["external"] = Share("external", Goods) /\ Sum(given) = Goods
      BY <2>2, QuietExact DEF Quiet
    <3> QED
      BY <3>1 DEF Tenders
  <2> QED
    BY <2>1, <2>2
<1> QED
  BY <1>1, ReturnsHold, PTL

\* The money that went back is what the returned units are worth, to the cent, when
\* nothing is under way.
THEOREM MoneyIsGoods == Spec => []MoneyMatchesGoods
<1>1. ReturnsInv => MoneyMatchesGoods
  <2> SUFFICES ASSUME ReturnsInv, Quiet PROVE Sum(given) = Goods
    BY DEF MoneyMatchesGoods, Goods, Nothing
  <2> QED
    BY QuietExact DEF Quiet
<1> QED
  BY <1>1, ReturnsHold, PTL

\* A return whose refund is booked can be completed: its request does not meet the
\* 409 of finalizePayPalReturn, unless a late writer has reopened another return.
THEOREM CanBeFinished == Spec => []StaysFinishable
<1>1. ReturnsInv => StaysFinishable
  <2> SUFFICES ASSUME ReturnsInv, NEW k \in Keys, ret[k].status = "pending",
                      refund[k] = "locally_finalized", Reopened = {}
               PROVE  Finishable(k)
    BY DEF StaysFinishable
  <2> DEFINE v == ret[k].value
             p == ret[k].paypal
  <2>1. /\ k \in Waiting /\ RowInv(k) /\ PendingInv(k) /\ ret[k].tender = "paypal"
        /\ order \in Orders /\ ret \in [Keys -> Rows] /\ given \in [Tenders -> Int]
        /\ refund \in [Keys -> RefundStates]
    BY DEF Waiting, ReturnsInv, RowsInv, RowInv, WaitingInv, Types
  <2>2. Refunds(ret, Booked) = Refunds(ret, Completed) + p
    <3>1. k \notin Completed /\ Completed \in SUBSET Keys /\ Booked \in SUBSET Keys
          /\ Completed \cup {k} \in SUBSET Keys
      BY DEF Completed, Booked
    <3>2. ASSUME NEW m \in Completed \cup {k} PROVE m \in Booked \/ ret[m].paypal = 0
      <4>1. CASE m = k
        BY <4>1 DEF Booked
      <4>2. CASE m \in Completed
        <5>1. m \in Keys /\ RowInv(m) /\ ret[m].status = "completed" /\ m \notin Active
          BY <4>2 DEF Completed, ReturnsInv, RowsInv, Reopened
        <5>2. refund[m] \in {"none", "failed", "locally_finalized"}
          BY <5>1 DEF Active
        <5> QED
          BY <5>1, <5>2 DEF RowInv, Booked
      <4> QED
        BY <4>1, <4>2
    <3>3. ASSUME NEW m \in Booked PROVE m \in Completed \cup {k}
      <4>1. m \in Keys /\ RowInv(m) /\ refund[m] = "locally_finalized"
        BY DEF Booked, ReturnsInv, RowsInv
      <4>2. ret[m].status \in {"pending", "completed"}
        BY <2>1, <4>1 DEF RowInv, Rows
      <4> QED
        BY <2>1, <4>1, <4>2 DEF ReturnsInv, OneWaits, Waiting, Completed
    <3>4. Refunds(ret, Completed \cup {k}) = Refunds(ret, Booked)
      BY <2>1, <3>1, <3>2, <3>3, RefundsSame
    <3>5. Refunds(ret, Completed \cup {k}) = Refunds(ret, Completed) + ret[k].paypal
      BY <2>1, <3>1, RefundsAdd
    <3> QED
      BY <3>4, <3>5
  <2>3. /\ Goods \in 0..Total /\ Total \in Nat /\ v \in Nat /\ p \in Nat
        /\ Share("external", Goods) \in Nat /\ Refunds(ret, Completed) \in Nat
        /\ given["external"] \in Int
    BY Numbers
  <2>4. given["external"] = Share("external", Goods) + p
    <3>1. given["external"] + Refunds(ret, Completed) = Share("external", Goods) + Refunds(ret, Booked)
      BY DEF ReturnsInv, ExternalInv
    <3> HIDE DEF p
    <3> QED
      BY <2>2, <2>3, <3>1, SMT
  <2>5. /\ given["credit"] = Share("credit", Goods)
        /\ Share("external", Goods + v) = Share("external", Goods) + p /\ Goods + v <= Total
    BY <2>1 DEF PendingInv
  <2>6. Before(k)["external"] = given["external"] - p /\ Before(k)["credit"] = given["credit"]
    BY <2>1 DEF Before, Tenders
  <2> HIDE DEF v, p
  <2>7. /\ Before(k)["external"] = Share("external", Goods)
        /\ Before(k)["credit"] = Share("credit", Goods)
    BY <2>3, <2>4, <2>5, <2>6, SMT
  <2>8. Sum(Before(k)) = Goods
    <3>1. Share("credit", Goods) + Share("external", Goods) = Goods
      BY <2>1, <2>3, ShareNumbers
    <3> QED
      BY <2>7, <3>1 DEF Sum
  <2>9. Goods + v \in 0..Total /\ Goods <= Goods + v
    BY <2>3, <2>5, SMT
  <2>10. \A t \in Tenders : Due(t, v, Before(k)) >= 0
    <3> TAKE t \in Tenders
    <3>1. Due(t, v, Before(k)) = Share(t, Goods + v) - Share(t, Goods)
      BY <2>7, <2>8 DEF Due, Tenders
    <3>2. Share(t, Goods) <= Share(t, Goods + v)
      BY <2>1, <2>3, <2>9, SharesAreMonotone
    <3>3. Share(t, Goods) \in Nat /\ Share(t, Goods + v) \in Nat
      BY <2>1, <2>3, <2>9, ShareParts
    <3> QED
      BY <3>1, <3>2, <3>3, SMT
  <2>11. Due("external", v, Before(k)) = p
    BY <2>3, <2>5, <2>7, <2>8, SMT DEF Due
  <2>12. given["external"] >= p
    BY <2>3, <2>4, SMT
  <2> QED
    BY <2>5, <2>8, <2>10, <2>11, <2>12 DEF Finishable, Divisible, v, p
<1> QED
  BY <1>1, ReturnsHold, PTL

=============================================================================
