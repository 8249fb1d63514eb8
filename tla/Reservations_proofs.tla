--------------------------- MODULE Reservations_proofs ---------------------------
(***************************************************************************)
(* Stock: what is on hold is on hold for a reason and as a whole, what is   *)
(* sold is what was ordered, and no location promises more than it has,     *)
(* however many orders compete for it.                                      *)
(***************************************************************************)
EXTENDS Reservations, FiniteSetTheorems, SequenceTheorems, WellFoundedInduction, TLAPS

-----------------------------------------------------------------------------
(* Sums, counted unit by unit.                                             *)

\* A unit of a sum.
LEMMA UnitsHas ==
  ASSUME NEW f, NEW S, NEW p
  PROVE  p \in Units(f, S) <=> \E k \in S : \E i \in 1 .. f[k] : p = <<k, i>>
  BY SMT DEF Units

\* Finitely many parts are finitely many units.
LEMMA UnitsFinite ==
  ASSUME NEW f, NEW S, IsFiniteSet(S), \A k \in S : f[k] \in Nat
  PROVE  IsFiniteSet(Units(f, S)) /\ Total(f, S) \in Nat
<1> DEFINE part == [k \in S |-> {k} \X (1 .. f[k])]
           T == {{k} \X (1 .. f[k]) : k \in S}
<1>1. part \in Surjection(S, T)
  BY Zenon DEF Surjection
<1>2. IsFiniteSet(T)
  BY <1>1, FS_Surjection
<1>3. ASSUME NEW k \in S PROVE IsFiniteSet({k} \X (1 .. f[k]))
  <2>1. f[k] \in Int /\ 1 \in Int
    BY SMT
  <2>2. IsFiniteSet(1 .. f[k])
    BY <2>1, FS_Interval, Zenon
  <2>3. IsFiniteSet({k})
    BY FS_Singleton, Zenon
  <2> QED
    BY <2>2, <2>3, FS_Product
<1>4. Units(f, S) = UNION T
  BY DEF Units
<1>5. IsFiniteSet(UNION T)
  BY <1>2, <1>3, FS_UNION
<1> QED
  BY <1>4, <1>5, FS_CardinalityType DEF Total

\* No part makes no unit.
LEMMA TotalNone == \A f : Total(f, {}) = 0
<1>1. \A f : Units(f, {}) = {}
  BY SMT DEF Units
<1> QED
  BY <1>1, FS_EmptySet DEF Total

\* A sum sees no more of its parts than their amounts.
LEMMA TotalSame ==
  ASSUME NEW f, NEW g, NEW S, \A k \in S : f[k] = g[k]
  PROVE  Total(f, S) = Total(g, S)
<1>1. \A p : p \in Units(f, S) <=> p \in Units(g, S)
  BY UnitsHas
<1> QED
  BY <1>1 DEF Total

\* Fewer parts do not make a larger sum.
LEMMA TotalLess ==
  ASSUME NEW f, NEW S, IsFiniteSet(S), \A k \in S : f[k] \in Nat, NEW R \in SUBSET S
  PROVE  Total(f, R) <= Total(f, S)
<1>1. Units(f, R) \subseteq Units(f, S)
  BY UnitsHas
<1> QED
  BY <1>1, UnitsFinite, FS_Subset DEF Total

\* One part more adds its amount.
LEMMA TotalAdd ==
  ASSUME NEW f, NEW S, IsFiniteSet(S), NEW x, x \notin S, \A k \in S \cup {x} : f[k] \in Nat
  PROVE  Total(f, S \cup {x}) = Total(f, S) + f[x]
<1> DEFINE n == f[x]
           D == {x} \X (1 .. n)
<1>1. n \in Nat
  OBVIOUS
<1>2. IsFiniteSet(D) /\ Cardinality(D) = n
  <2> HIDE DEF n
  <2>0. 1 \in Int /\ n \in Int
    BY <1>1, SMT
  <2>1. IsFiniteSet({x}) /\ Cardinality({x}) = 1
    BY FS_Singleton, Zenon
  <2>2. IsFiniteSet(1 .. n) /\ Cardinality(1 .. n) = n
    BY <1>1, <2>0, FS_Interval, SMT
  <2>3. Cardinality({x} \X (1 .. n)) = Cardinality({x}) * Cardinality(1 .. n)
    BY <2>1, <2>2, FS_Product
  <2>4. IsFiniteSet({x} \X (1 .. n))
    BY <2>1, <2>2, FS_Product
  <2> QED
    BY <1>1, <2>1, <2>2, <2>3, <2>4, SMT
<1>3. Units(f, S \cup {x}) = Units(f, S) \cup D
  <2>1. \A p : p \in D <=> \E i \in 1 .. f[x] : p = <<x, i>>
    BY SMT
  <2>2. \A p : p \in Units(f, S \cup {x}) <=> p \in Units(f, S) \/ p \in D
    <3> HIDE DEF D
    <3> QED
      BY <2>1, UnitsHas
  <2> HIDE DEF D
  <2> QED
    BY <2>2
<1>4. Units(f, S) \cap D = {}
  <2> SUFFICES ASSUME NEW p \in Units(f, S), p \in D PROVE FALSE
    OBVIOUS
  <2>1. PICK k \in S : \E i \in 1 .. f[k] : p = <<k, i>>
    BY UnitsHas
  <2>2. p[1] = k /\ p[1] = x
    BY <2>1
  <2> QED
    BY <2>2
<1>5. IsFiniteSet(Units(f, S)) /\ Total(f, S) \in Nat
  BY UnitsFinite
<1> HIDE DEF D
<1>6. Cardinality(Units(f, S) \cup D) = Cardinality(Units(f, S)) + Cardinality(D) - Cardinality({})
  BY <1>2, <1>4, <1>5, FS_Union
<1>7. Cardinality({}) = 0
  BY FS_EmptySet
<1>8. f[x] = n
  OBVIOUS
<1> HIDE DEF n
<1> QED
  <2>1. Total(f, S \cup {x}) = Total(f, S) + n - 0
    BY <1>2, <1>3, <1>6, <1>7 DEF Total
  <2> QED
    BY <1>1, <1>5, <1>8, <2>1, SMT

\* One part alone is its amount.
LEMMA TotalOne ==
  ASSUME NEW f, NEW x, f[x] \in Nat
  PROVE  Total(f, {x}) = f[x]
<1>1. Total(f, {} \cup {x}) = Total(f, {}) + f[x]
  BY FS_EmptySet, TotalAdd
<1> QED
  BY <1>1, TotalNone, SMT

-----------------------------------------------------------------------------
(* The inductive invariant.                                                *)

Txs == [job : Jobs \cup {"none", "archive"}, step : Steps \cup {"idle"}, now : Nat,
        todo : Seq(Orders)]
Kernels == [by : SUBSET Workers, rows : [Keys -> Rows], locked : SUBSET Locations,
            posted : SUBSET Locations, done : SUBSET Orders]

Types ==
    /\ clock \in 0 .. Horizon
    /\ order \in [Orders -> OrderStates] /\ attempt \in [Orders -> AttemptStates]
    /\ row \in [Keys -> Rows] /\ onHand \in [Locations -> Nat] /\ sold \in [Keys -> Nat]
    /\ moved \in [Locations -> -MaxDecreases .. 0]
    /\ tx \in [Workers -> Txs] /\ kernel \in Kernels

\* The steps a job is at.
JobInv(w) ==
    /\ tx[w].job = "none" => tx[w] = NoTx
    /\ tx[w].job = "archive" => w = Archiver /\ tx[w].step \in {"kernel", "archive"}
    /\ tx[w].job \in Jobs => w \in Orders /\ tx[w].step \in Steps \ {"archive"}
    /\ tx[w].step = "reserve" => tx[w].job \in {"create", "checkout"} \cup Settling
    /\ tx[w].step = "provider" => tx[w].job \in {"checkout", "capture"}
    /\ tx[w].step = "confirm" => tx[w].job \in Settling
    /\ tx[w].step = "sync" => tx[w].job \in Settling \cup {"create"}
    /\ tx[w].step = "release" => tx[w].job \in Releasing

\* Inventory work is done by one transaction at a time.
InKernel(w) ==
    \/ tx[w].step \in {"reserve", "confirm", "sync", "release", "archive"}
    \/ tx[w].step = "provider" /\ tx[w].job = "checkout"
HolderInv ==
    /\ kernel.by = {w \in Workers : InKernel(w)}
    /\ \A v, w \in kernel.by : v = w
    /\ kernel.posted \subseteq kernel.locked

\* Nobody works on a paid order, and only a paid one has been charged.
OrderInv(o) ==
    /\ tx[o].job # "none" => order[o] # "paid"
    /\ tx[o].job = "capture" => attempt[o] \in Unresolved
    /\ attempt[o] = "captured" => order[o] = "paid"

\* An order's hold is whole or it is not there, and it expires as a whole.
Held(S, R) == {k \in S : R[k].st = "reserved"}
Whole(o, R) ==
    Held(Of(o), R) # {} =>
      /\ Total(Quantities(R), Held(Of(o), R)) = Ordered[o]
      /\ \A j, k \in Held(Of(o), R) : R[j].exp = R[k].exp

\* The buyer is at PayPal since the stock was put on hold for that.
AtPayPal(o) == attempt[o] \in {"created", "review"} /\ order[o] # "paid"

RowInv(o) ==
    /\ Whole(o, row)
    /\ AtPayPal(o) => Held(Of(o), row) # {}
    /\ \A k \in Of(o) :
         /\ row[k].st = "reserved" =>
              order[o] # "paid" /\ (order[o] \in {"open", "dropped"} \/ Protected(o))
         /\ row[k].st = "confirmed" => order[o] = "paid"
         /\ order[o] # "paid" => sold[k] = 0
    /\ order[o] = "paid" => Total(sold, Of(o)) = Ordered[o]

\* What goes by location.
Kept(l) == Orders \X {l}
SoldAt(l) == Total(sold, Kept(l))
StockInv(l) ==
    /\ onHand[l] = Stock[l] + moved[l] - SoldAt(l)
    /\ Total(Quantities(row), Held(Kept(l), row)) + SoldAt(l) <= Stock[l]

\* The holder of the kernel leaves rows of other orders as they are, or gives
\* them back, and puts on hold or sells no more than there is.
Untouched(k, r) ==
    \/ r = row[k]
    \/ row[k].st = "reserved" /\ r = [row[k] EXCEPT !.st = "released"] /\ ~AtPayPal(k[1])
Sales(w) == {k \in Keys : k[1] = w /\ k[2] \in kernel.posted}
RowsOf(w) ==
    /\ \A o \in Orders : Whole(o, kernel.rows)
    /\ \A k \in Keys : k[1] # w => Untouched(k, kernel.rows[k])
    /\ \A l \in Locations :
         Total(Quantities(kernel.rows), Held(Kept(l), kernel.rows) \cup (Sales(w) \cap Kept(l)))
           + SoldAt(l) <= Stock[l]

\* Its own rows are on hold until they are posted, and all of them are posted.
Reserved(o) ==
    \/ tx[o].step = "provider"
    \/ tx[o].step = "sync" /\ tx[o].job = "create"
Settles(o) == tx[o].step = "sync" /\ tx[o].job # "create"
OwnInv(o) ==
    /\ tx[o].step # "sync" => kernel.posted = {}
    /\ tx[o].step = "reserve" => \A k \in Of(o) : kernel.rows[k] = row[k]
    /\ Reserved(o) =>
         /\ kernel.posted = {} /\ Held(Of(o), kernel.rows) # {}
         /\ \A k \in Of(o) : kernel.rows[k].st # "confirmed"
    /\ Settles(o) =>
         /\ Held(Of(o), kernel.rows) = {}
         /\ Total(Quantities(kernel.rows), Sales(o)) = Ordered[o]
         /\ \A l \in kernel.posted : kernel.rows[<<o, l>>].qty <= onHand[l]

ArchivesInv ==
    /\ kernel.posted = {}
    /\ \A o \in kernel.done : order[o] # "paid" /\ Held(Of(o), kernel.rows) = {}

KernelInv ==
    \A w \in kernel.by : RowsOf(w) /\ IF w = Archiver THEN ArchivesInv ELSE OwnInv(w)

StockedInv ==
    /\ Types /\ HolderInv /\ KernelInv
    /\ \A w \in Workers : JobInv(w)
    /\ \A o \in Orders : OrderInv(o) /\ RowInv(o)
    /\ \A l \in Locations : StockInv(l)

-----------------------------------------------------------------------------
(* The loop over the locked balances.                                      *)

\* What fails for some number fails for one whose predecessor is none or does not.
LEMMA Least ==
  ASSUME NEW S, S \subseteq Nat, S # {}
  PROVE  \E m \in S : m = 0 \/ (m - 1 \in Nat /\ m - 1 \notin S)
<1> DEFINE R == {p \in Nat \X Nat : p[1] < p[2]}
<1>1. IsWellFoundedOn(R, Nat)
  BY NatLessThanWellFounded DEF OpToRel
<1>2. \A i, j \in Nat : <<i, j>> \in R <=> i < j
  OBVIOUS
<1> HIDE DEF R
<1>3. PICK m \in S : \A y \in S : ~(<<y, m>> \in R)
  BY <1>1, WFMin
<1>4. m # 0 => m - 1 \in Nat /\ m - 1 < m
  BY <1>3, SMT
<1> QED
  BY <1>2, <1>3, <1>4

\* The sets of keys are finite.
LEMMA KeySets ==
  /\ IsFiniteSet(Orders) /\ IsFiniteSet(Locations) /\ IsFiniteSet(Keys)
  /\ \A o \in Orders : Of(o) \subseteq Keys /\ IsFiniteSet(Of(o))
  /\ \A l \in Locations : Kept(l) \subseteq Keys /\ IsFiniteSet(Kept(l))
<1>1. IsFiniteSet(Orders) /\ IsFiniteSet(Locations)
  BY ReservationsAssumption DEF ReservationsAssumption
<1>2. IsFiniteSet(Keys)
  BY <1>1, FS_Product DEF Keys
<1>3. \A o \in Orders : Of(o) \subseteq Keys
  BY DEF Of, Keys
<1>4. \A l \in Locations : Kept(l) \subseteq Keys
  BY DEF Kept, Keys
<1> QED
  BY <1>1, <1>2, <1>3, <1>4, FS_Subset

\* An order has one key at a location.
LEMMA KeyAt ==
  ASSUME NEW o \in Orders, NEW l \in Locations
  PROVE  /\ <<o, l>> \in Keys /\ <<o, l>> \in Of(o) /\ <<o, l>> \in Kept(l)
         /\ <<o, l>>[1] = o /\ <<o, l>>[2] = l
         /\ \A k \in Kept(l) : k[1] \in Orders /\ (k \in Of(o) \/ k[1] = o => k = <<o, l>>)
  BY DEF Kept, Of, Keys

\* A row and its fields.
LEMMA RowFacts ==
  ASSUME NEW R \in [Keys -> Rows]
  PROVE  /\ \A k \in Keys : R[k] \in Rows /\ R[k].qty \in Nat /\ R[k].exp \in Nat
         /\ Quantities(R) \in [Keys -> Nat]
         /\ \A k \in Keys : Quantities(R)[k] = R[k].qty
  BY DEF Rows, Quantities

\* What a release changes.
LEMMA Released ==
  ASSUME NEW R \in [Keys -> Rows], NEW S, S \subseteq Keys
  PROVE  /\ Release(R, S) \in [Keys -> Rows]
         /\ \A k \in S : Release(R, S)[k] = [R[k] EXCEPT !.st = "released"]
         /\ \A k \in S : Release(R, S)[k].st = "released"
         /\ \A k \in Keys \ S : Release(R, S)[k] = R[k]
         /\ Quantities(Release(R, S)) = Quantities(R)
<1> DEFINE Q == Release(R, S)
<1>1. Q = [k \in Keys |-> Q[k]]
  BY DEF Release, With
<1>2. \A k \in S : Q[k] = [R[k] EXCEPT !.st = "released"]
  BY DEF Release, With
<1>3. \A k \in Keys \ S : Q[k] = R[k]
  BY DEF Release, With
<1>4. ASSUME NEW k \in S
      PROVE  Q[k] \in Rows /\ Q[k].st = "released" /\ Q[k].qty = R[k].qty
  <2>1. R[k] \in Rows /\ Q[k] = [R[k] EXCEPT !.st = "released"]
    BY <1>2
  <2> HIDE DEF Q
  <2> QED
    BY <2>1 DEF Rows
<1> HIDE DEF Q
<1>5. \A k \in Keys : Q[k] \in Rows /\ Q[k].qty = R[k].qty
  BY <1>3, <1>4
<1>6. Q \in [Keys -> Rows]
  BY <1>1, <1>5
<1>7. Quantities(Q) = Quantities(R)
  BY <1>5, Zenon DEF Quantities
<1> QED
  BY <1>2, <1>3, <1>4, <1>6, <1>7 DEF Q

\* What is on hold after a release.
LEMMA HeldReleased ==
  ASSUME NEW R \in [Keys -> Rows], NEW S, S \subseteq Keys, NEW T, T \subseteq Keys
  PROVE  Held(T, Release(R, S)) = Held(T, R) \ S
<1> DEFINE Q == Release(R, S)
<1>1. (\A k \in S : Q[k].st = "released") /\ (\A k \in Keys \ S : Q[k] = R[k])
  BY Released
<1> HIDE DEF Q
<1>2. Held(T, Q) = Held(T, R) \ S
  BY <1>1 DEF Held
<1> QED
  BY <1>2 DEF Q

\* A hold that is released as a whole, or not at all, stays one.
LEMMA WholeReleased ==
  ASSUME NEW R \in [Keys -> Rows], NEW S, S \subseteq Keys, NEW o \in Orders, Whole(o, R),
         Held(Of(o), R) \subseteq S \/ Held(Of(o), R) \cap S = {}
  PROVE  Whole(o, Release(R, S))
<1>0. Of(o) \subseteq Keys
  BY KeySets
<1>1. /\ Held(Of(o), Release(R, S)) = Held(Of(o), R) \ S
      /\ Quantities(Release(R, S)) = Quantities(R)
  BY <1>0, HeldReleased, Released
<1>6. \A k \in Keys \ S : Release(R, S)[k] = R[k]
  BY Released
<1>5. \A k \in Of(o) : k \notin S => Release(R, S)[k] = R[k]
  BY <1>0, <1>6
<1>2. Held(Of(o), R) \subseteq Of(o)
  BY DEF Held
<1>3. CASE Held(Of(o), R) \subseteq S
  BY <1>1, <1>3 DEF Whole
<1>4. CASE Held(Of(o), R) \cap S = {}
  <2>1. Held(Of(o), Release(R, S)) = Held(Of(o), R)
    BY <1>1, <1>4
  <2>2. \A k \in Held(Of(o), R) : Release(R, S)[k] = R[k]
    BY <1>2, <1>4, <1>5
  <2> QED
    BY <1>1, <2>1, <2>2 DEF Whole
<1> QED
  BY <1>3, <1>4

\* Giving back leaves no more on hold at a location.
LEMMA StockReleased ==
  ASSUME NEW R \in [Keys -> Rows], NEW S, S \subseteq Keys, NEW l \in Locations
  PROVE  /\ Total(Quantities(R), Held(Kept(l), R)) \in Nat
         /\ Total(Quantities(Release(R, S)), Held(Kept(l), Release(R, S))) \in Nat
         /\ Total(Quantities(Release(R, S)), Held(Kept(l), Release(R, S)))
              <= Total(Quantities(R), Held(Kept(l), R))
<1>1. /\ Held(Kept(l), Release(R, S)) = Held(Kept(l), R) \ S
      /\ Quantities(Release(R, S)) = Quantities(R)
  BY Released, HeldReleased, KeySets
<1>2. IsFiniteSet(Held(Kept(l), R)) /\ \A k \in Held(Kept(l), R) : Quantities(R)[k] \in Nat
  <2>1. Held(Kept(l), R) \subseteq Kept(l)
    BY DEF Held
  <2> QED
    BY <2>1, KeySets, RowFacts, FS_Subset
<1>3. IsFiniteSet(Held(Kept(l), R) \ S)
  BY <1>2, FS_Subset
<1> QED
  BY <1>1, <1>2, <1>3, UnitsFinite, TotalLess

\* A sweep releases whole holds, and those that are left are active.
LEMMA SweptWhole ==
  ASSUME NEW R \in [Keys -> Rows], NEW now \in Nat, NEW o \in Orders, Whole(o, R)
  PROVE  Whole(o, Sweep(R, now))
<1> DEFINE E == Expired(R, now)
<1>1. E \subseteq Keys
  BY DEF Expired
<1>2. Held(Of(o), R) \subseteq E \/ Held(Of(o), R) \cap E = {}
  <2>1. \A k \in Of(o) : k \in Keys /\ k[1] = o
    BY KeySets DEF Of
  <2>2. \A k \in Held(Of(o), R) : k \in E <=> R[k].exp <= now /\ ~Protected(o)
    BY <2>1 DEF Held, Expired
  <2>3. \A j, k \in Held(Of(o), R) : R[j].exp = R[k].exp
    BY DEF Whole
  <2> HIDE DEF E
  <2> QED
    BY <2>2, <2>3
<1> HIDE DEF E
<1>3. Whole(o, Release(R, E))
  BY <1>1, <1>2, WholeReleased
<1> QED
  BY <1>3 DEF Sweep, E

LEMMA SweptTypes ==
  ASSUME NEW R \in [Keys -> Rows], NEW now \in Nat
  PROVE  /\ Expired(R, now) \subseteq Keys
         /\ Sweep(R, now) \in [Keys -> Rows]
         /\ Quantities(Sweep(R, now)) = Quantities(R)
         /\ \A k \in Keys : Sweep(R, now)[k] = R[k]
              \/ /\ R[k].st = "reserved" /\ ~Protected(k[1])
                 /\ Sweep(R, now)[k] = [R[k] EXCEPT !.st = "released"]
<1> DEFINE E == Expired(R, now)
           Q == Release(R, E)
<1>1. E \subseteq Keys /\ \A k \in E : R[k].st = "reserved" /\ ~Protected(k[1])
  BY DEF Expired
<1> HIDE DEF E
<1>2. /\ Q \in [Keys -> Rows] /\ Quantities(Q) = Quantities(R)
      /\ \A k \in E : Q[k] = [R[k] EXCEPT !.st = "released"]
      /\ \A k \in Keys \ E : Q[k] = R[k]
  BY <1>1, Released
<1>3. Sweep(R, now) = Q
  BY DEF Sweep, E
<1> HIDE DEF Q
<1> QED
  BY <1>1, <1>2, <1>3 DEF E

LEMMA SweptActive ==
  ASSUME NEW R \in [Keys -> Rows], NEW now \in Nat, NEW S, S \subseteq Keys
  PROVE  /\ \A k \in Held(S, Sweep(R, now)) : Active(k, Sweep(R, now), now)
         /\ ActiveIn(S, Sweep(R, now), now) = Total(Quantities(R), Held(S, Sweep(R, now)))
<1> DEFINE E == Expired(R, now)
           Q == Release(R, E)
<1>1. E \subseteq Keys
  BY DEF Expired
<1>2. /\ Quantities(Q) = Quantities(R)
      /\ \A k \in Keys \ E : Q[k] = R[k]
      /\ Held(S, Q) = Held(S, R) \ E
  <2> HIDE DEF E
  <2> QED
    BY <1>1, Released, HeldReleased
<1>3. ASSUME NEW k \in Held(S, Q) PROVE Active(k, Q, now)
  <2>1. k \in Keys /\ k \notin E /\ R[k].st = "reserved" /\ Q[k] = R[k]
    BY <1>2, <1>3 DEF Held
  <2>2. ~(R[k].exp <= now) \/ Protected(k[1])
    BY <2>1 DEF Expired
  <2>3. R[k].exp \in Nat
    BY <2>1, RowFacts
  <2> HIDE DEF Q, E
  <2> QED
    BY <2>1, <2>2, <2>3 DEF Active
<1>4. Sweep(R, now) = Q
  BY DEF Sweep
<1> HIDE DEF Q
<1>5. {k \in S : Active(k, Q, now)} = Held(S, Q)
  BY <1>3 DEF Active, Held
<1> QED
  BY <1>2, <1>3, <1>4, <1>5 DEF ActiveIn

\* The rows a transaction finds when it comes to reserve, and what they leave.
LEMMA SweptFacts ==
  ASSUME Types, NEW o \in Orders
  PROVE  /\ Swept(o) \in [Keys -> Rows]
         /\ Quantities(Swept(o)) = Quantities(kernel.rows)
         /\ \A l \in Locations :
              /\ Free(o, l) = onHand[l] - Total(Quantities(kernel.rows), Held(Kept(l), Swept(o)))
              /\ Total(Quantities(kernel.rows), Held(Kept(l), Swept(o))) \in Nat
              /\ onHand[l] \in Nat /\ Free(o, l) \in Int
<1>1. kernel.rows \in [Keys -> Rows] /\ tx[o].now \in Nat
  BY DEF Types, Kernels, Txs, Workers
<1>2. Swept(o) \in [Keys -> Rows] /\ Quantities(Swept(o)) = Quantities(kernel.rows)
  BY <1>1, SweptTypes DEF Swept
<1>3. ASSUME NEW l \in Locations
      PROVE  /\ Free(o, l) = onHand[l] - Total(Quantities(kernel.rows), Held(Kept(l), Swept(o)))
             /\ Total(Quantities(kernel.rows), Held(Kept(l), Swept(o))) \in Nat
  <2>1. Kept(l) \subseteq Keys /\ IsFiniteSet(Kept(l))
    BY KeySets
  <2>2. ActiveIn(Kept(l), Swept(o), tx[o].now)
          = Total(Quantities(kernel.rows), Held(Kept(l), Swept(o)))
    BY <1>1, <2>1, SweptActive DEF Swept
  <2>3. Held(Kept(l), Swept(o)) \subseteq Kept(l)
    BY DEF Held
  <2>4. IsFiniteSet(Held(Kept(l), Swept(o)))
    BY <2>1, <2>3, FS_Subset
  <2>5. \A k \in Held(Kept(l), Swept(o)) : Quantities(kernel.rows)[k] \in Nat
    BY <1>1, <2>1, <2>3, RowFacts
  <2> QED
    BY <2>2, <2>4, <2>5, UnitsFinite DEF Free, Kept
<1>4. \A l \in Locations : onHand[l] \in Nat
  BY DEF Types
<1> QED
  BY <1>2, <1>3, <1>4, SMT

\* What is taken from a balance is no more than is wanted, and than is free.
LEMMA TakenFacts ==
  ASSUME Types, NEW o \in Orders, NEW l \in Locations, NEW wanted \in Nat
  PROVE  /\ TakenFrom(o, l, wanted) \in Nat /\ TakenFrom(o, l, wanted) <= wanted
         /\ TakenFrom(o, l, wanted) > 0 => TakenFrom(o, l, wanted) <= Free(o, l)
<1>1. Free(o, l) \in Int
  BY SweptFacts
<1>2. \A n \in Int : n > 0 =>
        Min({wanted, n}) \in {wanted, n} /\ Min({wanted, n}) <= n /\ Min({wanted, n}) <= wanted
  <2> SUFFICES ASSUME NEW n \in Int, n > 0
               PROVE  \E x \in {wanted, n} : \A y \in {wanted, n} : x <= y
    BY DEF Min
  <2>1. CASE wanted <= n
    BY <2>1
  <2>2. CASE n <= wanted
    BY <2>2
  <2> QED
    BY <2>1, <2>2
<1> QED
  BY <1>1, <1>2, SMT DEF TakenFrom

\* The loop is well defined: each location leaves what the one before left and this
\* one does not take.
Passes(o) == 1 .. Len(LocationOrder[o])
LoopIs(o, m, g) ==
    /\ g \in [0 .. m -> Nat] /\ g[0] = Ordered[o]
    /\ \A n \in 1 .. m : g[n] = g[n - 1] - TakenFrom(o, LocationOrder[o][n], g[n - 1])

LEMMA LocationFacts ==
  ASSUME NEW o \in Orders
  PROVE  /\ Len(LocationOrder[o]) \in Nat /\ Ordered[o] \in Nat /\ Ordered[o] > 0
         /\ \A n \in Passes(o) : LocationOrder[o][n] \in Locations
         /\ \A i, j \in Passes(o) : LocationOrder[o][i] = LocationOrder[o][j] => i = j
<1>1. LocationOrder[o] \in Seq(Locations)
  BY ReservationsAssumption DEF ReservationsAssumption
<1>2. Ordered[o] \in Nat \ {0}
  BY ReservationsAssumption DEF ReservationsAssumption
<1>3. \A i, j \in Passes(o) : LocationOrder[o][i] = LocationOrder[o][j] => i = j
  BY ReservationsAssumption DEF ReservationsAssumption, Passes
<1> QED
  BY <1>1, <1>2, <1>3 DEF Passes

LEMMA LoopExists ==
  ASSUME Types, NEW o \in Orders
  PROVE  \E g : LoopIs(o, Len(LocationOrder[o]), g)
<1> DEFINE L == Len(LocationOrder[o])
           Bad == {m \in 0 .. L : ~ \E g : LoopIs(o, m, g)}
<1>1. L \in Nat /\ Ordered[o] \in Nat
  BY LocationFacts
<1>2. SUFFICES ASSUME Bad # {} PROVE FALSE
  BY <1>1
<1>3. PICK m \in Bad : m = 0 \/ (m - 1 \in Nat /\ m - 1 \notin Bad)
  <2>1. Bad \subseteq Nat
    BY <1>1
  <2> HIDE DEF Bad
  <2> QED
    BY <1>2, <2>1, Least
<1>4. m \in 0 .. L /\ ~ \E g : LoopIs(o, m, g)
  OBVIOUS
<1>5. CASE m = 0
  <2>1. LoopIs(o, 0, [n \in 0 .. 0 |-> Ordered[o]])
    BY <1>1 DEF LoopIs
  <2> QED
    BY <1>4, <1>5, <2>1
<1>6. CASE m # 0
  <2>1. m \in 1 .. L /\ m - 1 \in 0 .. L /\ m - 1 \in Nat /\ m - 1 \in 0 .. m - 1 /\ m \in Nat
    BY <1>1, <1>3, <1>4, <1>6
  <2>2. PICK g : LoopIs(o, m - 1, g)
    BY <1>3, <1>6, <2>1
  <2> DEFINE x == g[m - 1] - TakenFrom(o, LocationOrder[o][m], g[m - 1])
             h == [n \in 0 .. m |-> IF n = m THEN x ELSE g[n]]
  <2>3. g \in [0 .. m - 1 -> Nat] /\ g[0] = Ordered[o] /\ g[m - 1] \in Nat
    BY <2>1, <2>2 DEF LoopIs
  <2>4. x \in Nat
    <3>1. LocationOrder[o][m] \in Locations
      BY <2>1, LocationFacts DEF Passes
    <3>2. /\ TakenFrom(o, LocationOrder[o][m], g[m - 1]) \in Nat
          /\ TakenFrom(o, LocationOrder[o][m], g[m - 1]) <= g[m - 1]
      BY <2>3, <3>1, TakenFacts
    <3> QED
      BY <2>3, <3>2, SMT
  <2> HIDE DEF x
  <2>5. h \in [0 .. m -> Nat] /\ h[0] = Ordered[o]
    BY <2>1, <2>3, <2>4
  <2>6. \A n \in 1 .. m - 1 : h[n] = g[n] /\ h[n - 1] = g[n - 1]
    BY <2>1
  <2>7. h[m] = x /\ h[m - 1] = g[m - 1]
    BY <2>1
  <2>8. \A n \in 1 .. m - 1 : g[n] = g[n - 1] - TakenFrom(o, LocationOrder[o][n], g[n - 1])
    BY <2>2 DEF LoopIs
  <2>9. \A n \in 1 .. m : n = m \/ n \in 1 .. m - 1
    BY <2>1
  <2> HIDE DEF h
  <2>10. LoopIs(o, m, h)
    BY <2>5, <2>6, <2>7, <2>8, <2>9 DEF LoopIs, x
  <2> QED
    BY <1>4, <2>10
<1> QED
  BY <1>5, <1>6

LEMMA LeftFacts ==
  ASSUME Types, NEW o \in Orders
  PROVE  LoopIs(o, Len(LocationOrder[o]), Left(o))
<1> DEFINE L == Len(LocationOrder[o])
           F(g) == [n \in 0 .. L |->
                      IF n = 0 THEN Ordered[o]
                      ELSE g[n - 1] - TakenFrom(o, LocationOrder[o][n], g[n - 1])]
<1>1. Left(o) = CHOOSE g : g = F(g)
  BY DEF Left
<1>2. PICK g : LoopIs(o, L, g)
  BY LoopExists
<1>3. L \in Nat
  BY LocationFacts
<1>4. g = F(g)
  <2>1. g \in [0 .. L -> Nat] /\ g[0] = Ordered[o]
    BY <1>2 DEF LoopIs
  <2>2. \A n \in 0 .. L : n # 0 =>
          g[n] = g[n - 1] - TakenFrom(o, LocationOrder[o][n], g[n - 1])
    BY <1>2, <1>3 DEF LoopIs
  <2>3. g = [n \in 0 .. L |-> g[n]]
    BY <2>1
  <2> QED
    BY <2>1, <2>2, <2>3
<1>5. Left(o) = F(Left(o))
  BY <1>1, <1>4
<1> DEFINE f == Left(o)
<1>6. /\ f = [n \in 0 .. L |-> f[n]] /\ f[0] = Ordered[o]
      /\ \A n \in 1 .. L : f[n] = f[n - 1] - TakenFrom(o, LocationOrder[o][n], f[n - 1])
  <2>1. \A n \in 1 .. L : n \in 0 .. L /\ n # 0
    BY <1>3
  <2>2. 0 \in 0 .. L
    BY <1>3
  <2>3. \A n \in 0 .. L : f[n] = IF n = 0 THEN Ordered[o]
          ELSE f[n - 1] - TakenFrom(o, LocationOrder[o][n], f[n - 1])
    BY <1>5
  <2>4. f = [n \in 0 .. L |-> f[n]]
    BY <1>5
  <2> HIDE DEF f, L
  <2> QED
    BY <2>1, <2>2, <2>3, <2>4
<1> DEFINE Bad == {n \in 0 .. L : f[n] \notin Nat}
<1>7. Bad = {}
  <2> SUFFICES ASSUME Bad # {} PROVE FALSE
    OBVIOUS
  <2>1. PICK m \in Bad : m = 0 \/ (m - 1 \in Nat /\ m - 1 \notin Bad)
    <3>1. Bad \subseteq Nat
      BY <1>3
    <3> HIDE DEF Bad
    <3> QED
      BY <3>1, Least
  <2>2. f[0] \in Nat
    BY <1>6, LocationFacts
  <2> HIDE DEF f
  <2>3. m \in 1 .. L /\ f[m] \notin Nat /\ f[m - 1] \in Nat
    BY <1>3, <2>1, <2>2
  <2>4. LocationOrder[o][m] \in Locations
    BY <2>3, LocationFacts DEF Passes
  <2>5. /\ TakenFrom(o, LocationOrder[o][m], f[m - 1]) \in Nat
        /\ TakenFrom(o, LocationOrder[o][m], f[m - 1]) <= f[m - 1]
    BY <2>3, <2>4, TakenFacts
  <2>6. f[m] = f[m - 1] - TakenFrom(o, LocationOrder[o][m], f[m - 1])
    BY <1>6, <2>3
  <2> QED
    BY <2>3, <2>5, <2>6, SMT
<1> HIDE DEF f, L
<1>8. f \in [0 .. L -> Nat]
  BY <1>6, <1>7
<1>9. LoopIs(o, L, f)
  BY <1>6, <1>8 DEF LoopIs
<1> QED
  BY <1>9 DEF f, L

\* The rows the loop makes.
LEMMA TakenRows ==
  ASSUME Types, NEW o \in Orders, NEW n \in Taking(o)
  PROVE  /\ n \in Passes(o) /\ LocationOrder[o][n] \in Locations
         /\ <<o, LocationOrder[o][n]>> \in TakenKeys(o)
         /\ LET r == TakenRow(o, <<o, LocationOrder[o][n]>>)
            IN /\ r \in Rows /\ r.st = "reserved" /\ r.exp = clock + Ttl
               /\ r.qty = Left(o)[n - 1] - Left(o)[n]
               /\ r.qty <= Free(o, LocationOrder[o][n])
<1> DEFINE L == Len(LocationOrder[o])
           f == Left(o)
           l == LocationOrder[o][n]
<1>1. n \in 1 .. L /\ f[n] < f[n - 1]
  BY DEF Taking
<1>2. L \in Nat /\ l \in Locations
  BY <1>1, LocationFacts DEF Passes
<1>3. LoopIs(o, L, f)
  BY LeftFacts
<1>4. f[n - 1] \in Nat /\ f[n] \in Nat /\ f[n] = f[n - 1] - TakenFrom(o, l, f[n - 1])
  <2>1. n \in 0 .. L /\ n - 1 \in 0 .. L
    BY <1>1, <1>2
  <2> HIDE DEF L, f
  <2> QED
    BY <1>1, <1>3, <2>1 DEF LoopIs
<1>5. f[n - 1] - f[n] \in Nat /\ f[n - 1] - f[n] <= Free(o, l)
  <2>1. /\ TakenFrom(o, l, f[n - 1]) \in Nat /\ TakenFrom(o, l, f[n - 1]) <= f[n - 1]
        /\ TakenFrom(o, l, f[n - 1]) > 0 => TakenFrom(o, l, f[n - 1]) <= Free(o, l)
    BY <1>2, <1>4, TakenFacts
  <2> HIDE DEF f, l
  <2> QED
    BY <1>1, <1>4, <2>1, SMT
<1>6. (CHOOSE i \in Taking(o) : LocationOrder[o][i] = l) = n
  <2>1. \A i \in Taking(o) : i \in Passes(o)
    BY DEF Taking, Passes
  <2>2. \A i \in Taking(o) : LocationOrder[o][i] = l => i = n
    BY <2>1, LocationFacts
  <2> HIDE DEF l
  <2>3. l = LocationOrder[o][n]
    BY DEF l
  <2> QED
    BY <2>2, <2>3
<1>7. TakenRow(o, <<o, l>>)
        = [st |-> "reserved", qty |-> f[n - 1] - f[n], exp |-> clock + Ttl]
  BY <1>6 DEF TakenRow
<1>8. clock + Ttl \in Nat
  BY ReservationsAssumption, SMT DEF ReservationsAssumption, Types
<1>9. <<o, l>> \in TakenKeys(o)
  BY DEF TakenKeys
<1> HIDE DEF f, l, L
<1>10. TakenRow(o, <<o, l>>) \in Rows
  BY <1>5, <1>7, <1>8 DEF Rows
<1>11. n \in Passes(o)
  BY <1>1 DEF Passes, L
<1>12. /\ TakenRow(o, <<o, l>>).st = "reserved" /\ TakenRow(o, <<o, l>>).exp = clock + Ttl
       /\ TakenRow(o, <<o, l>>).qty = f[n - 1] - f[n]
       /\ TakenRow(o, <<o, l>>).qty <= Free(o, l)
  BY <1>5, <1>7
<1> QED
  BY <1>2, <1>9, <1>10, <1>11, <1>12 DEF f, l

LEMMA TakenKeysFacts ==
  ASSUME Types, NEW o \in Orders
  PROVE  /\ TakenKeys(o) \subseteq Of(o) /\ TakenKeys(o) \subseteq Keys
         /\ \A k \in TakenKeys(o) :
              /\ TakenRow(o, k) \in Rows
              /\ TakenRow(o, k).st = "reserved" /\ TakenRow(o, k).exp = clock + Ttl
              /\ TakenRow(o, k).qty <= Free(o, k[2])
<1>1. ASSUME NEW k \in TakenKeys(o)
      PROVE  /\ k \in Of(o)
             /\ TakenRow(o, k) \in Rows
             /\ TakenRow(o, k).st = "reserved" /\ TakenRow(o, k).exp = clock + Ttl
             /\ TakenRow(o, k).qty <= Free(o, k[2])
  <2>1. PICK n \in Taking(o) : k = <<o, LocationOrder[o][n]>>
    BY DEF TakenKeys
  <2>2. k[2] = LocationOrder[o][n]
    BY <2>1
  <2>3. k \in Of(o)
    BY <2>1, TakenRows DEF Of
  <2> QED
    BY <2>1, <2>2, <2>3, TakenRows
<1> QED
  BY <1>1, KeySets

\* Where nothing is left, the order has all it wants.
LEMMA TakenTotal ==
  ASSUME Types, NEW o \in Orders, ~Short(o), ~Enough(o),
         NEW q, \A k \in TakenKeys(o) : q[k] = TakenRow(o, k).qty
  PROVE  Total(q, TakenKeys(o)) = Ordered[o] /\ TakenKeys(o) # {}
<1> DEFINE L == Len(LocationOrder[o])
           f == Left(o)
           key(n) == <<o, LocationOrder[o][n]>>
           K(n) == {key(i) : i \in {j \in Taking(o) : j <= n}}
           Bad == {n \in 0 .. L : Total(q, K(n)) + f[n] # Ordered[o]}
<1>1. L \in Nat /\ Ordered[o] \in Nat /\ Ordered[o] > 0
  BY LocationFacts
<1>2. LoopIs(o, L, f)
  BY LeftFacts
<1>3. Taking(o) = {n \in 1 .. L : f[n] < f[n - 1]}
  BY DEF Taking
<1>4. /\ f \in [0 .. L -> Nat] /\ f[0] = Ordered[o]
      /\ \A n \in 1 .. L : n - 1 \in 0 .. L /\ f[n - 1] \in Nat /\ f[n] \in Nat /\ f[n] <= f[n - 1]
  <2>1. f \in [0 .. L -> Nat] /\ f[0] = Ordered[o]
    BY <1>2 DEF LoopIs
  <2>2. ASSUME NEW n \in 1 .. L
        PROVE  n - 1 \in 0 .. L /\ f[n - 1] \in Nat /\ f[n] \in Nat /\ f[n] <= f[n - 1]
    <3>1. n - 1 \in 0 .. L /\ n \in 0 .. L
      BY <1>1
    <3>2. f[n - 1] \in Nat /\ f[n] \in Nat
      BY <2>1, <3>1
    <3>3. LocationOrder[o][n] \in Locations
      BY LocationFacts DEF Passes
    <3>4. TakenFrom(o, LocationOrder[o][n], f[n - 1]) \in Nat
      BY <3>2, <3>3, TakenFacts
    <3>5. f[n] = f[n - 1] - TakenFrom(o, LocationOrder[o][n], f[n - 1])
      BY <1>2 DEF LoopIs
    <3> QED
      BY <3>1, <3>2, <3>4, <3>5, SMT
  <2> QED
    BY <2>1, <2>2
<1>5. ASSUME NEW n \in Taking(o)
      PROVE  /\ key(n) \in TakenKeys(o) /\ q[key(n)] = f[n - 1] - f[n] /\ q[key(n)] \in Nat
             /\ \A i \in Taking(o) : key(i) = key(n) => i = n
  <2>1. TakenRow(o, key(n)) \in Rows /\ key(n) \in TakenKeys(o)
          /\ TakenRow(o, key(n)).qty = f[n - 1] - f[n]
    BY TakenRows
  <2>2. \A i \in Taking(o) : i \in Passes(o)
    BY DEF Taking, Passes
  <2>3. \A i \in Taking(o) : key(i) = key(n) => i = n
    BY <2>2, LocationFacts
  <2> HIDE DEF key, f
  <2>4. TakenRow(o, key(n)).qty \in Nat
    BY <2>1 DEF Rows
  <2> QED
    BY <2>1, <2>3, <2>4
<1>6. Bad = {}
  <2> SUFFICES ASSUME Bad # {} PROVE FALSE
    OBVIOUS
  <2>1. PICK m \in Bad : m = 0 \/ (m - 1 \in Nat /\ m - 1 \notin Bad)
    <3>1. Bad \subseteq Nat
      BY <1>1
    <3> HIDE DEF Bad
    <3> QED
      BY <3>1, Least
  <2>2. CASE m = 0
    <3>1. K(0) = {}
      BY <1>3, <1>1
    <3>2. Total(q, K(0)) = 0
      BY <3>1, TotalNone
    <3> QED
      BY <1>1, <1>4, <2>1, <2>2, <3>2
  <2>3. CASE m # 0
    <3>1. m \in 1 .. L /\ m - 1 \in 0 .. L /\ m \in Nat /\ m - 1 \in Nat
      BY <1>1, <2>1, <2>3
    <3>2. Total(q, K(m - 1)) + f[m - 1] = Ordered[o] /\ Total(q, K(m)) + f[m] # Ordered[o]
      BY <2>1, <2>3, <3>1
    <3>3. \A k \in K(m - 1) : q[k] \in Nat
      BY <1>5
    <3>4. IsFiniteSet(K(m - 1))
      <4>1. K(m - 1) \subseteq TakenKeys(o)
        BY DEF TakenKeys
      <4>2. IsFiniteSet(TakenKeys(o))
        BY TakenKeysFacts, KeySets, FS_Subset
      <4> QED
        BY <4>1, <4>2, FS_Subset
    <3>5. Total(q, K(m - 1)) \in Nat
      BY <3>3, <3>4, UnitsFinite
    <3>6. CASE m \in Taking(o)
      <4>1. K(m) = K(m - 1) \cup {key(m)}
        <5>1. \A j \in Taking(o) : j <= m <=> j <= m - 1 \/ j = m
          BY <1>1, <1>3, <3>1
        <5> QED
          BY <3>6, <5>1
      <4>2. key(m) \notin K(m - 1)
        <5>1. SUFFICES ASSUME NEW i \in Taking(o), i <= m - 1, key(i) = key(m) PROVE FALSE
          OBVIOUS
        <5>2. i = m
          BY <1>5, <3>6, <5>1
        <5> QED
          BY <3>1, <5>1, <5>2
      <4>3. q[key(m)] = f[m - 1] - f[m] /\ q[key(m)] \in Nat
        BY <1>5, <3>6
      <4>4. \A k \in K(m - 1) \cup {key(m)} : q[k] \in Nat
        BY <3>3, <4>3
      <4> HIDE DEF K, key
      <4>5. Total(q, K(m)) = Total(q, K(m - 1)) + q[key(m)]
        BY <3>4, <4>1, <4>2, <4>4, TotalAdd
      <4> HIDE DEF f
      <4>6. f[m - 1] \in Nat /\ f[m] \in Nat
        BY <1>4, <3>1
      <4> QED
        BY <3>2, <3>5, <4>3, <4>5, <4>6, SMT
    <3>7. CASE m \notin Taking(o)
      <4>1. K(m) = K(m - 1)
        <5>1. \A j \in Taking(o) : j <= m <=> j <= m - 1
          BY <1>1, <1>3, <3>1, <3>7
        <5> QED
          BY <5>1
      <4>2. f[m] = f[m - 1]
        BY <1>3, <1>4, <3>1, <3>7
      <4> QED
        BY <3>2, <4>1, <4>2
    <3> QED
      BY <3>6, <3>7
  <2> QED
    BY <2>2, <2>3
<1>7. f[L] = 0
  <2>1. ~(f[L] > 0) /\ f[L] \in Nat
    BY <1>1, <1>4 DEF Short
  <2> QED
    BY <2>1, SMT
<1>8. Total(q, K(L)) + f[L] = Ordered[o]
  BY <1>1, <1>6
<1>9. K(L) = TakenKeys(o)
  <2>1. \A j \in Taking(o) : j <= L
    BY <1>1, <1>3
  <2> QED
    BY <2>1 DEF TakenKeys
<1> HIDE DEF K, f, L
<1>10. IsFiniteSet(TakenKeys(o)) /\ \A k \in TakenKeys(o) : q[k] \in Nat
  BY TakenKeysFacts, KeySets, FS_Subset DEF Rows
<1>11. Total(q, TakenKeys(o)) \in Nat
  BY <1>10, UnitsFinite
<1>12. Total(q, TakenKeys(o)) = Ordered[o]
  BY <1>1, <1>7, <1>8, <1>9, <1>11, SMT
<1>13. TakenKeys(o) # {}
  BY <1>1, <1>12, TotalNone
<1> QED
  BY <1>12, <1>13

-----------------------------------------------------------------------------
(* What steps leave alone.                                                 *)

\* An attempt that keeps its claim on the stock, of an order that is not paid.
Mild(o) ==
    /\ attempt'[o] \in AttemptStates
    /\ attempt'[o] = "captured" => order[o] = "paid"
    /\ order[o] # "paid" /\ attempt[o] \in Unresolved => attempt'[o] \in Unresolved
    /\ order[o] # "paid" /\ attempt'[o] \in {"created", "review"} =>
         attempt[o] \in {"created", "review"}

LEMMA MildSame ==
  ASSUME Types, NEW o \in Orders, OrderInv(o), attempt'[o] = attempt[o]
  PROVE  Mild(o)
  BY DEF Types, OrderInv, Mild

\* A transaction that goes on or ends.
LEMMA OrderKept ==
  ASSUME NEW o \in Orders, OrderInv(o), order'[o] = order[o], Mild(o),
         tx'[o].job # "none" => tx[o].job # "none",
         tx'[o].job = "capture" => tx[o].job = "capture"
  PROVE  OrderInv(o)'
  BY DEF OrderInv, Mild

\* The rows of an order that nobody or somebody else has worked on.
LEMMA RowKept ==
  ASSUME NEW o \in Orders, RowInv(o), order'[o] = order[o], Mild(o), Whole(o, row'),
         \A k \in Of(o) : sold'[k] = sold[k],
         \A k \in Of(o) : Untouched(k, row'[k]), row \in [Keys -> Rows]
  PROVE  RowInv(o)'
<1>1. \A k \in Of(o) : k \in Keys /\ k[1] = o
  BY KeySets DEF Of
<1>2. Total(sold', Of(o)) = Total(sold, Of(o))
  BY TotalSame
<1>3. \A k \in Of(o) : row'[k] = row[k] \/ (row[k].st = "reserved" /\ row'[k].st = "released" /\ ~AtPayPal(o))
  BY <1>1 DEF Untouched, Rows
<1>4. AtPayPal(o)' => AtPayPal(o)
  BY DEF AtPayPal, Mild
<1>5. AtPayPal(o) => Held(Of(o), row') = Held(Of(o), row)
  BY <1>3 DEF Held
<1>6. \A k \in Of(o) :
         /\ row'[k].st = "reserved" =>
              order'[o] # "paid" /\ (order'[o] \in {"open", "dropped"} \/ attempt'[o] \in Unresolved)
         /\ row'[k].st = "confirmed" => order'[o] = "paid"
         /\ order'[o] # "paid" => sold'[k] = 0
  BY <1>3 DEF RowInv, Protected, Mild
<1>7. AtPayPal(o)' => Held(Of(o), row') # {}
  BY <1>4, <1>5 DEF RowInv
<1>8. order'[o] = "paid" => Total(sold', Of(o)) = Ordered[o]
  BY <1>2 DEF RowInv
<1> QED
  BY <1>6, <1>7, <1>8 DEF RowInv, Protected

\* The kernel's holder, when others step.
LEMMA KernelKept ==
  ASSUME Types, KernelInv, kernel' = kernel, row' = row, order' = order, sold' = sold,
         \A o \in Orders : Mild(o),
         \A w \in kernel.by : tx'[w] = tx[w],
         \A l \in kernel.posted : onHand'[l] = onHand[l]
  PROVE  KernelInv'
<1> SUFFICES ASSUME NEW w \in kernel.by
             PROVE  RowsOf(w)' /\ IF w = Archiver THEN ArchivesInv' ELSE OwnInv(w)'
  BY DEF KernelInv
<1>1. RowsOf(w) /\ IF w = Archiver THEN ArchivesInv ELSE OwnInv(w)
  BY DEF KernelInv
<1>2. \A k \in Keys : k[1] \in Orders
  BY DEF Keys
<1>3. \A k \in Keys : AtPayPal(k[1])' => AtPayPal(k[1])
  BY <1>2 DEF AtPayPal, Mild
<1>4. \A k \in Keys : k[1] # w => Untouched(k, kernel.rows[k])'
  BY <1>1, <1>3 DEF RowsOf, Untouched
<1>5. RowsOf(w)'
  BY <1>1, <1>4 DEF RowsOf, Sales, SoldAt
<1>6. ArchivesInv => ArchivesInv'
  BY DEF ArchivesInv
<1>7. OwnInv(w) => OwnInv(w)'
  BY DEF OwnInv, Reserved, Settles, Sales
<1> QED
  BY <1>1, <1>5, <1>6, <1>7

\* A step that writes nothing but attempts and transactions.
LEMMA Light ==
  ASSUME StockedInv, UNCHANGED <<clock, order, row, onHand, sold, moved>>,
         attempt' \in [Orders -> AttemptStates], \A o \in Orders : Mild(o),
         tx' \in [Workers -> Txs], kernel' \in Kernels,
         \A w \in Workers : JobInv(w)', \A o \in Orders : OrderInv(o)',
         HolderInv', KernelInv'
  PROVE  StockedInv'
<1>1. Types'
  BY DEF StockedInv, Types
<1>2. \A o \in Orders : RowInv(o)'
  <2> TAKE o \in Orders
  <2>1. RowInv(o) /\ row \in [Keys -> Rows]
    BY DEF StockedInv, Types
  <2>2. Whole(o, row')
    BY <2>1 DEF RowInv
  <2> QED
    BY <2>1, <2>2, RowKept DEF Untouched
<1>3. \A l \in Locations : StockInv(l)'
  BY DEF StockedInv, StockInv, SoldAt
<1> QED
  BY <1>1, <1>2, <1>3 DEF StockedInv

-----------------------------------------------------------------------------
(* Steps that write no stock.                                              *)

LEMMA OneTx ==
  ASSUME Types, NEW w \in Workers, NEW t, tx' = [tx EXCEPT ![w] = t]
  PROVE  /\ tx'[w] = t /\ \A v \in Workers \ {w} : tx'[v] = tx[v]
         /\ t \in Txs => tx' \in [Workers -> Txs]
  BY DEF Types

\* Who is alone in the kernel leaves it empty.
LEMMA Leaves ==
  ASSUME StockedInv, NEW w \in Workers, Leave(w)
  PROVE  /\ HolderInv' /\ tx' \in [Workers -> Txs] /\ kernel' \in Kernels
         /\ tx'[w] = NoTx /\ \A v \in Workers \ {w} : tx'[v] = tx[v]
         /\ \A v \in Workers : JobInv(v)'
         /\ w \in kernel.by => kernel'.by = {}
         /\ w \notin kernel.by => kernel' = kernel
         /\ \A v \in kernel'.by : tx'[v] = tx[v]
         /\ \A o \in Orders : tx'[o].job # "none" => tx'[o] = tx[o]
<1> USE DEF StockedInv
<1>1. NoTx \in Txs
  BY EmptySeq DEF NoTx, Txs
<1>2. tx'[w] = NoTx /\ (\A v \in Workers \ {w} : tx'[v] = tx[v]) /\ tx' \in [Workers -> Txs]
  BY <1>1, OneTx DEF Leave
<1>3. Idle \in Kernels /\ Idle.by = {} /\ Idle.posted = {} /\ Idle.locked = {}
  <2>1. NoRow \in Rows
    BY DEF NoRow, Rows
  <2> QED
    BY <2>1 DEF Idle, Kernels
<1>4. kernel' = IF w \in kernel.by THEN Idle ELSE kernel
  BY DEF Leave
<1>5. kernel' \in Kernels
  BY <1>3, <1>4 DEF Types
<1>6. \A v \in Workers : JobInv(v)'
  BY <1>2 DEF JobInv, NoTx, Jobs, Settling, Releasing
<1>7. \A v \in Workers : InKernel(v)' <=> InKernel(v) /\ v # w
  BY <1>2 DEF InKernel, NoTx
<1>8. kernel.by = {v \in Workers : InKernel(v)} /\ (\A v, u \in kernel.by : v = u)
        /\ kernel.posted \subseteq kernel.locked
  BY DEF HolderInv
<1>9. CASE w \in kernel.by
  <2>1. kernel'.by = {} /\ kernel'.posted = {} /\ kernel'.locked = {}
    BY <1>3, <1>4, <1>9
  <2>2. \A v \in Workers : ~InKernel(v)'
    BY <1>7, <1>8, <1>9
  <2>3. HolderInv'
    BY <2>1, <2>2 DEF HolderInv
  <2> QED
    BY <1>2, <1>5, <1>6, <1>9, <2>1, <2>3 DEF Workers, NoTx
<1>10. CASE w \notin kernel.by
  <2>1. kernel' = kernel
    BY <1>4, <1>10
  <2>2. \A v \in Workers : InKernel(v)' <=> InKernel(v)
    BY <1>7, <1>8, <1>10
  <2>3. HolderInv'
    BY <1>8, <2>1, <2>2 DEF HolderInv
  <2>4. \A v \in kernel'.by : tx'[v] = tx[v]
    BY <1>2, <1>8, <1>10, <2>1
  <2> QED
    BY <1>2, <1>5, <1>6, <1>10, <2>1, <2>3, <2>4 DEF Workers, NoTx
<1> QED
  BY <1>9, <1>10

\* A capture that is rolled back keeps its claim on the stock.
LEMMA ReviewFacts ==
  ASSUME StockedInv, NEW w \in Workers, attempt[w] \in Unresolved, w \in Orders
  PROVE  /\ Review(w) \in {"review", "revived"}
         /\ Review(w) = "review" => attempt[w] \in {"created", "review"}
  BY DEF Review, Unresolved

LEMMA EndKeeps ==
  ASSUME StockedInv, NEW w \in Workers, Leave(w),
         UNCHANGED <<clock, order, row, onHand, sold, moved>>,
         attempt' \in [Orders -> AttemptStates], \A o \in Orders : Mild(o)
  PROVE  StockedInv'
<1>1. \A o \in Orders : OrderInv(o)'
  BY Leaves, OrderKept DEF StockedInv
<1>2. KernelInv'
  <2>1. CASE w \in kernel.by
    BY <2>1, Leaves DEF KernelInv
  <2>2. CASE w \notin kernel.by
    BY <2>2, Leaves, KernelKept DEF StockedInv
  <2> QED
    BY <2>1, <2>2
<1> QED
  BY <1>1, <1>2, Leaves, Light

LEMMA AbortKeeps ==
  ASSUME StockedInv, NEW w \in Workers, Abort(w)
  PROVE  StockedInv'
<1> USE DEF StockedInv
<1>1. Leave(w) /\ UNCHANGED <<clock, order, row, onHand, sold, moved>>
  BY DEF Abort
<1>2. \A o \in Orders : attempt'[o] = IF o = w /\ Charged(w) THEN Review(o) ELSE attempt[o]
  BY DEF Abort
<1>3. ASSUME NEW o \in Orders PROVE Mild(o)
  <2>1. CASE o = w /\ Charged(w)
    <3>1. attempt[w] \in Unresolved /\ order[w] # "paid"
      BY <2>1 DEF OrderInv, Charged
    <3>2. /\ Review(w) \in {"review", "revived"}
          /\ Review(w) = "review" => attempt[w] \in {"created", "review"}
      BY <2>1, <3>1, ReviewFacts
    <3> QED
      BY <1>2, <2>1, <3>2 DEF Mild, Unresolved, AttemptStates
  <2>2. CASE ~(o = w /\ Charged(w))
    BY <1>2, <2>2, MildSame
  <2> QED
    BY <2>1, <2>2
<1>4. attempt' \in [Orders -> AttemptStates]
  <2>1. attempt' = [o \in Orders |-> attempt'[o]]
    BY DEF Abort
  <2> QED
    BY <1>3, <2>1 DEF Mild
<1> QED
  BY <1>1, <1>3, <1>4, EndKeeps

\* A step of a transaction outside the kernel's lock.
LEMMA Outside ==
  ASSUME StockedInv, NEW w \in Workers, NEW t \in Txs, tx' = [tx EXCEPT ![w] = t],
         UNCHANGED <<clock, order, row, onHand, sold, moved, kernel>>,
         attempt' \in [Orders -> AttemptStates], \A o \in Orders : Mild(o),
         ~InKernel(w), ~InKernel(w)', JobInv(w)',
         w \in Orders => OrderInv(w)'
  PROVE  StockedInv'
<1> USE DEF StockedInv
<1>1. tx'[w] = t /\ (\A v \in Workers \ {w} : tx'[v] = tx[v]) /\ tx' \in [Workers -> Txs]
  BY OneTx
<1>2. kernel.by = {v \in Workers : InKernel(v)} /\ (\A v, u \in kernel.by : v = u)
        /\ kernel.posted \subseteq kernel.locked
  BY DEF HolderInv
<1>3. \A v \in kernel.by : tx'[v] = tx[v]
  BY <1>1, <1>2
<1>4. \A v \in Workers : InKernel(v)' <=> InKernel(v)
  BY <1>1 DEF InKernel
<1>5. HolderInv'
  BY <1>2, <1>4 DEF HolderInv
<1>6. KernelInv'
  BY <1>3, KernelKept
<1>7. \A v \in Workers : JobInv(v)'
  BY <1>1 DEF JobInv
<1>8. \A o \in Orders : OrderInv(o)'
  <2> TAKE o \in Orders
  <2>1. CASE o = w
    BY <2>1
  <2>2. CASE o # w
    BY <1>1, <2>2, OrderKept DEF Workers
  <2> QED
    BY <2>1, <2>2
<1>9. kernel' \in Kernels
  BY DEF Types
<1> QED
  BY <1>1, <1>5, <1>6, <1>7, <1>8, <1>9, Light

\* A job that begins is at its first step.
LEMMA FirstFacts ==
  ASSUME NEW o \in Orders, NEW job \in Jobs, May(o, job)
  PROVE  /\ First(job) \in {"share", "row", "options", "kernel"}
         /\ order[o] # "paid"
         /\ job = "capture" => attempt[o] \in Unresolved
  BY DEF First, May, Jobs, Settling, Releasing, Unresolved, Protected

LEMMA BeginKeeps ==
  ASSUME StockedInv, NEW o \in Orders, NEW job \in Jobs, Begin(o, job)
  PROVE  StockedInv'
<1> USE DEF StockedInv
<1> DEFINE t == [job |-> job, step |-> First(job), now |-> clock, todo |-> <<>>]
<1>1. First(job) \in {"share", "row", "options", "kernel"} /\ order[o] # "paid"
        /\ (job = "capture" => attempt[o] \in Unresolved)
  BY FirstFacts DEF Begin
<1>2. clock \in Nat
  BY ReservationsAssumption DEF Types, ReservationsAssumption
<1>3. t \in Txs
  BY <1>1, <1>2, EmptySeq DEF Txs, Steps
<1>4. o \in Workers /\ o # Archiver
  BY ReservationsAssumption DEF Workers, ReservationsAssumption
<1>5. tx' = [tx EXCEPT ![o] = t] /\ UNCHANGED <<clock, order, attempt, row, onHand, sold, moved, kernel>>
  BY DEF Begin, Data
<1>6. tx[o] = NoTx /\ tx'[o] = t
  BY <1>3, <1>4, <1>5, OneTx DEF Begin
<1>7. ~InKernel(o)
  BY <1>6 DEF InKernel, NoTx
<1>8. t.job = job /\ t.step = First(job)
  OBVIOUS
<1> HIDE DEF t
<1>9. ~InKernel(o)'
  BY <1>1, <1>6, <1>8 DEF InKernel
<1>10. JobInv(o)'
  BY <1>1, <1>6, <1>8 DEF JobInv, Jobs, Settling, Releasing, Steps
<1>11. OrderInv(o)'
  BY <1>1, <1>5, <1>6, <1>8 DEF OrderInv
<1>12. attempt' \in [Orders -> AttemptStates] /\ \A p \in Orders : Mild(p)
  BY <1>5, MildSame DEF Types
<1> QED
  BY <1>3, <1>4, <1>5, <1>7, <1>9, <1>10, <1>11, <1>12, Outside

LEMMA BeginArchiveKeeps == ASSUME StockedInv, BeginArchive PROVE StockedInv'
<1> USE DEF StockedInv
<1> DEFINE stale == {o \in Orders : order[o] = "open"}
<1>1. PICK s \in SetToSeqs(stale) :
        tx' = [tx EXCEPT ![Archiver] = [job |-> "archive", step |-> "kernel",
                                        now |-> clock, todo |-> s]]
  BY DEF BeginArchive
<1>2. s \in Seq(Orders)
  <2>1. IsFiniteSet(stale)
    BY KeySets, FS_Subset
  <2>2. Cardinality(stale) \in Nat
    BY <2>1, FS_CardinalityType
  <2>3. s \in [1 .. Cardinality(stale) -> stale]
    BY DEF SetToSeqs
  <2>4. s \in [1 .. Cardinality(stale) -> Orders]
    BY <2>3
  <2> HIDE DEF stale
  <2> QED
    BY <2>2, <2>4
<1> DEFINE t == [job |-> "archive", step |-> "kernel", now |-> clock, todo |-> s]
<1>3. clock \in Nat
  BY ReservationsAssumption DEF Types, ReservationsAssumption
<1>4. t \in Txs
  BY <1>2, <1>3 DEF Txs, Steps
<1>5. Archiver \in Workers /\ Archiver \notin Orders
  BY ReservationsAssumption DEF Workers, ReservationsAssumption
<1>6. UNCHANGED <<clock, order, attempt, row, onHand, sold, moved, kernel>>
  BY DEF BeginArchive, Data
<1>7. tx[Archiver] = NoTx /\ tx'[Archiver] = t
  BY <1>1, <1>4, <1>5, OneTx DEF BeginArchive
<1>8. ~InKernel(Archiver) /\ ~InKernel(Archiver)' /\ JobInv(Archiver)'
  BY <1>7 DEF InKernel, NoTx, JobInv, Jobs, Settling, Releasing
<1>9. attempt' \in [Orders -> AttemptStates] /\ \A p \in Orders : Mild(p)
  BY <1>6, MildSame DEF Types
<1> QED
  BY <1>1, <1>4, <1>5, <1>6, <1>8, <1>9, Outside

\* The fields of a transaction that changes its job or its step.
LEMMA TxFields ==
  ASSUME StockedInv, NEW w \in Workers
  PROVE  /\ tx[w] \in Txs /\ tx[w].todo \in Seq(Orders) /\ tx[w].now \in Nat
         /\ \A s \in Steps : [tx[w] EXCEPT !.step = s] \in Txs
              /\ [tx[w] EXCEPT !.step = s].step = s
              /\ [tx[w] EXCEPT !.step = s].job = tx[w].job
         /\ tx[w].step # "idle" => tx[w].job # "none"
         /\ w \in Orders => w # Archiver /\ tx[w].job # "archive"
<1>1. tx[w] \in Txs /\ JobInv(w)
  BY DEF StockedInv, Types
<1>2. tx[w].step # "idle" => tx[w].job # "none"
  BY <1>1 DEF JobInv, NoTx
<1>3. w \in Orders => w # Archiver /\ tx[w].job # "archive"
  BY <1>1, ReservationsAssumption DEF JobInv, ReservationsAssumption
<1>4. \A s \in Steps : [tx[w] EXCEPT !.step = s] \in Txs
              /\ [tx[w] EXCEPT !.step = s].step = s
              /\ [tx[w] EXCEPT !.step = s].job = tx[w].job
  BY <1>1 DEF Txs
<1> QED
  BY <1>1, <1>2, <1>3, <1>4 DEF Txs

LEMMA LockRowsKeeps == ASSUME StockedInv, NEW o \in Orders, LockRows(o) PROVE StockedInv'
<1> USE DEF StockedInv
<1> DEFINE s == CASE tx[o].step = "row" -> "options"
                  [] tx[o].job = "capture" -> "provider"
                  [] OTHER -> "kernel"
           t == [tx[o] EXCEPT !.step = s]
<1>1. o \in Workers /\ tx[o].step \in {"share", "row", "options"}
  BY DEF LockRows, At, Workers
<1>2. /\ s \in {"options", "provider", "kernel"}
      /\ s = "provider" => tx[o].job = "capture"
  BY <1>1
<1>3. s \in Steps
  BY <1>2 DEF Steps
<1>4. tx' = [tx EXCEPT ![o] = t]
        /\ UNCHANGED <<clock, order, attempt, row, onHand, sold, moved, kernel>>
  BY <1>1 DEF LockRows, Goto, Data, Types
<1> HIDE DEF s
<1>5. t \in Txs /\ t.step = s /\ t.job = tx[o].job /\ tx[o].job # "none" /\ tx[o].job # "archive"
  BY <1>1, <1>3, TxFields
<1> HIDE DEF t
<1>6. tx'[o] = t
  BY <1>1, <1>4, <1>5, OneTx
<1>7. ~InKernel(o) /\ ~InKernel(o)'
  BY <1>1, <1>2, <1>5, <1>6 DEF InKernel
<1>8. JobInv(o)'
  BY <1>1, <1>2, <1>3, <1>5, <1>6 DEF JobInv, Steps
<1>9. OrderInv(o)'
  BY <1>4, <1>5, <1>6 DEF OrderInv
<1>10. attempt' \in [Orders -> AttemptStates] /\ \A p \in Orders : Mild(p)
  BY <1>4, MildSame DEF Types
<1> QED
  BY <1>1, <1>4, <1>5, <1>7, <1>8, <1>9, <1>10, Outside

LEMMA CaptureAnsweredKeeps ==
  ASSUME StockedInv, NEW o \in Orders, CaptureAnswered(o)
  PROVE  StockedInv'
<1> USE DEF StockedInv
<1>1. o \in Workers /\ tx[o].step = "provider" /\ tx[o].job = "capture"
  BY DEF CaptureAnswered, At, Workers
<1>2. attempt[o] \in Unresolved /\ order[o] # "paid"
  BY <1>1 DEF OrderInv
<1>3. ASSUME NEW job \in {"capture", "decline"},
             tx' = [tx EXCEPT ![o].job = job, ![o].step = "kernel"], UNCHANGED <<Data, kernel>>
      PROVE  StockedInv'
  <2> DEFINE t == [tx[o] EXCEPT !.job = job, !.step = "kernel"]
  <2>1. tx' = [tx EXCEPT ![o] = t]
    BY <1>1, <1>3 DEF Types
  <2>2. t \in Txs /\ t.step = "kernel" /\ t.job = job
    <3>1. tx[o] \in Txs
      BY <1>1, TxFields
    <3> HIDE DEF StockedInv
    <3>2. job \in Jobs \cup {"none", "archive"} /\ "kernel" \in Steps \cup {"idle"}
      BY DEF Jobs, Settling, Releasing, Steps
    <3> QED
      BY <3>1, <3>2 DEF Txs
  <2> HIDE DEF t
  <2>3. tx'[o] = t
    BY <1>1, <2>1, <2>2, OneTx
  <2>4. ~InKernel(o) /\ ~InKernel(o)'
    BY <1>1, <2>2, <2>3 DEF InKernel
  <2>5. JobInv(o)'
    BY <2>2, <2>3 DEF JobInv, Jobs, Settling, Releasing, Steps
  <2>6. UNCHANGED <<clock, order, attempt, row, onHand, sold, moved, kernel>>
    BY <1>3 DEF Data
  <2>7. OrderInv(o)'
    BY <1>2, <2>2, <2>3, <2>6 DEF OrderInv
  <2>8. attempt' \in [Orders -> AttemptStates] /\ \A p \in Orders : Mild(p)
    BY <2>6, MildSame DEF Types
  <2> QED
    BY <1>1, <2>1, <2>2, <2>4, <2>5, <2>6, <2>7, <2>8, Outside
<1>4. ASSUME Commit(o, row, Review(o)) PROVE StockedInv'
  <2>1. /\ Review(o) \in {"review", "revived"}
        /\ Review(o) = "review" => attempt[o] \in {"created", "review"}
    BY <1>1, <1>2, ReviewFacts
  <2>2. attempt' = [attempt EXCEPT ![o] = Review(o)] /\ Leave(o)
          /\ UNCHANGED <<clock, order, row, onHand, sold, moved>>
    BY <1>4 DEF Commit
  <2>3. attempt' \in [Orders -> AttemptStates] /\ attempt'[o] = Review(o)
    BY <2>1, <2>2 DEF Types, AttemptStates
  <2>4. ASSUME NEW p \in Orders PROVE Mild(p)
    <3>1. CASE p = o
      BY <2>1, <2>3, <3>1 DEF Mild, Unresolved, AttemptStates
    <3>2. CASE p # o
      BY <2>2, <3>2, MildSame DEF Types
    <3> QED
      BY <3>1, <3>2
  <2> QED
    BY <1>1, <2>2, <2>3, <2>4, EndKeeps
<1> QED
  BY <1>3, <1>4 DEF CaptureAnswered

\* Webhooks and lookups write attempts only.
LEMMA AttemptKeeps ==
  ASSUME StockedInv, UNCHANGED <<clock, order, row, onHand, sold, moved, tx, kernel>>,
         attempt' \in [Orders -> AttemptStates], \A o \in Orders : Mild(o)
  PROVE  StockedInv'
<1> USE DEF StockedInv
<1>1. \A o \in Orders : OrderInv(o)'
  BY OrderKept
<1>2. KernelInv'
  BY KernelKept
<1>3. HolderInv' /\ \A w \in Workers : JobInv(w)'
  BY DEF HolderInv, InKernel, JobInv
<1> QED
  BY <1>1, <1>2, <1>3, Light DEF Types

LEMMA ChargeFoundKeeps ==
  ASSUME StockedInv, NEW o \in Orders, ChargeFound(o) \/ Recheck(o)
  PROVE  StockedInv'
<1> USE DEF StockedInv
<1>1. UNCHANGED <<clock, order, row, onHand, sold, moved, tx, kernel>>
  BY DEF ChargeFound, Recheck
<1>2. attempt' \in [Orders -> AttemptStates] /\ (\A p \in Orders \ {o} : attempt'[p] = attempt[p])
  BY DEF ChargeFound, Recheck, Types, AttemptStates
<1>3. Mild(o)
  <2>1. CASE ChargeFound(o)
    <3>1. /\ attempt[o] \in {"created", "failed", "captured"}
          /\ attempt'[o] = IF attempt[o] = "failed" THEN "revived" ELSE "review"
      BY <2>1 DEF ChargeFound, Types
    <3>2. attempt[o] = "captured" => order[o] = "paid"
      BY DEF OrderInv
    <3> QED
      BY <3>1, <3>2 DEF Mild, Unresolved, AttemptStates
  <2>2. CASE Recheck(o)
    <3>1. /\ attempt[o] \in {"review", "failed"}
          /\ attempt'[o] = CASE order[o] = "paid" -> "captured"
                             [] attempt[o] = "failed" -> "revived"
                             [] OTHER -> "created"
      BY <2>2 DEF Recheck, Types
    <3> QED
      BY <3>1 DEF Mild, Unresolved, AttemptStates
  <2> QED
    BY <2>1, <2>2
<1>4. \A p \in Orders : Mild(p)
  BY <1>2, <1>3, MildSame
<1> QED
  BY <1>1, <1>2, <1>4, AttemptKeeps

\* A write of the status alone: no claim on the stock hangs on it but that of an
\* ended order.
LEMMA EditStatusKeeps == ASSUME StockedInv, NEW o \in Orders, EditStatus(o) PROVE StockedInv'
<1> USE DEF StockedInv
<1>1. UNCHANGED <<clock, attempt, row, onHand, sold, moved, tx, kernel>>
  BY DEF EditStatus
<1>2. /\ order' \in [Orders -> OrderStates]
      /\ order[o] # "paid" /\ order'[o] \in {"open", "dropped"}
      /\ \A p \in Orders \ {o} : order'[p] = order[p]
  BY DEF EditStatus, Types, OrderStates
<1>3. \A p \in Orders : order'[p] = "paid" <=> order[p] = "paid"
  BY <1>2
<1>4. \A p \in Orders : AtPayPal(p)' <=> AtPayPal(p)
  BY <1>1, <1>3 DEF AtPayPal
<1>5. Types' /\ HolderInv' /\ \A w \in Workers : JobInv(w)'
  BY <1>1, <1>2 DEF Types, HolderInv, InKernel, JobInv
<1>6. \A p \in Orders : OrderInv(p)'
  BY <1>1, <1>3 DEF OrderInv
<1>7. \A p \in Orders : RowInv(p)'
  BY <1>1, <1>2, <1>3, <1>4 DEF RowInv, Whole, Held, Quantities, Protected
<1>8. \A l \in Locations : StockInv(l)'
  BY <1>1 DEF StockInv, SoldAt, Held, Kept, Quantities
<1>9. KernelInv'
  <2> SUFFICES ASSUME NEW w \in kernel.by
               PROVE  RowsOf(w)' /\ IF w = Archiver THEN ArchivesInv' ELSE OwnInv(w)'
    BY <1>1 DEF KernelInv
  <2>1. RowsOf(w) /\ IF w = Archiver THEN ArchivesInv ELSE OwnInv(w)
    BY DEF KernelInv
  <2>2. \A k \in Keys : k[1] \in Orders
    BY DEF Keys
  <2>3. \A k \in Keys : k[1] # w => Untouched(k, kernel.rows[k])'
    BY <1>1, <1>4, <2>1, <2>2 DEF RowsOf, Untouched
  <2>4. RowsOf(w)'
    BY <1>1, <2>1, <2>3 DEF RowsOf, Sales, SoldAt
  <2>5. ArchivesInv => ArchivesInv'
    BY <1>1, <1>3, <2>2 DEF ArchivesInv, Types, Kernels
  <2>6. OwnInv(w) => OwnInv(w)'
    BY <1>1 DEF OwnInv, Reserved, Settles, Sales
  <2> QED
    BY <2>1, <2>4, <2>5, <2>6
<1> QED
  BY <1>5, <1>6, <1>7, <1>8, <1>9

LEMMA EnterKernelKeeps ==
  ASSUME StockedInv, NEW w \in Workers, EnterKernel(w)
  PROVE  StockedInv'
<1> USE DEF StockedInv
<1> DEFINE s == CASE w = Archiver -> "archive"
                  [] tx[w].job \in Releasing -> "release"
                  [] OTHER -> "reserve"
           t == [tx[w] EXCEPT !.step = s]
<1>1. tx[w].step = "kernel" /\ kernel.by = {}
  BY DEF EnterKernel, At, Waits
<1>2. s \in Steps /\ s \in {"archive", "release", "reserve"}
        /\ (s = "archive" <=> w = Archiver) /\ (s = "release" => tx[w].job \in Releasing)
        /\ (s = "reserve" => tx[w].job \notin Releasing)
  <2>0. w = Archiver => tx[w].job \notin Releasing
    BY ReservationsAssumption DEF JobInv, ReservationsAssumption, Jobs
  <2> HIDE DEF StockedInv
  <2>1. CASE w = Archiver
    <3>1. s = "archive"
      BY <2>0, <2>1
    <3> QED
      BY <2>1, <3>1 DEF Steps
  <2>2. CASE w # Archiver /\ tx[w].job \in Releasing
    <3>1. s = "release"
      BY <2>2
    <3> QED
      BY <2>2, <3>1 DEF Steps
  <2>3. CASE w # Archiver /\ tx[w].job \notin Releasing
    <3>1. s = "reserve"
      BY <2>3
    <3> QED
      BY <2>3, <3>1 DEF Steps
  <2> QED
    BY <2>1, <2>2, <2>3
<1>3. tx' = [tx EXCEPT ![w] = t] /\ UNCHANGED <<clock, order, attempt, row, onHand, sold, moved>>
  BY DEF EnterKernel, Goto, Data, Types
<1> HIDE DEF s
<1>4. t \in Txs /\ t.step = s /\ t.job = tx[w].job /\ tx[w].job # "none"
        /\ (w \in Orders => w # Archiver /\ tx[w].job # "archive")
  BY <1>1, <1>2, TxFields
<1> HIDE DEF t
<1>5. tx'[w] = t /\ (\A v \in Workers \ {w} : tx'[v] = tx[v]) /\ tx' \in [Workers -> Txs]
  BY <1>3, <1>4, OneTx
<1>6. kernel' = [Idle EXCEPT !.by = {w}, !.rows = row]
  BY DEF EnterKernel
<1>7. kernel'.by = {w} /\ kernel'.rows = row /\ kernel'.posted = {} /\ kernel'.locked = {}
        /\ kernel'.done = {} /\ kernel' \in Kernels
  BY <1>6 DEF Idle, Kernels, Types
<1>8. \A v \in Workers : InKernel(v)' <=> v = w
  <2>1. \A v \in Workers : ~InKernel(v)
    BY <1>1 DEF HolderInv
  <2>2. InKernel(w)'
    BY <1>2, <1>4, <1>5 DEF InKernel
  <2> QED
    BY <1>5, <2>1, <2>2 DEF InKernel
<1>9. HolderInv'
  BY <1>7, <1>8 DEF HolderInv
<1>10. \A v \in Workers : JobInv(v)'
  <2>1. tx[w].job = "archive" \/ tx[w].job \in Jobs
    BY <1>4 DEF Txs, Types
  <2>2. tx[w].job \in Jobs => tx[w].job \in {"create", "checkout"} \cup Settling \cup Releasing
    BY DEF Jobs
  <2>3. JobInv(w)'
    BY <1>1, <1>2, <1>4, <1>5, <2>1, <2>2 DEF JobInv, Workers
  <2> QED
    BY <1>5, <2>3 DEF JobInv
<1>11. attempt' \in [Orders -> AttemptStates] /\ \A p \in Orders : Mild(p)
  BY <1>3, MildSame DEF Types
<1>12. ASSUME NEW o \in Orders PROVE OrderInv(o)'
  <2>1. tx'[o].job = tx[o].job
    BY <1>4, <1>5 DEF Workers
  <2> QED
    BY <1>3, <1>11, <2>1, OrderKept
<1>13. KernelInv'
  <2>1. ASSUME NEW l \in Locations
        PROVE  Total(Quantities(row), Held(Kept(l), row) \cup ({} \cap Kept(l))) + SoldAt(l) <= Stock[l]
    <3>1. Held(Kept(l), row) \cup ({} \cap Kept(l)) = Held(Kept(l), row)
      OBVIOUS
    <3> QED
      BY <3>1 DEF StockInv
  <2>2. Sales(w)' = {}
    BY <1>7 DEF Sales
  <2>3. SoldAt(1)' = SoldAt(1) /\ \A l : SoldAt(l)' = SoldAt(l)
    BY <1>3 DEF SoldAt
  <2>4. RowsOf(w)'
    BY <1>3, <1>7, <2>1, <2>2, <2>3 DEF RowsOf, Untouched, RowInv
  <2>5. ArchivesInv'
    BY <1>7 DEF ArchivesInv
  <2>6. OwnInv(w)'
    BY <1>2, <1>3, <1>4, <1>5, <1>7 DEF OwnInv, Reserved, Settles
  <2> QED
    BY <1>7, <2>4, <2>5, <2>6 DEF KernelInv
<1> QED
  BY <1>3, <1>5, <1>7, <1>9, <1>10, <1>11, <1>12, <1>13, Light

-----------------------------------------------------------------------------
(* What the kernel's holder does.                                          *)

LEMMA Holder ==
  ASSUME StockedInv, NEW w \in Workers, InKernel(w)
  PROVE  /\ kernel.by = {w} /\ kernel \in Kernels /\ kernel.rows \in [Keys -> Rows]
         /\ RowsOf(w)
         /\ w = Archiver => ArchivesInv
         /\ w \in Orders => w # Archiver /\ OwnInv(w) /\ order[w] # "paid"
<1> USE DEF StockedInv
<1>1. w \in kernel.by /\ \A v, u \in kernel.by : v = u
  BY DEF HolderInv
<1>2. kernel \in Kernels /\ kernel.rows \in [Keys -> Rows]
  BY DEF Types, Kernels
<1>3. kernel.by = {w}
  BY <1>1
<1>4. RowsOf(w) /\ IF w = Archiver THEN ArchivesInv ELSE OwnInv(w)
  BY <1>1 DEF KernelInv
<1>5. w \in Orders => w # Archiver
  BY ReservationsAssumption DEF ReservationsAssumption
<1>6. w \in Orders => order[w] # "paid"
  <2>1. tx[w].job # "none"
    BY DEF JobInv, NoTx, InKernel
  <2> QED
    BY <2>1 DEF OrderInv
<1> QED
  BY <1>2, <1>3, <1>4, <1>5, <1>6

\* A step inside the kernel that writes nothing others can see yet.
LEMMA Inside ==
  ASSUME StockedInv, NEW w \in Workers, InKernel(w), NEW t \in Txs, tx' = [tx EXCEPT ![w] = t],
         UNCHANGED <<clock, order, attempt, row, onHand, sold, moved>>,
         kernel' \in Kernels, kernel'.by = kernel.by, kernel'.posted \subseteq kernel'.locked,
         InKernel(w)', JobInv(w)', t.job = tx[w].job,
         RowsOf(w)', w = Archiver => ArchivesInv', w \in Orders => OwnInv(w)'
  PROVE  StockedInv'
<1> USE DEF StockedInv
<1>1. tx'[w] = t /\ (\A v \in Workers \ {w} : tx'[v] = tx[v]) /\ tx' \in [Workers -> Txs]
  BY OneTx
<1>2. kernel.by = {w} /\ kernel.by = {v \in Workers : InKernel(v)}
  BY Holder DEF HolderInv
<1>3. \A v \in Workers : InKernel(v)' <=> InKernel(v)
  BY <1>1 DEF InKernel
<1>4. HolderInv'
  BY <1>2, <1>3 DEF HolderInv
<1>5. \A v \in Workers : JobInv(v)'
  BY <1>1 DEF JobInv
<1>6. attempt' \in [Orders -> AttemptStates] /\ \A p \in Orders : Mild(p)
  BY MildSame DEF Types
<1>7. ASSUME NEW o \in Orders PROVE OrderInv(o)'
  <2>1. tx'[o].job = tx[o].job
    BY <1>1 DEF Workers
  <2> QED
    BY <1>6, <2>1, OrderKept
<1>8. w \in Orders \/ w = Archiver
  BY DEF Workers
<1>9. KernelInv'
  BY <1>2, <1>8 DEF KernelInv
<1> QED
  BY <1>1, <1>4, <1>5, <1>6, <1>7, <1>9, Light

\* What nobody else has touched is not touched by a release that spares checkouts.
LEMMA UntouchedSwept ==
  ASSUME NEW R \in [Keys -> Rows], NEW now \in Nat, NEW k \in Keys, Untouched(k, R[k]),
         row \in [Keys -> Rows]
  PROVE  Untouched(k, Sweep(R, now)[k])
<1> DEFINE q == Sweep(R, now)[k]
<1>1. q = R[k] \/ (R[k].st = "reserved" /\ ~Protected(k[1]) /\ q = [R[k] EXCEPT !.st = "released"])
  BY SweptTypes
<1>2. R[k] \in Rows
  OBVIOUS
<1> HIDE DEF q
<1>3. R[k].st = "reserved" => R[k] = row[k]
  <2>1. row[k] \in Rows
    OBVIOUS
  <2> QED
    BY <2>1 DEF Untouched, Rows
<1>4. ~Protected(k[1]) => ~AtPayPal(k[1])
  BY DEF Protected, AtPayPal, Unresolved
<1> QED
  BY <1>1, <1>3, <1>4 DEF Untouched, q

\* A hold is that of its own rows.
LEMMA WholeSame ==
  ASSUME NEW o \in Orders, NEW R, NEW Q, R \in [Keys -> Rows], Q \in [Keys -> Rows],
         \A k \in Of(o) : Q[k] = R[k], Whole(o, R)
  PROVE  Whole(o, Q)
<1>1. Held(Of(o), Q) = Held(Of(o), R)
  BY DEF Held
<1>2. \A k \in Held(Of(o), R) : Q[k] = R[k] /\ k \in Keys
  BY KeySets DEF Held
<1>3. \A k \in Held(Of(o), R) : Quantities(Q)[k] = Quantities(R)[k]
  BY <1>2 DEF Quantities
<1>4. Total(Quantities(Q), Held(Of(o), R)) = Total(Quantities(R), Held(Of(o), R))
  BY <1>3, TotalSame
<1> QED
  BY <1>1, <1>2, <1>4 DEF Whole

\* What the sweep at the head of the work leaves of the holder's promise.
LEMMA SweptRowsOf ==
  ASSUME StockedInv, NEW o \in Orders, InKernel(o), kernel.posted = {}
  PROVE  /\ \A p \in Orders : Whole(p, Swept(o))
         /\ \A k \in Keys : k[1] # o => Untouched(k, Swept(o)[k])
         /\ \A l \in Locations :
              /\ SoldAt(l) \in Nat
              /\ Total(Quantities(Swept(o)), Held(Kept(l), Swept(o))) \in Nat
              /\ Total(Quantities(Swept(o)), Held(Kept(l), Swept(o))) + SoldAt(l) <= Stock[l]
<1> USE DEF StockedInv
<1>1. o \in Workers
  BY DEF Workers
<1>2. RowsOf(o) /\ kernel.rows \in [Keys -> Rows] /\ tx[o].now \in Nat
        /\ row \in [Keys -> Rows]
  <2>1. row \in [Keys -> Rows]
    BY DEF Types
  <2> HIDE DEF StockedInv
  <2> QED
    BY <1>1, <2>1, Holder, TxFields
<1>3. \A p \in Orders : Whole(p, Swept(o))
  BY <1>2, SweptWhole DEF Swept, RowsOf
<1>4. \A k \in Keys : k[1] # o => Untouched(k, Swept(o)[k])
  BY <1>2, UntouchedSwept DEF Swept, RowsOf
<1>5. ASSUME NEW l \in Locations
      PROVE  /\ SoldAt(l) \in Nat
             /\ Total(Quantities(Swept(o)), Held(Kept(l), Swept(o))) \in Nat
             /\ Total(Quantities(Swept(o)), Held(Kept(l), Swept(o))) + SoldAt(l) <= Stock[l]
  <2> DEFINE a == Total(Quantities(Swept(o)), Held(Kept(l), Swept(o)))
             b == Total(Quantities(kernel.rows), Held(Kept(l), kernel.rows))
  <2>1. a \in Nat /\ b \in Nat /\ a <= b
    BY <1>2, SweptTypes, StockReleased DEF Swept, Sweep
  <2>2. Held(Kept(l), kernel.rows) \cup (Sales(o) \cap Kept(l)) = Held(Kept(l), kernel.rows)
    BY DEF Sales
  <2>3. b + SoldAt(l) <= Stock[l]
    BY <1>2, <2>2 DEF RowsOf
  <2>4. SoldAt(l) \in Nat
    <3>1. IsFiniteSet(Kept(l)) /\ Kept(l) \subseteq Keys
      BY KeySets
    <3>2. \A k \in Kept(l) : sold[k] \in Nat
      BY <3>1 DEF Types
    <3> QED
      BY <3>1, <3>2, UnitsFinite DEF SoldAt
  <2>5. Stock[l] \in Nat
    BY ReservationsAssumption DEF ReservationsAssumption
  <2> HIDE DEF a, b
  <2>6. a + SoldAt(l) <= Stock[l]
    BY <2>1, <2>3, <2>4, <2>5, SMT
  <2> QED
    BY <2>1, <2>4, <2>6 DEF a
<1> QED
  BY <1>3, <1>4, <1>5

\* What an order has on hold when it comes to reserve is enough, or it has nothing.
LEMMA EnoughOrNothing ==
  ASSUME StockedInv, NEW o \in Orders, tx[o].step = "reserve"
  PROVE  /\ kernel.posted = {}
         /\ \A k \in Of(o) : Swept(o)[k].st # "confirmed"
         /\ Enough(o) => Held(Of(o), Swept(o)) # {}
         /\ ~Enough(o) => Held(Of(o), Swept(o)) = {}
<1> USE DEF StockedInv
<1>1. o \in Workers /\ InKernel(o)
  BY DEF Workers, InKernel
<1>2. /\ OwnInv(o) /\ order[o] # "paid" /\ kernel.rows \in [Keys -> Rows]
      /\ tx[o].now \in Nat
  <2> HIDE DEF StockedInv
  <2> QED
    BY <1>1, Holder, TxFields
<1>3. kernel.posted = {} /\ \A k \in Of(o) : kernel.rows[k] = row[k]
  BY <1>2 DEF OwnInv
<1>4. \A k \in Of(o) : row[k].st # "confirmed"
  BY <1>2 DEF RowInv
<1>5. Of(o) \subseteq Keys
  BY KeySets
<1>6. ASSUME NEW k \in Of(o) PROVE Swept(o)[k].st # "confirmed"
  <2> DEFINE q == Swept(o)[k]
  <2>1. k \in Keys /\ kernel.rows[k] \in Rows /\ kernel.rows[k].st # "confirmed"
    BY <1>2, <1>3, <1>4, <1>5
  <2>2. q = kernel.rows[k] \/ q = [kernel.rows[k] EXCEPT !.st = "released"]
    BY <1>2, <2>1, SweptTypes DEF Swept
  <2> HIDE DEF q, StockedInv
  <2>3. q.st # "confirmed"
    BY <2>1, <2>2 DEF Rows
  <2> QED
    BY <2>3 DEF q
<1>7. ActiveIn(Of(o), Swept(o), tx[o].now) = Total(Quantities(Swept(o)), Held(Of(o), Swept(o)))
  BY <1>2, <1>5, SweptActive, SweptTypes DEF Swept
<1>8. Whole(o, Swept(o))
  BY <1>1, <1>3, SweptRowsOf
<1>9. Ordered[o] \in Nat /\ Ordered[o] > 0
  BY LocationFacts
<1> HIDE DEF StockedInv
<1>10. Enough(o) <=> ActiveIn(Of(o), Swept(o), tx[o].now) >= Ordered[o]
  BY <1>6 DEF Enough
<1>11. Enough(o) => Held(Of(o), Swept(o)) # {}
  <2> SUFFICES ASSUME Held(Of(o), Swept(o)) = {} PROVE ~Enough(o)
    OBVIOUS
  <2>1. ActiveIn(Of(o), Swept(o), tx[o].now) = 0
    BY <1>7, TotalNone
  <2> QED
    BY <1>9, <1>10, <2>1
<1>12. ~Enough(o) => Held(Of(o), Swept(o)) = {}
  <2> SUFFICES ASSUME Held(Of(o), Swept(o)) # {} PROVE Enough(o)
    OBVIOUS
  <2>1. ActiveIn(Of(o), Swept(o), tx[o].now) = Ordered[o]
    BY <1>7, <1>8 DEF Whole
  <2> QED
    BY <1>9, <1>10, <2>1
<1> QED
  BY <1>3, <1>6, <1>11, <1>12

\* The rows a reservation leaves.
LEMMA ReservedRows ==
  ASSUME StockedInv, NEW o \in Orders, tx[o].step = "reserve", ~Enough(o), ~Short(o),
         NEW N, N = With(Swept(o), TakenKeys(o), [k \in TakenKeys(o) |-> TakenRow(o, k)])
  PROVE  /\ N \in [Keys -> Rows] /\ \A p \in Orders : Whole(p, N)
         /\ Held(Of(o), N) # {} /\ \A k \in Of(o) : N[k].st # "confirmed"
         /\ \A k \in Keys : k[1] # o => Untouched(k, N[k])
         /\ \A l \in Locations : Total(Quantities(N), Held(Kept(l), N)) + SoldAt(l) <= Stock[l]
<1> DEFINE T == TakenKeys(o)
           Q == Swept(o)
<1>1. /\ kernel.posted = {} /\ Held(Of(o), Q) = {}
      /\ \A k \in Of(o) : Q[k].st # "confirmed"
  BY EnoughOrNothing
<1>2. Types /\ o \in Workers /\ InKernel(o)
  BY DEF StockedInv, Workers, InKernel
<1>3. /\ T \subseteq Of(o) /\ T \subseteq Keys
      /\ \A k \in T : /\ TakenRow(o, k) \in Rows
                      /\ TakenRow(o, k).st = "reserved" /\ TakenRow(o, k).exp = clock + Ttl
                      /\ TakenRow(o, k).qty <= Free(o, k[2])
  BY <1>2, TakenKeysFacts
<1>4. Q \in [Keys -> Rows]
  BY <1>2, SweptFacts
<1>5. /\ \A p \in Orders : Whole(p, Q)
      /\ \A k \in Keys : k[1] # o => Untouched(k, Q[k])
      /\ \A l \in Locations :
              /\ SoldAt(l) \in Nat
              /\ Total(Quantities(Q), Held(Kept(l), Q)) \in Nat
              /\ Total(Quantities(Q), Held(Kept(l), Q)) + SoldAt(l) <= Stock[l]
  BY <1>1, <1>2, SweptRowsOf
<1> HIDE DEF T, Q
<1>6. /\ \A k \in T : N[k] = TakenRow(o, k)
      /\ \A k \in Keys \ T : N[k] = Q[k]
      /\ N = [k \in Keys |-> N[k]]
  BY <1>3 DEF With, T, Q
<1>7. N \in [Keys -> Rows]
  BY <1>3, <1>4, <1>6
<1>8. \A k \in T : Quantities(N)[k] = TakenRow(o, k).qty
  BY <1>3, <1>6 DEF Quantities
<1>9. Total(Quantities(N), T) = Ordered[o] /\ T # {}
  BY <1>2, <1>8, TakenTotal DEF T
<1>10. Held(Of(o), N) = T
  <2>1. \A k \in Of(o) : k \in Keys
    BY KeySets
  <2> QED
    BY <1>1, <1>3, <1>6, <2>1 DEF Held
<1>11. Whole(o, N)
  BY <1>3, <1>6, <1>9, <1>10 DEF Whole
<1>12. ASSUME NEW p \in Orders PROVE Whole(p, N)
  <2>1. CASE p = o
    BY <1>11, <2>1
  <2>2. CASE p # o
    <3>1. \A k \in Of(p) : k \in Keys /\ k \notin T
      BY <1>3, <2>2, KeySets DEF Of
    <3>2. \A k \in Of(p) : N[k] = Q[k]
      BY <1>6, <3>1
    <3>3. Whole(p, Q)
      BY <1>5
    <3> QED
      BY <1>4, <1>7, <3>2, <3>3, WholeSame
  <2> QED
    BY <2>1, <2>2
<1>13. \A k \in Of(o) : N[k].st # "confirmed"
  <2>1. \A k \in Of(o) : k \in Keys
    BY KeySets
  <2> QED
    BY <1>1, <1>3, <1>6, <2>1
<1>14. ASSUME NEW k \in Keys, k[1] # o PROVE Untouched(k, N[k])
  <2>1. k \notin T
    BY <1>3, <1>14 DEF Of
  <2> QED
    BY <1>5, <1>6, <1>14, <2>1
<1>15. ASSUME NEW l \in Locations
       PROVE  Total(Quantities(N), Held(Kept(l), N)) + SoldAt(l) <= Stock[l]
  <2> DEFINE x == <<o, l>>
             H == Held(Kept(l), Q)
  <2>1. \A k \in Kept(l) : k \in Keys /\ (k \in T => k = x)
    BY <1>3, KeySets, KeyAt
  <2>2. \A k \in Kept(l) : k # x => N[k] = Q[k]
    BY <1>6, <2>1
  <2>3. x \in Kept(l) /\ x \in Of(o) /\ x \in Keys /\ x[2] = l
    BY KeyAt
  <2>4. x \notin H
    <3>1. Q[x].st # "reserved"
      BY <1>1, <2>3 DEF Held
    <3> HIDE DEF x
    <3> QED
      BY <3>1 DEF Held
  <2> HIDE DEF x
  <2>5. \A k \in H : k \in Keys /\ k \in Kept(l) /\ k # x /\ Quantities(N)[k] = Quantities(Q)[k]
    BY <2>1, <2>2, <2>4 DEF Held, Quantities
  <2>6. Total(Quantities(N), H) = Total(Quantities(Q), H)
    BY <2>5, TotalSame
  <2>7. /\ SoldAt(l) \in Nat /\ Total(Quantities(Q), H) \in Nat
        /\ Total(Quantities(Q), H) + SoldAt(l) <= Stock[l]
    BY <1>5
  <2>8. CASE x \in T
    <3>1. Held(Kept(l), N) = H \cup {x}
      BY <1>3, <1>6, <2>2, <2>3, <2>8 DEF Held
    <3>2. /\ Quantities(N)[x] = N[x].qty /\ N[x].qty \in Nat /\ N[x].qty <= Free(o, l)
      BY <1>3, <1>6, <1>7, <2>3, <2>8, RowFacts
    <3>3. IsFiniteSet(H)
      <4>1. IsFiniteSet(Kept(l)) /\ H \subseteq Kept(l)
        BY KeySets DEF Held
      <4> QED
        BY <4>1, FS_Subset
    <3>4. \A k \in H \cup {x} : Quantities(N)[k] \in Nat
      BY <1>7, <2>3, <2>5, RowFacts
    <3>5. Total(Quantities(N), Held(Kept(l), N)) = Total(Quantities(N), H) + Quantities(N)[x]
      BY <2>4, <3>1, <3>3, <3>4, TotalAdd
    <3>6. Free(o, l) = onHand[l] - Total(Quantities(Q), H)
      BY <1>2, SweptFacts DEF Q
    <3>7. onHand[l] = Stock[l] + moved[l] - SoldAt(l) /\ moved[l] \in Int /\ moved[l] <= 0
      BY ReservationsAssumption
         DEF StockedInv, StockInv, Types, ReservationsAssumption
    <3>8. Stock[l] \in Nat
      BY ReservationsAssumption DEF ReservationsAssumption
    <3> HIDE DEF H
    <3> QED
      BY <2>6, <2>7, <3>2, <3>5, <3>6, <3>7, <3>8, SMT
  <2>9. CASE x \notin T
    <3>1. N[x] = Q[x]
      BY <1>6, <2>3, <2>9
    <3>2. Held(Kept(l), N) = H
      BY <2>2, <3>1 DEF Held
    <3> QED
      BY <2>6, <2>7, <3>2
  <2> QED
    BY <2>8, <2>9
<1> QED
  BY <1>7, <1>9, <1>10, <1>12, <1>13, <1>14, <1>15

LEMMA ReserveKeeps ==
  ASSUME StockedInv, NEW o \in Orders, Reserve(o)
  PROVE  StockedInv'
<1> DEFINE T == TakenKeys(o)
           N == With(Swept(o), T, [k \in T |-> TakenRow(o, k)])
           s == CASE tx[o].job = "checkout" -> "provider"
                  [] tx[o].job = "create" -> "sync"
                  [] OTHER -> "confirm"
           t == [tx[o] EXCEPT !.step = s]
           K == [kernel EXCEPT !.rows = N, !.locked = IF Enough(o) THEN {} ELSE Locations]
<1>1. o \in Workers /\ InKernel(o) /\ tx[o].step = "reserve"
  BY DEF Workers, InKernel, Reserve, At
<1>2. ASSUME Abort(o) PROVE StockedInv'
  BY <1>1, <1>2, AbortKeeps
<1>3. ASSUME Enough(o) \/ ~Short(o), kernel' = K, Goto(o, s), UNCHANGED Data
      PROVE  StockedInv'
  <2>1. /\ N \in [Keys -> Rows] /\ \A p \in Orders : Whole(p, N)
        /\ Held(Of(o), N) # {} /\ \A k \in Of(o) : N[k].st # "confirmed"
        /\ \A k \in Keys : k[1] # o => Untouched(k, N[k])
        /\ \A l \in Locations : Total(Quantities(N), Held(Kept(l), N)) + SoldAt(l) <= Stock[l]
    <3>1. CASE Enough(o)
      <4>1. T = {}
        BY <3>1 DEF TakenKeys, Taking
      <4>2. Types
        BY DEF StockedInv
      <4>3. Swept(o) \in [Keys -> Rows]
        BY <4>2, SweptFacts
      <4> HIDE DEF T
      <4>4. N = Swept(o)
        BY <4>1, <4>3 DEF With
      <4>5. kernel.posted = {}
        BY <1>1, EnoughOrNothing
      <4>6. /\ \A p \in Orders : Whole(p, Swept(o))
            /\ \A k \in Keys : k[1] # o => Untouched(k, Swept(o)[k])
            /\ \A l \in Locations :
                 Total(Quantities(Swept(o)), Held(Kept(l), Swept(o))) + SoldAt(l) <= Stock[l]
        BY <1>1, <4>5, SweptRowsOf
      <4>7. /\ \A k \in Of(o) : Swept(o)[k].st # "confirmed"
            /\ Held(Of(o), Swept(o)) # {}
        BY <1>1, <3>1, EnoughOrNothing
      <4> HIDE DEF N
      <4> QED
        BY <4>3, <4>4, <4>6, <4>7
    <3>2. CASE ~Enough(o)
      BY <1>1, <1>3, <3>2, ReservedRows
    <3> QED
      BY <3>1, <3>2
  <2>2. kernel \in Kernels /\ kernel.posted = {}
    BY <1>1, Holder, EnoughOrNothing
  <2> HIDE DEF N
  <2>3. K \in Kernels /\ K.rows = N /\ K.posted = {} /\ K.by = kernel.by
    BY <2>1, <2>2 DEF Kernels
  <2> HIDE DEF K
  <2>4. JobInv(o)
    BY <1>1 DEF StockedInv
  <2>5. tx[o].job \in {"create", "checkout"} \cup Settling
    BY <1>1, <2>4 DEF JobInv
  <2>6. /\ s \in {"provider", "sync", "confirm"} /\ s \in Steps
        /\ s = "provider" => tx[o].job = "checkout"
        /\ s = "sync" => tx[o].job = "create"
        /\ s = "confirm" => tx[o].job \in Settling
    <3>1. CASE tx[o].job = "checkout"
      BY <3>1 DEF Steps
    <3>2. CASE tx[o].job = "create"
      BY <3>2 DEF Steps
    <3>3. CASE tx[o].job # "checkout" /\ tx[o].job # "create"
      BY <2>5, <3>3 DEF Steps
    <3> QED
      BY <3>1, <3>2, <3>3
  <2>7. tx' = [tx EXCEPT ![o] = t]
    <3>1. tx \in [Workers -> Txs]
      BY DEF StockedInv, Types
    <3> QED
      BY <1>1, <1>3, <3>1 DEF Goto
  <2> HIDE DEF s
  <2>8. t \in Txs /\ t.step = s /\ t.job = tx[o].job /\ tx[o].job # "archive"
          /\ tx[o].job # "none"
    BY <2>6, TxFields, <1>1
  <2> HIDE DEF t
  <2>9. tx'[o] = t
    <3>1. Types
      BY DEF StockedInv
    <3> QED
      BY <1>1, <2>7, <3>1, OneTx
  <2>10. InKernel(o)'
    BY <2>6, <2>8, <2>9 DEF InKernel
  <2>11. JobInv(o)'
    <3>1. tx'[o].job = tx[o].job /\ tx'[o].step = s
      BY <2>8, <2>9
    <3> QED
      BY <2>5, <2>6, <2>8, <3>1 DEF JobInv, Steps
  <2>12. UNCHANGED <<clock, order, attempt, row, onHand, sold, moved>>
    BY <1>3 DEF Data
  <2>13. RowsOf(o)'
    <3>1. Sales(o)' = {}
      BY <1>3, <2>3 DEF Sales
    <3>2. \A l \in Locations : Held(Kept(l), N) \cup ({} \cap Kept(l)) = Held(Kept(l), N)
      OBVIOUS
    <3>3. \A k \in Keys : AtPayPal(k[1])' <=> AtPayPal(k[1])
      BY <2>12 DEF AtPayPal
    <3>4. \A k \in Keys : k[1] # o => Untouched(k, kernel.rows[k])'
      BY <1>3, <2>1, <2>3, <2>12, <3>3 DEF Untouched
    <3>5. \A l \in Locations : SoldAt(l)' = SoldAt(l)
      BY <2>12 DEF SoldAt
    <3>6. \A p \in Orders : Whole(p, kernel'.rows)
      BY <1>3, <2>1, <2>3
    <3>7. kernel'.rows = N
      BY <1>3, <2>3
    <3>8. ASSUME NEW l \in Locations
          PROVE  Total(Quantities(kernel'.rows), Held(Kept(l), kernel'.rows) \cup (Sales(o)' \cap Kept(l)))
                   + SoldAt(l)' <= Stock[l]
      BY <2>1, <3>1, <3>2, <3>5, <3>7
    <3> QED
      BY <3>4, <3>6, <3>8 DEF RowsOf
  <2>14. OwnInv(o)'
    BY <1>3, <2>1, <2>3, <2>6, <2>8, <2>9 DEF OwnInv, Reserved, Settles
  <2>15. o # Archiver
    BY <1>1, Holder
  <2> QED
    BY <1>1, <1>3, <2>3, <2>7, <2>8, <2>10, <2>11, <2>12, <2>13, <2>14, <2>15, Inside
<1> QED
  BY <1>2, <1>3 DEF Reserve

\* What is due is the whole hold, and posting it changes no amount.
LEMMA DueFacts ==
  ASSUME StockedInv, NEW o \in Orders, tx[o].step = "confirm", Due(o) # {},
         NEW N, N = With(Swept(o), {o} \X Due(o),
                         [k \in {o} \X Due(o) |-> [Swept(o)[k] EXCEPT !.st = "confirmed"]])
  PROVE  /\ kernel.posted = {} /\ Due(o) \subseteq Locations
         /\ N \in [Keys -> Rows] /\ Quantities(N) = Quantities(kernel.rows)
         /\ \A p \in Orders : Whole(p, N)
         /\ Held(Of(o), N) = {} /\ Total(Quantities(N), {o} \X Due(o)) = Ordered[o]
         /\ \A k \in Keys : k[1] # o => Untouched(k, N[k])
         /\ \A l \in Locations :
              Total(Quantities(N), Held(Kept(l), N) \cup (({o} \X Due(o)) \cap Kept(l)))
                + SoldAt(l) <= Stock[l]
<1> DEFINE D == {o} \X Due(o)
           Q == Swept(o)
<1>1. o \in Workers /\ InKernel(o) /\ Types
  BY DEF Workers, InKernel, StockedInv
<1>2. kernel.posted = {}
  <2>1. OwnInv(o)
    BY <1>1, Holder
  <2> QED
    BY <2>1 DEF OwnInv
<1>3. Q \in [Keys -> Rows] /\ Quantities(Q) = Quantities(kernel.rows)
  BY <1>1, SweptFacts
<1>4. /\ \A p \in Orders : Whole(p, Q)
      /\ \A k \in Keys : k[1] # o => Untouched(k, Q[k])
      /\ \A l \in Locations : Total(Quantities(Q), Held(Kept(l), Q)) + SoldAt(l) <= Stock[l]
  BY <1>1, <1>2, SweptRowsOf
<1>5. D = Held(Of(o), Q) /\ D \subseteq Keys /\ D \subseteq Of(o) /\ Due(o) \subseteq Locations
  <2>1. kernel.rows \in [Keys -> Rows] /\ tx[o].now \in Nat
    BY <1>1, Holder, TxFields
  <2>2. Of(o) \subseteq Keys
    BY KeySets
  <2>3. \A k \in Held(Of(o), Q) : Active(k, Q, tx[o].now)
    BY <2>1, <2>2, SweptActive DEF Swept
  <2>4. \A l \in Locations : l \in Due(o) <=> Active(<<o, l>>, Q, tx[o].now)
    BY DEF Due
  <2>5. Due(o) \subseteq Locations
    BY DEF Due
  <2>6. \A l \in Locations : l \in Due(o) <=> <<o, l>> \in Held(Of(o), Q)
    BY <2>3, <2>4, KeyAt DEF Held, Active
  <2>7. \A k : k \in D <=> \E l \in Locations : l \in Due(o) /\ k = <<o, l>>
    BY <2>5
  <2>8. \A k : k \in Of(o) <=> \E l \in Locations : k = <<o, l>>
    BY DEF Of
  <2>9. Held(Of(o), Q) \subseteq Of(o)
    BY DEF Held
  <2> HIDE DEF D, Q
  <2>10. D = Held(Of(o), Q)
    <3> DEFINE H == Held(Of(o), Q)
    <3>1. \A k : k \in H => \E l \in Locations : k = <<o, l>>
      BY <2>8, <2>9
    <3>2. \A l \in Locations : l \in Due(o) <=> <<o, l>> \in H
      BY <2>6
    <3> HIDE DEF H
    <3>3. \A k : k \in D <=> k \in H
      BY <2>7, <3>1, <3>2
    <3>4. D = H
      BY <3>3
    <3> QED
      BY <3>4 DEF H
  <2> QED
    BY <2>2, <2>5, <2>9, <2>10
<1>6. D # {}
  <2>1. PICK l \in Due(o) : TRUE
    OBVIOUS
  <2>2. <<o, l>> \in D
    OBVIOUS
  <2> QED
    BY <2>2
<1>7. /\ \A k \in D : N[k] = [Q[k] EXCEPT !.st = "confirmed"]
      /\ \A k \in Keys \ D : N[k] = Q[k]
      /\ N = [k \in Keys |-> N[k]]
  BY <1>5 DEF With
<1> HIDE DEF D, Q
<1>8. ASSUME NEW k \in D
      PROVE  N[k] \in Rows /\ N[k].st = "confirmed" /\ N[k].qty = Q[k].qty
  <2>1. Q[k] \in Rows /\ N[k] = [Q[k] EXCEPT !.st = "confirmed"]
    BY <1>3, <1>5, <1>7
  <2> QED
    BY <2>1 DEF Rows
<1>9. \A k \in Keys : N[k] \in Rows /\ N[k].qty = Q[k].qty
  BY <1>3, <1>7, <1>8
<1>10. N \in [Keys -> Rows]
  BY <1>7, <1>9
<1>11. Quantities(N) = Quantities(Q)
  BY <1>9, Zenon DEF Quantities
<1>12. Held(Of(o), N) = {}
  <2>1. \A k \in Of(o) : k \in Keys
    BY KeySets
  <2>2. \A k \in Of(o) : k \notin D => Q[k].st # "reserved"
    BY <1>5 DEF Held
  <2>3. \A k \in D : N[k].st = "confirmed"
    BY <1>8
  <2>4. \A k \in Of(o) : N[k].st # "reserved"
    BY <1>7, <2>1, <2>2, <2>3
  <2> QED
    BY <2>4 DEF Held
<1>13. Total(Quantities(N), D) = Ordered[o]
  BY <1>4, <1>5, <1>6, <1>11 DEF Whole
<1>14. ASSUME NEW p \in Orders PROVE Whole(p, N)
  <2>1. CASE p = o
    BY <1>12, <2>1 DEF Whole
  <2>2. CASE p # o
    <3>1. \A k \in Of(p) : k \in Keys /\ k \notin D
      BY <1>5, <2>2, KeySets DEF Of
    <3>2. \A k \in Of(p) : N[k] = Q[k]
      BY <1>7, <3>1
    <3>3. Whole(p, Q)
      BY <1>4
    <3> QED
      BY <1>3, <1>10, <3>2, <3>3, WholeSame
  <2> QED
    BY <2>1, <2>2
<1>15. ASSUME NEW k \in Keys, k[1] # o PROVE Untouched(k, N[k])
  <2>1. k \notin D
    BY <1>5, <1>15 DEF Of
  <2> QED
    BY <1>4, <1>7, <1>15, <2>1
<1>16. ASSUME NEW l \in Locations
       PROVE  Total(Quantities(N), Held(Kept(l), N) \cup (D \cap Kept(l))) + SoldAt(l) <= Stock[l]
  <2>1. \A k \in Kept(l) : k \in Keys
    BY KeySets
  <2>2. \A k \in D : Q[k].st = "reserved"
    BY <1>5 DEF Held
  <2>3. Held(Kept(l), N) \cup (D \cap Kept(l)) = Held(Kept(l), Q)
    <3>1. \A k \in D : N[k].st = "confirmed"
      BY <1>8
    <3>2. \A k \in Kept(l) : k \notin D => N[k] = Q[k]
      BY <1>7, <2>1
    <3>3. \A k \in Kept(l) : N[k].st = "reserved" \/ k \in D <=> Q[k].st = "reserved"
      BY <2>2, <3>1, <3>2
    <3> QED
      BY <3>3 DEF Held
  <2> QED
    BY <1>4, <1>11, <2>3
<1> QED
  BY <1>2, <1>3, <1>5, <1>10, <1>11, <1>12, <1>13, <1>14, <1>15, <1>16 DEF D

LEMMA ConfirmKeeps ==
  ASSUME StockedInv, NEW o \in Orders, Confirm(o)
  PROVE  StockedInv'
<1> DEFINE D == {o} \X Due(o)
           N == With(Swept(o), D, [k \in D |-> [Swept(o)[k] EXCEPT !.st = "confirmed"]])
           left == Posted(o, Due(o))
           t == [tx[o] EXCEPT !.step = "sync"]
           K == [kernel EXCEPT !.rows = N, !.posted = Due(o), !.locked = @ \cup Due(o)]
<1>1. o \in Workers /\ InKernel(o) /\ tx[o].step = "confirm"
  BY DEF Workers, InKernel, Confirm, At
<1>2. ASSUME Abort(o) PROVE StockedInv'
  BY <1>1, <1>2, AbortKeeps
<1>3. ASSUME Due(o) # {}, \A l \in Locations : ~(left[l] < 0),
             kernel' = K, Goto(o, "sync"), UNCHANGED Data
      PROVE  StockedInv'
  <2>1. /\ Due(o) \subseteq Locations
        /\ N \in [Keys -> Rows] /\ Quantities(N) = Quantities(kernel.rows)
        /\ \A p \in Orders : Whole(p, N)
        /\ Held(Of(o), N) = {} /\ Total(Quantities(N), D) = Ordered[o]
        /\ \A k \in Keys : k[1] # o => Untouched(k, N[k])
        /\ \A l \in Locations :
              Total(Quantities(N), Held(Kept(l), N) \cup (D \cap Kept(l))) + SoldAt(l) <= Stock[l]
    BY <1>1, <1>3, DueFacts
  <2>2. kernel \in Kernels /\ o # Archiver /\ kernel.rows \in [Keys -> Rows]
    BY <1>1, Holder
  <2>3. \A l \in Due(o) : N[<<o, l>>].qty <= onHand[l]
    <3> TAKE l \in Due(o)
    <3>1. l \in Locations /\ <<o, l>> \in Keys
      BY <2>1, KeyAt
    <3>2. N[<<o, l>>].qty = kernel.rows[<<o, l>>].qty
      <4>1. Quantities(N)[<<o, l>>] = Quantities(kernel.rows)[<<o, l>>]
        BY <2>1
      <4> HIDE DEF N
      <4> QED
        BY <2>1, <2>2, <3>1, <4>1, RowFacts
    <3>3. left[l] = onHand[l] - kernel.rows[<<o, l>>].qty
      BY <3>1 DEF Posted
    <3>4. ~(onHand[l] - kernel.rows[<<o, l>>].qty < 0)
      BY <1>3, <3>1, <3>3
    <3>5. onHand[l] \in Nat /\ kernel.rows[<<o, l>>].qty \in Nat
      BY <2>2, <3>1, RowFacts DEF StockedInv, Types
    <3> HIDE DEF N, left
    <3> QED
      BY <3>2, <3>4, <3>5, SMT
  <2> HIDE DEF N
  <2>4. K \in Kernels /\ K.rows = N /\ K.posted = Due(o) /\ K.by = kernel.by
          /\ K.posted \subseteq K.locked
    BY <2>1, <2>2 DEF Kernels
  <2> HIDE DEF K
  <2>5. JobInv(o)
    BY <1>1 DEF StockedInv
  <2>6. tx[o].job \in Settling /\ tx[o].job # "create"
    BY <1>1, <2>5 DEF JobInv, Settling
  <2>7. tx' = [tx EXCEPT ![o] = t]
    <3>1. tx \in [Workers -> Txs]
      BY DEF StockedInv, Types
    <3> QED
      BY <1>1, <1>3, <3>1 DEF Goto
  <2>8. t \in Txs /\ t.step = "sync" /\ t.job = tx[o].job /\ tx[o].job # "archive"
          /\ tx[o].job # "none"
    <3>1. "sync" \in Steps
      BY DEF Steps
    <3> QED
      BY <1>1, <3>1, TxFields
  <2> HIDE DEF t
  <2>9. tx'[o] = t
    <3>1. Types
      BY DEF StockedInv
    <3> QED
      BY <1>1, <2>7, <3>1, OneTx
  <2>10. InKernel(o)'
    BY <2>8, <2>9 DEF InKernel
  <2>11. JobInv(o)'
    BY <2>6, <2>8, <2>9 DEF JobInv, Steps
  <2>12. UNCHANGED <<clock, order, attempt, row, onHand, sold, moved>>
    BY <1>3 DEF Data
  <2>13. Sales(o)' = D
    <3>1. \A k \in Keys : k[1] = o /\ k[2] \in Due(o) <=> k \in D
      BY DEF Keys
    <3>2. D \subseteq Keys
      BY <2>1 DEF Keys
    <3>3. kernel'.posted = Due(o)
      BY <1>3, <2>4
    <3> HIDE DEF D
    <3> QED
      BY <3>1, <3>2, <3>3 DEF Sales
  <2>14. RowsOf(o)'
    <3>1. \A k \in Keys : AtPayPal(k[1])' <=> AtPayPal(k[1])
      BY <2>12 DEF AtPayPal
    <3>2. \A k \in Keys : k[1] # o => Untouched(k, kernel.rows[k])'
      BY <1>3, <2>1, <2>4, <2>12, <3>1 DEF Untouched
    <3>3. \A l \in Locations : SoldAt(l)' = SoldAt(l)
      BY <2>12 DEF SoldAt
    <3>4. kernel'.rows = N
      BY <1>3, <2>4
    <3>5. ASSUME NEW l \in Locations
          PROVE  Total(Quantities(kernel'.rows), Held(Kept(l), kernel'.rows) \cup (Sales(o)' \cap Kept(l)))
                   + SoldAt(l)' <= Stock[l]
      BY <2>1, <2>13, <3>3, <3>4
    <3>6. \A p \in Orders : Whole(p, kernel'.rows)
      BY <2>1, <3>4
    <3> QED
      BY <3>2, <3>5, <3>6 DEF RowsOf
  <2>15. OwnInv(o)'
    <3>1. kernel'.rows = N /\ kernel'.posted = Due(o) /\ onHand' = onHand
      BY <1>3, <2>4, <2>12
    <3> QED
      BY <2>1, <2>3, <2>6, <2>8, <2>9, <2>13, <3>1 DEF OwnInv, Reserved, Settles
  <2>16. kernel' \in Kernels /\ kernel'.by = kernel.by /\ kernel'.posted \subseteq kernel'.locked
    BY <1>3, <2>4
  <2> QED
    BY <1>1, <2>2, <2>7, <2>8, <2>10, <2>11, <2>12, <2>14, <2>15, <2>16, Inside
<1>4. left = [l \in Locations |-> left[l]]
  BY DEF Posted
<1> QED
  BY <1>2, <1>3 DEF Confirm

-----------------------------------------------------------------------------
(* Commits of inventory work.                                              *)

\* The kernel is free afterwards.
LEMMA Committed ==
  ASSUME StockedInv, NEW w \in Workers, InKernel(w), Leave(w), UNCHANGED <<clock, moved>>,
         order' \in [Orders -> OrderStates], attempt' \in [Orders -> AttemptStates],
         row' \in [Keys -> Rows], onHand' \in [Locations -> Nat], sold' \in [Keys -> Nat],
         \A o \in Orders : OrderInv(o)' /\ RowInv(o)', \A l \in Locations : StockInv(l)'
  PROVE  StockedInv'
<1>1. w \in kernel.by
  BY Holder
<1>2. kernel'.by = {} /\ HolderInv' /\ tx' \in [Workers -> Txs] /\ kernel' \in Kernels
        /\ \A v \in Workers : JobInv(v)'
  BY <1>1, Leaves
<1>3. Types'
  BY <1>2 DEF StockedInv, Types
<1>4. KernelInv'
  BY <1>2 DEF KernelInv
<1> QED
  BY <1>2, <1>3, <1>4 DEF StockedInv

\* What a commit leaves of the orders it is not about.
LEMMA OtherKept ==
  ASSUME StockedInv, NEW w \in Workers, Leave(w), NEW o \in Orders,
         order'[o] = order[o], attempt'[o] = attempt[o], Whole(o, row'),
         \A k \in Of(o) : Untouched(k, row'[k]) /\ sold'[k] = sold[k]
  PROVE  OrderInv(o)' /\ RowInv(o)'
<1>1. OrderInv(o) /\ RowInv(o) /\ Types /\ row \in [Keys -> Rows]
  BY DEF StockedInv, Types
<1>2. Mild(o)
  BY <1>1, MildSame
<1>3. tx'[o].job # "none" => tx'[o] = tx[o]
  BY Leaves
<1>4. OrderInv(o)'
  BY <1>1, <1>2, <1>3, OrderKept DEF Workers
<1>5. RowInv(o)'
  BY <1>1, <1>2, RowKept
<1> QED
  BY <1>4, <1>5

\* A transaction that has ended says nothing of its order.
LEMMA EndedOrder ==
  ASSUME StockedInv, NEW o \in Orders, Leave(o),
         attempt'[o] = "captured" => order'[o] = "paid"
  PROVE  OrderInv(o)'
<1>1. tx'[o] = NoTx
  BY Leaves DEF Workers
<1> QED
  BY <1>1 DEF OrderInv, NoTx

\* A sum in which all but some parts are nothing.
LEMMA TotalZero ==
  ASSUME NEW f, NEW g, NEW T, NEW S \in SUBSET T,
         \A k \in S : f[k] = g[k], \A k \in T \ S : f[k] = 0
  PROVE  Total(f, T) = Total(g, S)
<1>1. ASSUME NEW p, p \in Units(f, T) PROVE p \in Units(g, S)
  <2>1. PICK k \in T : \E i \in 1 .. f[k] : p = <<k, i>>
    BY <1>1, UnitsHas
  <2>2. k \in S
    BY <2>1
  <2> QED
    BY <2>1, <2>2, UnitsHas
<1>2. ASSUME NEW p, p \in Units(g, S) PROVE p \in Units(f, T)
  <2>1. PICK k \in S : \E i \in 1 .. g[k] : p = <<k, i>>
    BY <1>2, UnitsHas
  <2> QED
    BY <2>1, UnitsHas
<1>3. Units(f, T) = Units(g, S)
  BY <1>1, <1>2
<1> QED
  BY <1>3 DEF Total

\* What is sold at a location when one order's sale is added.
LEMMA OneSale ==
  ASSUME NEW o \in Orders, NEW l \in Locations, NEW f \in [Keys -> Nat], NEW g \in [Keys -> Nat],
         f[<<o, l>>] = 0, \A k \in Kept(l) : k # <<o, l>> => g[k] = f[k]
  PROVE  /\ Total(g, Kept(l)) = Total(f, Kept(l)) + g[<<o, l>>]
         /\ Total(f, Kept(l)) \in Nat /\ g[<<o, l>>] \in Nat
<1> DEFINE x == <<o, l>>
           S == Kept(l) \ {x}
<1>1. x \in Kept(l) /\ x \in Keys /\ IsFiniteSet(Kept(l)) /\ Kept(l) \subseteq Keys
  BY KeyAt, KeySets
<1> HIDE DEF x
<1>2. IsFiniteSet(S) /\ x \notin S /\ S \cup {x} = Kept(l)
  BY <1>1, FS_Subset
<1>3. \A k \in S \cup {x} : f[k] \in Nat /\ g[k] \in Nat
  BY <1>1, <1>2
<1>4. \A k \in S : g[k] = f[k]
  BY DEF x
<1>5. f[x] = 0 /\ g[x] \in Nat
  BY <1>3 DEF x
<1> HIDE DEF S
<1>6. Total(f, S \cup {x}) = Total(f, S) + f[x]
  BY <1>2, <1>3, TotalAdd
<1>7. Total(g, S \cup {x}) = Total(g, S) + g[x]
  BY <1>2, <1>3, TotalAdd
<1>8. Total(g, S) = Total(f, S) /\ Total(f, S) \in Nat
  BY <1>2, <1>3, <1>4, TotalSame, UnitsFinite
<1>9. Total(g, Kept(l)) = Total(f, Kept(l)) + g[x] /\ Total(f, Kept(l)) \in Nat
  <2>1. Total(f, Kept(l)) = Total(f, S) + f[x] /\ Total(g, Kept(l)) = Total(g, S) + g[x]
    BY <1>2, <1>6, <1>7, Zenon
  <2> DEFINE a == Total(f, Kept(l))
             b == Total(g, Kept(l))
             c == Total(f, S)
             d == Total(g, S)
  <2>2. a = c + f[x] /\ b = d + g[x] /\ d = c /\ c \in Nat
    BY <1>8, <2>1
  <2> HIDE DEF a, b, c, d
  <2>3. b = a + g[x] /\ a \in Nat
    BY <1>5, <2>2, SMT
  <2> QED
    BY <2>3 DEF a, b
<1> QED
  BY <1>5, <1>9 DEF x

\* What a settlement posts is the order, and no location gives more than it has.
LEMMA SettledStock ==
  ASSUME StockedInv, NEW o \in Orders, Finish(o), Settles(o)
  PROVE  /\ onHand' \in [Locations -> Nat] /\ sold' \in [Keys -> Nat]
         /\ \A k \in Keys : k[1] # o => sold'[k] = sold[k]
         /\ Total(sold', Of(o)) = Ordered[o]
         /\ \A l \in Locations : StockInv(l)'
<1> DEFINE P == {o} \X kernel.posted
           R == kernel.rows
<1>1. o \in Workers /\ InKernel(o) /\ Types
  BY DEF Workers, InKernel, Settles, StockedInv
<1>2. OwnInv(o) /\ RowsOf(o) /\ order[o] # "paid" /\ R \in [Keys -> Rows] /\ kernel \in Kernels
  BY <1>1, Holder
<1>3. /\ Held(Of(o), R) = {} /\ Total(Quantities(R), Sales(o)) = Ordered[o]
      /\ \A l \in kernel.posted : R[<<o, l>>].qty <= onHand[l]
  BY <1>2 DEF OwnInv
<1>4. kernel.posted \subseteq Locations
  BY <1>2 DEF Kernels
<1>5. /\ row' = R /\ moved' = moved
      /\ onHand' = Posted(o, kernel.posted)
      /\ sold' = [k \in Keys |-> IF k \in P THEN sold[k] + R[k].qty ELSE sold[k]]
  BY DEF Finish
<1>6. P = Sales(o) /\ P \subseteq Keys /\ P \subseteq Of(o)
  BY <1>4 DEF Sales, Keys, Of
<1> HIDE DEF P, R
<1>7. \A k \in Of(o) : sold[k] = 0 /\ k \in Keys
  BY <1>2, KeySets DEF StockedInv, RowInv
<1>8. /\ \A k \in P : sold'[k] = R[k].qty /\ R[k].qty \in Nat /\ Quantities(R)[k] = R[k].qty
      /\ \A k \in Keys \ P : sold'[k] = sold[k]
  <2>1. \A k \in P : sold[k] = 0 /\ R[k].qty \in Nat /\ Quantities(R)[k] = R[k].qty
    BY <1>2, <1>6, <1>7, RowFacts
  <2> QED
    BY <1>5, <1>6, <2>1
<1>9. sold' \in [Keys -> Nat] /\ sold \in [Keys -> Nat]
  <2>1. sold \in [Keys -> Nat]
    BY <1>1 DEF Types
  <2>2. \A k \in Keys : sold'[k] \in Nat
    BY <1>6, <1>8, <2>1
  <2>3. sold' = [k \in Keys |-> sold'[k]]
    BY <1>5
  <2> QED
    BY <2>1, <2>2, <2>3
<1>10. \A k \in Keys : k[1] # o => sold'[k] = sold[k]
  BY <1>6, <1>8 DEF Of
<1>11. Total(sold', Of(o)) = Ordered[o]
  <2>1. /\ P \in SUBSET Of(o) /\ \A k \in P : sold'[k] = Quantities(R)[k]
        /\ \A k \in Of(o) \ P : sold'[k] = 0
    BY <1>6, <1>7, <1>8
  <2>2. Total(sold', Of(o)) = Total(Quantities(R), P)
    BY <2>1, TotalZero
  <2> QED
    BY <1>3, <1>6, <2>2
<1>12. ASSUME NEW l \in Locations
       PROVE  /\ onHand'[l] \in Nat
              /\ onHand'[l] = onHand[l] - sold'[<<o, l>>]
              /\ <<o, l>> \in P => sold'[<<o, l>>] = R[<<o, l>>].qty
              /\ <<o, l>> \notin P => sold'[<<o, l>>] = 0
  <2>1. <<o, l>> \in P <=> l \in kernel.posted
    BY DEF P
  <2>2. onHand[l] \in Nat
    BY <1>1 DEF Types
  <2>3. onHand'[l] = IF l \in kernel.posted THEN onHand[l] - R[<<o, l>>].qty ELSE onHand[l]
    BY <1>5 DEF Posted, R
  <2>4. <<o, l>> \in P => sold'[<<o, l>>] = R[<<o, l>>].qty /\ R[<<o, l>>].qty \in Nat
    BY <1>8
  <2>5. <<o, l>> \notin P => sold'[<<o, l>>] = 0
    BY <1>7, <1>8, KeyAt
  <2>6. l \in kernel.posted => R[<<o, l>>].qty <= onHand[l]
    BY <1>3
  <2> QED
    BY <2>1, <2>2, <2>3, <2>4, <2>5, <2>6
<1>13. onHand' \in [Locations -> Nat]
  <2>1. onHand' = [l \in Locations |-> onHand'[l]]
    BY <1>5 DEF Posted
  <2> QED
    BY <1>12, <2>1
<1>14. ASSUME NEW l \in Locations PROVE StockInv(l)'
  <2> DEFINE x == <<o, l>>
             H == Held(Kept(l), R)
             h == Total(Quantities(R), H)
             n == sold'[x]
  <2>1. /\ x \in Keys /\ x \in Of(o) /\ x \in Kept(l) /\ x[1] = o
        /\ \A k \in Kept(l) : k \in Keys /\ (k \in Of(o) => k = x)
    BY KeyAt, KeySets
  <2>2. sold[x] = 0 /\ n = sold'[x]
    BY <1>7, <2>1
  <2>3. \A k \in Kept(l) : k # x => sold'[k] = sold[k]
    BY <1>6, <1>8, <2>1
  <2>4. /\ Total(sold', Kept(l)) = Total(sold, Kept(l)) + n
        /\ Total(sold, Kept(l)) \in Nat /\ n \in Nat
    BY <1>9, <2>2, <2>3, OneSale
  <2>5. SoldAt(l)' = SoldAt(l) + n /\ SoldAt(l) \in Nat
    BY <2>4 DEF SoldAt
  <2>6. onHand[l] = Stock[l] + moved[l] - SoldAt(l) /\ moved[l] \in Int /\ Stock[l] \in Nat
          /\ onHand[l] \in Nat
    BY ReservationsAssumption DEF StockedInv, StockInv, Types, ReservationsAssumption
  <2>7. onHand'[l] = onHand[l] - n
    BY <1>12
  <2>8. Total(Quantities(R), H \cup (P \cap Kept(l))) + SoldAt(l) <= Stock[l]
    BY <1>2, <1>6 DEF RowsOf, R
  <2>9. IsFiniteSet(H) /\ H \subseteq Kept(l)
    <3>1. IsFiniteSet(Kept(l)) /\ H \subseteq Kept(l)
      BY KeySets DEF Held
    <3> HIDE DEF H
    <3> QED
      BY <3>1, FS_Subset
  <2>10. x \notin H
    BY <1>3, <2>1 DEF Held
  <2>11. \A k \in H \cup {x} : Quantities(R)[k] \in Nat
    BY <1>2, <2>1, <2>9, RowFacts
  <2>12. Total(Quantities(R), H \cup (P \cap Kept(l))) = h + n /\ h \in Nat
    <3> HIDE DEF H
    <3>1. h \in Nat
      BY <2>9, <2>11, UnitsFinite
    <3>2. CASE x \in P
      <4>1. P \cap Kept(l) = {x}
        BY <1>6, <2>1, <3>2
      <4>2. Total(Quantities(R), H \cup {x}) = Total(Quantities(R), H) + Quantities(R)[x]
        BY <2>9, <2>10, <2>11, TotalAdd
      <4>3. Quantities(R)[x] = n
        BY <1>8, <3>2
      <4> QED
        BY <3>1, <4>1, <4>2, <4>3
    <3>3. CASE x \notin P
      <4>1. H \cup (P \cap Kept(l)) = H
        BY <1>6, <2>1, <3>3
      <4>2. n = 0
        BY <1>12, <3>3
      <4>3. Total(Quantities(R), H \cup (P \cap Kept(l))) = h
        BY <4>1
      <4> HIDE DEF n, h
      <4>4. h = h + n
        BY <3>1, <4>2, SMT
      <4> QED
        BY <3>1, <4>3, <4>4
    <3> QED
      BY <3>2, <3>3
  <2>13. row' = R /\ moved' = moved
    BY <1>5
  <2> HIDE DEF n, h
  <2>14. onHand'[l] = Stock[l] + moved[l] - SoldAt(l)'
    BY <2>4, <2>5, <2>6, <2>7, SMT
  <2>15. h + SoldAt(l)' <= Stock[l]
    BY <2>4, <2>5, <2>6, <2>8, <2>12, SMT
  <2> QED
    BY <2>13, <2>14, <2>15 DEF StockInv, h
<1> QED
  BY <1>9, <1>10, <1>11, <1>13, <1>14

LEMMA FinishKeeps ==
  ASSUME StockedInv, NEW o \in Orders, Finish(o)
  PROVE  StockedInv'
<1> DEFINE R == kernel.rows
           paid == IF tx[o].job = "create" THEN "open" ELSE "paid"
<1>1. o \in Workers /\ InKernel(o) /\ tx[o].step = "sync" /\ Types /\ JobInv(o)
  BY DEF Workers, InKernel, Finish, At, StockedInv
<1>2. /\ OwnInv(o) /\ RowsOf(o) /\ order[o] # "paid" /\ R \in [Keys -> Rows]
      /\ OrderInv(o) /\ RowInv(o)
  BY <1>1, Holder DEF StockedInv
<1>3. /\ row' = R /\ Leave(o) /\ UNCHANGED <<clock, moved>>
      /\ order' = [order EXCEPT ![o] = paid]
      /\ attempt' = [attempt EXCEPT ![o] =
                       IF tx[o].job \in {"capture", "reconcile"} THEN "captured" ELSE @]
  BY DEF Finish
<1>4. /\ order' \in [Orders -> OrderStates] /\ attempt' \in [Orders -> AttemptStates]
      /\ order'[o] = paid
      /\ attempt'[o] = IF tx[o].job \in {"capture", "reconcile"} THEN "captured" ELSE attempt[o]
      /\ \A p \in Orders \ {o} : order'[p] = order[p] /\ attempt'[p] = attempt[p]
  BY <1>1, <1>3 DEF Types, OrderStates, AttemptStates
<1>5. /\ onHand' \in [Locations -> Nat] /\ sold' \in [Keys -> Nat]
      /\ \A k \in Keys : k[1] # o => sold'[k] = sold[k]
      /\ \A l \in Locations : StockInv(l)'
      /\ RowInv(o)'
  <2>1. CASE tx[o].job = "create"
    <3>1. kernel.posted = {} /\ Held(Of(o), R) # {} /\ \A k \in Of(o) : R[k].st # "confirmed"
      BY <1>1, <1>2, <2>1 DEF OwnInv, Reserved
    <3>2. onHand' = onHand
      <4>1. onHand' = Posted(o, {})
        BY <3>1 DEF Finish
      <4>2. onHand \in [Locations -> Nat]
        BY <1>1 DEF Types
      <4> QED
        BY <4>1, <4>2 DEF Posted
    <3>3. sold' = sold
      <4>1. sold' = [k \in Keys |-> IF k \in {o} \X {} THEN sold[k] + kernel.rows[k].qty ELSE sold[k]]
        BY <3>1 DEF Finish
      <4>2. sold \in [Keys -> Nat]
        BY <1>1 DEF Types
      <4>3. {o} \X {} = {}
        OBVIOUS
      <4> QED
        BY <4>1, <4>2, <4>3
    <3>4. ASSUME NEW l \in Locations PROVE StockInv(l)'
      <4>1. Sales(o) = {}
        BY <3>1 DEF Sales
      <4>2. Held(Kept(l), R) \cup (Sales(o) \cap Kept(l)) = Held(Kept(l), R)
        BY <4>1
      <4>3. Total(Quantities(R), Held(Kept(l), R)) + SoldAt(l) <= Stock[l]
        BY <1>2, <4>2 DEF RowsOf
      <4>4. StockInv(l)
        BY DEF StockedInv
      <4> HIDE DEF R
      <4> QED
        BY <1>3, <3>2, <3>3, <4>3, <4>4 DEF StockInv, SoldAt
    <3>5. order'[o] = "open" /\ attempt'[o] = attempt[o]
      BY <1>4, <2>1
    <3>6. Whole(o, row')
      BY <1>2, <1>3 DEF RowsOf
    <3>7. \A k \in Of(o) : sold[k] = 0
      BY <1>2 DEF RowInv
    <3>8. RowInv(o)'
      BY <1>3, <3>1, <3>3, <3>5, <3>6, <3>7 DEF RowInv
    <3> QED
      BY <1>1, <3>2, <3>3, <3>4, <3>8 DEF Types
  <2>2. CASE tx[o].job # "create"
    <3>1. Settles(o)
      BY <1>1, <2>2 DEF Settles
    <3>2. /\ onHand' \in [Locations -> Nat] /\ sold' \in [Keys -> Nat]
          /\ \A k \in Keys : k[1] # o => sold'[k] = sold[k]
          /\ Total(sold', Of(o)) = Ordered[o]
          /\ \A l \in Locations : StockInv(l)'
      BY <3>1, SettledStock
    <3>3. order'[o] = "paid"
      BY <1>4, <2>2
    <3>4. Held(Of(o), row') = {}
      BY <1>2, <1>3, <3>1 DEF OwnInv
    <3>5. \A k \in Of(o) : row'[k].st # "reserved"
      BY <3>4 DEF Held
    <3>6. Whole(o, row')
      BY <3>4 DEF Whole
    <3>7. ~AtPayPal(o)'
      BY <3>3 DEF AtPayPal
    <3>8. RowInv(o)'
      BY <3>2, <3>3, <3>5, <3>6, <3>7 DEF RowInv
    <3> QED
      BY <3>2, <3>8
  <2> QED
    BY <2>1, <2>2
<1>6. OrderInv(o)'
  <2>1. attempt'[o] = "captured" => order'[o] = "paid"
    <3>1. tx[o].job \in {"capture", "reconcile"} => tx[o].job # "create"
      OBVIOUS
    <3>2. attempt[o] # "captured"
      BY <1>2 DEF OrderInv
    <3> QED
      BY <1>4, <3>1, <3>2
  <2> QED
    BY <1>3, <2>1, EndedOrder
<1>7. ASSUME NEW p \in Orders PROVE OrderInv(p)' /\ RowInv(p)'
  <2>1. CASE p = o
    BY <1>5, <1>6, <2>1
  <2>2. CASE p # o
    <3>1. \A k \in Of(p) : k \in Keys /\ k[1] # o
      BY <2>2, KeySets DEF Of
    <3>2. Whole(p, row') /\ \A k \in Of(p) : Untouched(k, row'[k])
      BY <1>2, <1>3, <3>1 DEF RowsOf
    <3>3. \A k \in Of(p) : sold'[k] = sold[k]
      BY <1>5, <3>1
    <3> QED
      BY <1>1, <1>3, <1>4, <2>2, <3>2, <3>3, OtherKept
  <2> QED
    BY <2>1, <2>2
<1>8. row' \in [Keys -> Rows]
  BY <1>2, <1>3
<1> QED
  BY <1>1, <1>3, <1>4, <1>5, <1>7, <1>8, Committed

\* A release of an order that is not paid leaves it nothing, and the others theirs.
LEMMA GivenBack ==
  ASSUME StockedInv, NEW w \in Workers, InKernel(w), NEW o \in Orders, order[o] # "paid",
         NEW N, N = Release(kernel.rows, Releasable(o, kernel.rows))
  PROVE  /\ N \in [Keys -> Rows] /\ Quantities(N) = Quantities(kernel.rows)
         /\ \A p \in Orders : Whole(p, N)
         /\ \A k \in Of(o) : N[k].st # "reserved" /\ N[k].st # "confirmed"
         /\ Held(Of(o), N) = {}
         /\ \A k \in Keys : k[1] # o => N[k] = kernel.rows[k]
         /\ \A l \in Locations : Held(Kept(l), N) \subseteq Held(Kept(l), kernel.rows)
<1> DEFINE R == kernel.rows
           S == Releasable(o, R)
<1>1. R \in [Keys -> Rows] /\ \A p \in Orders : Whole(p, R)
  <2>1. kernel.rows \in [Keys -> Rows] /\ RowsOf(w)
    BY Holder
  <2> QED
    BY <2>1 DEF RowsOf
<1>2. \A k \in Of(o) : sold[k] = 0
  BY DEF StockedInv, RowInv
<1>3. S = {k \in Of(o) : R[k].st \in {"reserved", "confirmed"}}
  BY <1>2 DEF Releasable
<1>4. Of(o) \subseteq Keys /\ S \subseteq Of(o) /\ S \subseteq Keys
  BY <1>3, KeySets
<1> HIDE DEF S, R
<1>5. /\ N \in [Keys -> Rows] /\ Quantities(N) = Quantities(R)
      /\ \A k \in S : N[k].st = "released"
      /\ \A k \in Keys \ S : N[k] = R[k]
  BY <1>1, <1>4, Released DEF S, R
<1>6. \A k \in Of(o) : N[k].st # "reserved" /\ N[k].st # "confirmed"
  <2> TAKE k \in Of(o)
  <2>1. CASE k \in S
    BY <1>5, <2>1
  <2>2. CASE k \notin S
    BY <1>3, <1>4, <1>5, <2>2
  <2> QED
    BY <2>1, <2>2
<1>7. Held(Of(o), N) = {}
  BY <1>6 DEF Held
<1>8. \A k \in Keys : k[1] # o => N[k] = R[k]
  BY <1>4, <1>5 DEF Of
<1>9. ASSUME NEW p \in Orders PROVE Whole(p, N)
  <2>1. CASE p = o
    BY <1>7, <2>1 DEF Whole
  <2>2. CASE p # o
    <3>1. \A k \in Of(p) : k \in Keys /\ k[1] # o
      BY <2>2, KeySets DEF Of
    <3>2. \A k \in Of(p) : N[k] = R[k]
      BY <1>8, <3>1
    <3> QED
      BY <1>1, <1>5, <3>2, WholeSame
  <2> QED
    BY <2>1, <2>2
<1>10. ASSUME NEW l \in Locations PROVE Held(Kept(l), N) \subseteq Held(Kept(l), R)
  <2>1. \A k \in Kept(l) : k \in Keys
    BY KeySets
  <2> QED
    BY <1>5, <2>1 DEF Held
<1> QED
  BY <1>5, <1>6, <1>7, <1>8, <1>9, <1>10 DEF R

\* A transaction that has posted nothing commits what is on hold.
LEMMA CommittedRows ==
  ASSUME StockedInv, NEW o \in Orders, InKernel(o), kernel.posted = {}, Leave(o),
         UNCHANGED <<clock, onHand, sold, moved>>,
         order' \in [Orders -> OrderStates], attempt' \in [Orders -> AttemptStates],
         \A p \in Orders \ {o} : order'[p] = order[p] /\ attempt'[p] = attempt[p],
         row' \in [Keys -> Rows], \A p \in Orders : Whole(p, row'),
         Quantities(row') = Quantities(kernel.rows),
         \A k \in Keys : k[1] # o => row'[k] = kernel.rows[k],
         \A l \in Locations : Held(Kept(l), row') \subseteq Held(Kept(l), kernel.rows),
         RowInv(o)', attempt'[o] = "captured" => order'[o] = "paid"
  PROVE  StockedInv'
<1>1. o \in Workers /\ RowsOf(o) /\ kernel.rows \in [Keys -> Rows]
  BY Holder DEF Workers
<1>2. onHand \in [Locations -> Nat] /\ sold \in [Keys -> Nat]
  BY DEF StockedInv, Types
<1>3. ASSUME NEW p \in Orders PROVE OrderInv(p)' /\ RowInv(p)'
  <2>1. CASE p = o
    BY <2>1, EndedOrder
  <2>2. CASE p # o
    <3>1. \A k \in Of(p) : k \in Keys /\ k[1] # o
      BY <2>2, KeySets DEF Of
    <3>2. \A k \in Of(p) : Untouched(k, row'[k])
      BY <1>1, <3>1 DEF RowsOf
    <3> QED
      BY <1>1, <2>2, <3>2, OtherKept
  <2> QED
    BY <2>1, <2>2
<1>4. ASSUME NEW l \in Locations PROVE StockInv(l)'
  <2> DEFINE Q == Quantities(kernel.rows)
             A == Held(Kept(l), row')
             B == Held(Kept(l), kernel.rows)
             a == Total(Q, A)
             b == Total(Q, B)
  <2>1. Sales(o) = {}
    BY DEF Sales
  <2>2. B \cup (Sales(o) \cap Kept(l)) = B
    BY <2>1
  <2>3. b + SoldAt(l) <= Stock[l]
    BY <1>1, <2>2 DEF RowsOf
  <2>4. IsFiniteSet(B) /\ \A k \in B : Q[k] \in Nat
    <3>1. IsFiniteSet(Kept(l)) /\ B \subseteq Kept(l) /\ Kept(l) \subseteq Keys
      BY KeySets DEF Held
    <3> HIDE DEF B
    <3> QED
      BY <1>1, <3>1, FS_Subset, RowFacts
  <2>5. A \subseteq B
    OBVIOUS
  <2>6. StockInv(l)
    BY DEF StockedInv
  <2> HIDE DEF A, B, Q
  <2>7. a <= b /\ b \in Nat
    BY <2>4, <2>5, UnitsFinite, TotalLess
  <2>8. a \in Nat
    <3>1. IsFiniteSet(A) /\ \A k \in A : Q[k] \in Nat
      BY <2>4, <2>5, FS_Subset
    <3> QED
      BY <3>1, UnitsFinite
  <2>9. SoldAt(l) \in Nat /\ Stock[l] \in Nat
    <3>1. SoldAt(l) \in Nat
      BY <1>1, SweptRowsOf
    <3> QED
      BY <3>1, ReservationsAssumption DEF ReservationsAssumption
  <2> HIDE DEF a, b
  <2>10. a + SoldAt(l) <= Stock[l]
    BY <2>3, <2>7, <2>8, <2>9, SMT
  <2>11. Total(Quantities(row'), Held(Kept(l), row')) = a
    BY DEF a, Q, A
  <2>12. onHand'[l] = onHand[l] /\ moved'[l] = moved[l] /\ SoldAt(l)' = SoldAt(l)
    BY DEF SoldAt
  <2> QED
    BY <2>6, <2>10, <2>11, <2>12 DEF StockInv
<1> QED
  BY <1>1, <1>2, <1>3, <1>4, Committed

\* An order that has nothing of the stock any more.
LEMMA Nothing ==
  ASSUME StockedInv, NEW o \in Orders, order[o] # "paid", order'[o] # "paid",
         Whole(o, row'), \A k \in Of(o) : row'[k].st # "reserved" /\ row'[k].st # "confirmed",
         \A k \in Of(o) : sold'[k] = sold[k],
         attempt'[o] \notin {"created", "review"}
  PROVE  RowInv(o)'
<1>1. \A k \in Of(o) : sold'[k] = 0
  BY DEF StockedInv, RowInv
<1>2. ~AtPayPal(o)'
  BY DEF AtPayPal
<1> QED
  BY <1>1, <1>2 DEF RowInv

LEMMA CheckoutAnsweredKeeps ==
  ASSUME StockedInv, NEW o \in Orders, CheckoutAnswered(o)
  PROVE  StockedInv'
<1> DEFINE R == kernel.rows
           N == Release(R, Releasable(o, R))
<1>1. o \in Workers /\ InKernel(o) /\ tx[o].step = "provider" /\ Types
  BY DEF Workers, InKernel, CheckoutAnswered, At, StockedInv
<1>2. /\ OwnInv(o) /\ RowsOf(o) /\ order[o] # "paid" /\ R \in [Keys -> Rows] /\ RowInv(o)
  BY <1>1, Holder DEF StockedInv
<1>3. kernel.posted = {} /\ Held(Of(o), R) # {} /\ \A k \in Of(o) : R[k].st # "confirmed"
  BY <1>1, <1>2 DEF OwnInv, Reserved
<1>4. ASSUME NEW rows, NEW state \in {"created", "review", "failed"}, Commit(o, rows, state)
      PROVE  /\ row' = rows /\ Leave(o) /\ UNCHANGED <<clock, order, onHand, sold, moved>>
             /\ order' \in [Orders -> OrderStates] /\ attempt' \in [Orders -> AttemptStates]
             /\ attempt'[o] = state
             /\ \A p \in Orders \ {o} : order'[p] = order[p] /\ attempt'[p] = attempt[p]
  BY <1>1, <1>4 DEF Commit, Types, AttemptStates
<1>5. ASSUME NEW state \in {"created", "review"}, Commit(o, R, state)
      PROVE  StockedInv'
  <2> HIDE DEF R
  <2>1. /\ row' = R /\ Leave(o) /\ UNCHANGED <<clock, order, onHand, sold, moved>>
        /\ order' \in [Orders -> OrderStates] /\ attempt' \in [Orders -> AttemptStates]
        /\ attempt'[o] = state
        /\ \A p \in Orders \ {o} : order'[p] = order[p] /\ attempt'[p] = attempt[p]
    BY <1>4, <1>5
  <2>2. \A p \in Orders : Whole(p, row')
    BY <1>2, <2>1 DEF RowsOf, R
  <2>3. \A k \in Of(o) : sold[k] = 0
    BY <1>2 DEF RowInv
  <2>4. Protected(o)'
    BY <1>5, <2>1 DEF Protected, Unresolved
  <2>5. RowInv(o)'
    BY <1>2, <1>3, <2>1, <2>2, <2>3, <2>4 DEF RowInv
  <2>6. Quantities(row') = Quantities(kernel.rows) /\ row' = kernel.rows
    BY <2>1 DEF R
  <2>7. attempt'[o] # "captured" /\ row' \in [Keys -> Rows]
    BY <1>2, <1>5, <2>1
  <2> QED
    BY <1>1, <1>3, <2>1, <2>2, <2>5, <2>6, <2>7, CommittedRows
<1>6. ASSUME Commit(o, N, "failed") PROVE StockedInv'
  <2>1. /\ N \in [Keys -> Rows] /\ Quantities(N) = Quantities(kernel.rows)
        /\ \A p \in Orders : Whole(p, N)
        /\ \A k \in Of(o) : N[k].st # "reserved" /\ N[k].st # "confirmed"
        /\ \A k \in Keys : k[1] # o => N[k] = kernel.rows[k]
        /\ \A l \in Locations : Held(Kept(l), N) \subseteq Held(Kept(l), kernel.rows)
    BY <1>1, <1>2, GivenBack
  <2> HIDE DEF N
  <2>2. /\ row' = N /\ Leave(o) /\ UNCHANGED <<clock, order, onHand, sold, moved>>
        /\ order' \in [Orders -> OrderStates] /\ attempt' \in [Orders -> AttemptStates]
        /\ attempt'[o] = "failed"
        /\ \A p \in Orders \ {o} : order'[p] = order[p] /\ attempt'[p] = attempt[p]
    BY <1>4, <1>6
  <2>3. RowInv(o)'
    BY <1>2, <2>1, <2>2, Nothing
  <2> QED
    BY <1>1, <1>3, <2>1, <2>2, <2>3, CommittedRows
<1>7. ASSUME Abort(o) PROVE StockedInv'
  BY <1>1, <1>7, AbortKeeps
<1> QED
  BY <1>5, <1>6, <1>7 DEF CheckoutAnswered

LEMMA GiveBackKeeps ==
  ASSUME StockedInv, NEW o \in Orders, GiveBack(o)
  PROVE  StockedInv'
<1> DEFINE N == Release(kernel.rows, Releasable(o, kernel.rows))
           refused == IF tx[o].job = "cancel" THEN Unsafe(o) ELSE order[o] = "paid"
           state == IF tx[o].job = "cancel" THEN attempt[o] ELSE "failed"
           status == IF tx[o].job \in {"cancel", "abandon"} THEN "cancelled" ELSE order[o]
<1>1. o \in Workers /\ InKernel(o) /\ tx[o].step = "release" /\ Types
  BY DEF Workers, InKernel, GiveBack, At, StockedInv
<1>2. /\ OwnInv(o) /\ order[o] # "paid" /\ OrderInv(o)
  BY <1>1, Holder DEF StockedInv
<1>3. kernel.posted = {}
  BY <1>1, <1>2 DEF OwnInv
<1>4. CASE Abort(o)
  BY <1>1, <1>4, AbortKeeps
<1>5. CASE ~Abort(o)
  <2>1. /\ ~refused /\ row' = N /\ Leave(o)
        /\ attempt' = [attempt EXCEPT ![o] = state] /\ order' = [order EXCEPT ![o] = status]
        /\ UNCHANGED <<clock, onHand, sold, moved>>
    BY <1>1, <1>5 DEF GiveBack, Types
  <2>2. /\ N \in [Keys -> Rows] /\ Quantities(N) = Quantities(kernel.rows)
        /\ \A p \in Orders : Whole(p, N)
        /\ \A k \in Of(o) : N[k].st # "reserved" /\ N[k].st # "confirmed"
        /\ \A k \in Keys : k[1] # o => N[k] = kernel.rows[k]
        /\ \A l \in Locations : Held(Kept(l), N) \subseteq Held(Kept(l), kernel.rows)
    BY <1>1, <1>2, GivenBack
  <2> HIDE DEF N
  <2>3. state \in AttemptStates /\ state \notin {"created", "review", "captured"}
    BY <1>1, <1>2, <2>1 DEF Types, AttemptStates, Unsafe, Protected, Unresolved, OrderInv
  <2>4. status \in OrderStates /\ status # "paid"
    BY <1>1, <1>2 DEF Types, OrderStates
  <2> HIDE DEF state, status
  <2>5. /\ order' \in [Orders -> OrderStates] /\ attempt' \in [Orders -> AttemptStates]
        /\ attempt'[o] = state /\ order'[o] = status
        /\ \A p \in Orders \ {o} : order'[p] = order[p] /\ attempt'[p] = attempt[p]
    BY <1>1, <2>1, <2>3, <2>4 DEF Types
  <2>6. RowInv(o)'
    BY <1>2, <2>1, <2>2, <2>3, <2>4, <2>5, Nothing
  <2> QED
    BY <1>1, <1>3, <2>1, <2>2, <2>3, <2>5, <2>6, CommittedRows
<1> QED
  BY <1>4, <1>5

-----------------------------------------------------------------------------
(* The archive of stale orders.                                            *)

\* Part of what is on hold is no more than all of it.
LEMMA LessHeld ==
  ASSUME NEW R \in [Keys -> Rows], NEW l \in Locations, NEW A, A \subseteq Held(Kept(l), R)
  PROVE  /\ Total(Quantities(R), A) \in Nat /\ Total(Quantities(R), Held(Kept(l), R)) \in Nat
         /\ Total(Quantities(R), A) <= Total(Quantities(R), Held(Kept(l), R))
<1> DEFINE B == Held(Kept(l), R)
<1>1. IsFiniteSet(B) /\ \A k \in B : Quantities(R)[k] \in Nat
  <2>1. IsFiniteSet(Kept(l)) /\ B \subseteq Kept(l) /\ Kept(l) \subseteq Keys
    BY KeySets DEF Held
  <2> HIDE DEF B
  <2> QED
    BY <2>1, FS_Subset, RowFacts
<1> HIDE DEF B
<1>2. IsFiniteSet(A) /\ A \subseteq B
  BY <1>1, FS_Subset DEF B
<1>3. \A k \in A : Quantities(R)[k] \in Nat
  BY <1>1, <1>2
<1>4. Total(Quantities(R), A) \in Nat /\ Total(Quantities(R), B) \in Nat
        /\ Total(Quantities(R), A) <= Total(Quantities(R), B)
  BY <1>1, <1>2, <1>3, UnitsFinite, TotalLess
<1> QED
  BY <1>4 DEF B

\* What is given back of an order that nobody may still charge was on hold for it.
LEMMA UntouchedGiven ==
  ASSUME StockedInv, NEW w \in Workers, InKernel(w), NEW o \in Orders, o # w,
         order[o] # "paid", ~Protected(o), NEW k \in Of(o)
  PROVE  Untouched(k, Release(kernel.rows, Releasable(o, kernel.rows))[k])
<1> DEFINE R == kernel.rows
           S == Releasable(o, R)
           n == Release(R, S)[k]
<1>1. k \in Keys /\ k[1] = o /\ Of(o) \subseteq Keys
  BY KeySets DEF Of
<1>2. R \in [Keys -> Rows] /\ Untouched(k, R[k])
  <2>1. kernel.rows \in [Keys -> Rows] /\ RowsOf(w)
    BY Holder
  <2> QED
    BY <1>1, <2>1 DEF RowsOf
<1>3. row[k] \in Rows /\ row[k].st # "confirmed"
  <2>1. row \in [Keys -> Rows] /\ RowInv(o)
    BY DEF StockedInv, Types
  <2> QED
    BY <1>1, <2>1 DEF RowInv
<1>4. S \subseteq Keys /\ \A j \in S : R[j].st \in {"reserved", "confirmed"}
  BY <1>1 DEF Releasable
<1>5. ~AtPayPal(k[1])
  BY <1>1 DEF AtPayPal, Protected, Unresolved
<1> HIDE DEF R, S
<1>6. /\ k \in S => n = [R[k] EXCEPT !.st = "released"]
      /\ k \notin S => n = R[k]
  BY <1>1, <1>2, <1>4, Released
<1> HIDE DEF n
<1>7. CASE k \notin S
  <2>1. Untouched(k, n)
    BY <1>2, <1>6, <1>7
  <2> QED
    BY <2>1 DEF n, R, S
<1>8. CASE k \in S
  <2>1. R[k].st \in {"reserved", "confirmed"}
    BY <1>4, <1>8
  <2>2. R[k] = row[k]
    BY <1>2, <1>3, <2>1 DEF Untouched, Rows
  <2>3. row[k].st = "reserved" /\ n = [row[k] EXCEPT !.st = "released"]
    BY <1>3, <1>6, <1>8, <2>1, <2>2
  <2>4. Untouched(k, n)
    BY <1>5, <2>3 DEF Untouched
  <2> QED
    BY <2>4 DEF n, R, S
<1> QED
  BY <1>7, <1>8

LEMMA ArchiveNextKeeps == ASSUME StockedInv, ArchiveNext PROVE StockedInv'
<1> DEFINE o == Head(tx[Archiver].todo)
           R == kernel.rows
           N == Release(R, Releasable(o, R))
           t == [tx[Archiver] EXCEPT !.todo = Tail(@)]
           K == [kernel EXCEPT !.rows = N, !.done = @ \cup {o}]
<1>1. /\ Archiver \in Workers /\ InKernel(Archiver) /\ tx[Archiver].step = "archive"
      /\ tx[Archiver].todo # <<>> /\ Types /\ JobInv(Archiver) /\ Archiver \notin Orders
  BY ReservationsAssumption
     DEF Workers, InKernel, ArchiveNext, At, StockedInv, ReservationsAssumption
<1>2. tx[Archiver] \in Txs /\ tx[Archiver].todo \in Seq(Orders)
  BY <1>1, TxFields
<1>3. o \in Orders /\ Tail(tx[Archiver].todo) \in Seq(Orders)
  <2>1. \A s \in Seq(Orders) : s # <<>> => Head(s) \in Orders /\ Tail(s) \in Seq(Orders)
    BY HeadTailProperties
  <2> QED
    BY <1>1, <1>2, <2>1
<1>4. /\ kernel \in Kernels /\ RowsOf(Archiver) /\ ArchivesInv /\ R \in [Keys -> Rows]
      /\ kernel.posted \subseteq kernel.locked
  <2>1. kernel.posted \subseteq kernel.locked
    BY DEF StockedInv, HolderInv
  <2> QED
    BY <1>1, <2>1, Holder
<1>5. CASE Abort(Archiver)
  BY <1>1, <1>5, AbortKeeps
<1>6. CASE ~Abort(Archiver)
  <2>1. order[o] # "paid" /\ ~Protected(o) /\ kernel' = K /\ tx' = [tx EXCEPT ![Archiver] = t]
          /\ UNCHANGED <<clock, order, attempt, row, onHand, sold, moved>>
    BY <1>1, <1>6 DEF ArchiveNext, Unsafe, Data, Types
  <2>2. /\ N \in [Keys -> Rows] /\ Quantities(N) = Quantities(kernel.rows)
        /\ \A p \in Orders : Whole(p, N)
        /\ Held(Of(o), N) = {}
        /\ \A k \in Keys : k[1] # o => N[k] = kernel.rows[k]
        /\ \A l \in Locations : Held(Kept(l), N) \subseteq Held(Kept(l), kernel.rows)
    BY <1>1, <1>3, <2>1, GivenBack
  <2>3. ASSUME NEW k \in Keys PROVE Untouched(k, N[k])
    <3>1. CASE k[1] = o
      <4>1. k \in Of(o)
        BY <3>1 DEF Of, Keys
      <4> QED
        BY <1>1, <1>3, <2>1, <4>1, UntouchedGiven
    <3>2. CASE k[1] # o
      <4>1. k[1] # Archiver
        BY <1>1 DEF Keys
      <4> QED
        BY <1>4, <2>2, <3>2, <4>1 DEF RowsOf
    <3> QED
      BY <3>1, <3>2
  <2>4. ASSUME NEW p \in kernel.done PROVE order[p] # "paid" /\ Held(Of(p), N) = {}
    <3>1. order[p] # "paid" /\ Held(Of(p), R) = {} /\ p \in Orders
      BY <1>4 DEF ArchivesInv, Kernels
    <3>2. CASE p = o
      BY <2>2, <3>1, <3>2
    <3>3. CASE p # o
      <4>1. \A k \in Of(p) : k \in Keys /\ k[1] # o
        BY <3>1, <3>3, KeySets DEF Of
      <4>2. \A k \in Of(p) : N[k] = kernel.rows[k]
        BY <2>2, <4>1
      <4> HIDE DEF N
      <4> QED
        BY <3>1, <4>2 DEF Held
    <3> QED
      BY <3>2, <3>3
  <2> HIDE DEF N, o
  <2>5. K \in Kernels /\ K.rows = N /\ K.posted = kernel.posted /\ K.locked = kernel.locked
          /\ K.by = kernel.by /\ K.done = kernel.done \cup {o}
    BY <1>3, <1>4, <2>2 DEF Kernels
  <2> HIDE DEF K
  <2>6. t \in Txs /\ t.step = "archive" /\ t.job = tx[Archiver].job
    BY <1>1, <1>2, <1>3 DEF Txs
  <2> HIDE DEF t
  <2>7. tx'[Archiver] = t
    BY <1>1, <2>1, <2>6, OneTx
  <2>8. InKernel(Archiver)' /\ JobInv(Archiver)'
    <3>1. tx[Archiver].job # "none"
      BY <1>1, TxFields
    <3>2. tx'[Archiver].step = "archive" /\ tx'[Archiver].job = tx[Archiver].job
      BY <2>6, <2>7
    <3> QED
      BY <1>1, <3>1, <3>2 DEF InKernel, JobInv
  <2>9. RowsOf(Archiver)'
    <3>1. kernel.posted = {}
      BY <1>4 DEF ArchivesInv
    <3>2. Sales(Archiver)' = {} /\ Sales(Archiver) = {}
      BY <2>1, <2>5, <3>1 DEF Sales
    <3>3. \A k \in Keys : AtPayPal(k[1])' <=> AtPayPal(k[1])
      BY <2>1 DEF AtPayPal
    <3>4. \A k \in Keys : k[1] # Archiver => Untouched(k, kernel.rows[k])'
      BY <2>1, <2>3, <2>5, <3>3 DEF Untouched
    <3>5. kernel'.rows = N
      BY <2>1, <2>5
    <3>6. ASSUME NEW l \in Locations
          PROVE  Total(Quantities(kernel'.rows),
                       Held(Kept(l), kernel'.rows) \cup (Sales(Archiver)' \cap Kept(l)))
                   + SoldAt(l)' <= Stock[l]
      <4> DEFINE a == Total(Quantities(R), Held(Kept(l), N))
                 b == Total(Quantities(R), Held(Kept(l), R))
      <4>1. a \in Nat /\ b \in Nat /\ a <= b
        BY <1>4, <2>2, LessHeld
      <4>2. Held(Kept(l), R) \cup (Sales(Archiver) \cap Kept(l)) = Held(Kept(l), R)
        BY <3>2
      <4>3. b + SoldAt(l) <= Stock[l]
        BY <1>4, <4>2 DEF RowsOf
      <4>4. SoldAt(l) \in Nat /\ Stock[l] \in Nat
        <5>1. IsFiniteSet(Kept(l)) /\ Kept(l) \subseteq Keys
          BY KeySets
        <5>2. \A k \in Kept(l) : sold[k] \in Nat
          BY <1>1, <5>1 DEF Types
        <5>3. SoldAt(l) \in Nat
          BY <5>1, <5>2, UnitsFinite DEF SoldAt
        <5> QED
          BY <5>3, ReservationsAssumption DEF ReservationsAssumption
      <4>5. SoldAt(l)' = SoldAt(l)
        BY <2>1 DEF SoldAt
      <4>6. Held(Kept(l), N) \cup (Sales(Archiver)' \cap Kept(l)) = Held(Kept(l), N)
        BY <3>2
      <4>7. Total(Quantities(kernel'.rows),
                  Held(Kept(l), kernel'.rows) \cup (Sales(Archiver)' \cap Kept(l))) = a
        BY <2>2, <3>5, <4>6
      <4> HIDE DEF a, b
      <4>8. a + SoldAt(l) <= Stock[l]
        BY <4>1, <4>3, <4>4, SMT
      <4> QED
        BY <4>5, <4>7, <4>8
    <3>7. \A p \in Orders : Whole(p, kernel'.rows)
      BY <2>2, <3>5
    <3> QED
      BY <3>4, <3>6, <3>7 DEF RowsOf
  <2>10. ArchivesInv'
    <3>1. kernel.posted = {}
      BY <1>4 DEF ArchivesInv
    <3>2. kernel'.rows = N /\ kernel'.posted = {} /\ kernel'.done = kernel.done \cup {o}
      BY <2>1, <2>5, <3>1
    <3>3. \A p \in kernel'.done : order'[p] # "paid" /\ Held(Of(p), N) = {}
      BY <2>1, <2>2, <2>4, <3>2
    <3> QED
      BY <3>2, <3>3 DEF ArchivesInv
  <2>11. kernel' \in Kernels /\ kernel'.by = kernel.by /\ kernel'.posted \subseteq kernel'.locked
    BY <1>4, <2>1, <2>5
  <2> QED
    BY <1>1, <2>1, <2>6, <2>8, <2>9, <2>10, <2>11, Inside
<1> QED
  BY <1>5, <1>6

LEMMA ArchiveCommitsKeeps == ASSUME StockedInv, ArchiveCommits PROVE StockedInv'
<1> DEFINE R == kernel.rows
<1>1. /\ Archiver \in Workers /\ InKernel(Archiver) /\ Types /\ Archiver \notin Orders
  BY ReservationsAssumption
     DEF Workers, InKernel, ArchiveCommits, At, StockedInv, ReservationsAssumption
<1>2. RowsOf(Archiver) /\ ArchivesInv /\ R \in [Keys -> Rows]
  BY <1>1, Holder
<1>3. /\ row' = R /\ Leave(Archiver) /\ UNCHANGED <<clock, attempt, onHand, sold, moved>>
      /\ order' = [o \in Orders |-> IF o \in kernel.done THEN "cancelled" ELSE order[o]]
  BY DEF ArchiveCommits
<1>4. /\ order' \in [Orders -> OrderStates] /\ attempt' \in [Orders -> AttemptStates]
      /\ \A p \in Orders : order'[p] = IF p \in kernel.done THEN "cancelled" ELSE order[p]
  BY <1>1, <1>3 DEF Types, OrderStates
<1>5. /\ onHand' \in [Locations -> Nat] /\ sold' \in [Keys -> Nat] /\ row' \in [Keys -> Rows]
  BY <1>1, <1>2, <1>3 DEF Types
<1> HIDE DEF R
<1>6. ASSUME NEW p \in Orders PROVE OrderInv(p)' /\ RowInv(p)'
  <2>1. \A k \in Of(p) : k \in Keys /\ k[1] = p /\ k[1] # Archiver
    BY <1>1, KeySets DEF Of
  <2>2. Whole(p, row') /\ \A k \in Of(p) : Untouched(k, row'[k])
    BY <1>2, <1>3, <2>1 DEF RowsOf, R
  <2>3. OrderInv(p) /\ RowInv(p) /\ row \in [Keys -> Rows]
    BY DEF StockedInv, Types
  <2>4. CASE p \notin kernel.done
    <3>1. order'[p] = order[p] /\ attempt'[p] = attempt[p]
      BY <1>3, <1>4, <2>4
    <3> QED
      BY <1>1, <1>3, <2>2, <3>1, OtherKept
  <2>5. CASE p \in kernel.done
    <3>1. order[p] # "paid" /\ Held(Of(p), row') = {} /\ order'[p] = "cancelled"
      BY <1>2, <1>3, <1>4, <2>5 DEF ArchivesInv, R
    <3>2. tx'[p].job # "none" => tx'[p] = tx[p]
      BY <1>1, <1>3, Leaves
    <3>3. OrderInv(p)'
      BY <1>3, <2>3, <3>1, <3>2 DEF OrderInv
    <3>4. ASSUME NEW k \in Of(p) PROVE row'[k].st # "reserved" /\ row'[k].st # "confirmed"
      <4>1. row'[k].st # "reserved"
        BY <3>1 DEF Held
      <4>2. row[k].st # "confirmed" /\ row[k] \in Rows
        BY <2>1, <2>3, <3>1 DEF RowInv
      <4>3. Untouched(k, row'[k])
        BY <2>2
      <4> QED
        BY <4>1, <4>2, <4>3 DEF Untouched, Rows
    <3>5. attempt'[p] \notin {"created", "review"}
      <4> SUFFICES ASSUME attempt[p] \in {"created", "review"} PROVE FALSE
        BY <1>3
      <4>1. AtPayPal(p) /\ Held(Of(p), row) # {}
        BY <2>3, <3>1 DEF AtPayPal, RowInv
      <4>2. \A k \in Of(p) : row'[k] = row[k]
        BY <2>1, <2>2, <4>1 DEF Untouched
      <4> QED
        BY <3>1, <4>1, <4>2 DEF Held
    <3>6. RowInv(p)'
      BY <1>3, <2>2, <3>1, <3>4, <3>5, Nothing
    <3> QED
      BY <3>3, <3>6
  <2> QED
    BY <2>4, <2>5
<1>7. ASSUME NEW l \in Locations PROVE StockInv(l)'
  <2>1. Sales(Archiver) = {}
    BY <1>2 DEF Sales, ArchivesInv
  <2>2. Held(Kept(l), R) \cup (Sales(Archiver) \cap Kept(l)) = Held(Kept(l), R)
    BY <2>1
  <2>3. Total(Quantities(R), Held(Kept(l), R)) + SoldAt(l) <= Stock[l]
    BY <1>2, <2>2 DEF RowsOf, R
  <2>4. StockInv(l)
    BY DEF StockedInv
  <2> QED
    BY <1>3, <2>3, <2>4 DEF StockInv, SoldAt
<1> QED
  BY <1>1, <1>3, <1>4, <1>5, <1>6, <1>7, Committed

-----------------------------------------------------------------------------
(* What takes none of the locks, and the clock.                            *)

LEMMA ReconcileInventoryKeeps == ASSUME StockedInv, ReconcileInventory PROVE StockedInv'
<1> USE DEF StockedInv
<1>1. /\ kernel.by = {} /\ row' = Sweep(row, clock)
      /\ UNCHANGED <<clock, order, attempt, onHand, sold, moved, tx, kernel>>
  BY DEF ReconcileInventory
<1>2. row \in [Keys -> Rows] /\ clock \in Nat
  BY ReservationsAssumption DEF Types, ReservationsAssumption
<1>3. row' \in [Keys -> Rows] /\ Quantities(row') = Quantities(row)
  BY <1>1, <1>2, SweptTypes
<1>4. Types'
  BY <1>1, <1>3 DEF Types
<1>5. HolderInv' /\ KernelInv' /\ \A w \in Workers : JobInv(w)'
  BY <1>1 DEF HolderInv, InKernel, KernelInv, JobInv
<1>6. ASSUME NEW o \in Orders PROVE OrderInv(o)' /\ RowInv(o)'
  <2>1. Mild(o) /\ RowInv(o) /\ OrderInv(o)
    BY <1>1, MildSame
  <2>2. Whole(o, row')
    BY <1>1, <1>2, <2>1, SweptWhole DEF RowInv
  <2>3. \A k \in Of(o) : k \in Keys
    BY KeySets
  <2>4. \A k \in Keys : Untouched(k, row[k])
    BY DEF Untouched
  <2>5. \A k \in Of(o) : Untouched(k, row'[k])
    BY <1>1, <1>2, <2>3, <2>4, UntouchedSwept
  <2>6. RowInv(o)'
    BY <1>1, <1>2, <2>1, <2>2, <2>5, RowKept
  <2>7. OrderInv(o)'
    BY <1>1, <2>1, OrderKept
  <2> QED
    BY <2>6, <2>7
<1>7. ASSUME NEW l \in Locations PROVE StockInv(l)'
  <2> DEFINE a == Total(Quantities(row'), Held(Kept(l), row'))
             b == Total(Quantities(row), Held(Kept(l), row))
  <2>1. Expired(row, clock) \subseteq Keys
    BY <1>2, SweptTypes
  <2>2. a \in Nat /\ b \in Nat /\ a <= b
    BY <1>1, <1>2, <2>1, StockReleased DEF Sweep
  <2>3. /\ onHand[l] = Stock[l] + moved[l] - SoldAt(l) /\ b + SoldAt(l) <= Stock[l]
    BY DEF StockInv
  <2>4. SoldAt(l) \in Nat /\ Stock[l] \in Nat
    <3>1. IsFiniteSet(Kept(l)) /\ Kept(l) \subseteq Keys
      BY KeySets
    <3>2. \A k \in Kept(l) : sold[k] \in Nat
      BY <3>1 DEF Types
    <3>3. SoldAt(l) \in Nat
      BY <3>1, <3>2, UnitsFinite DEF SoldAt
    <3> QED
      BY <3>3, ReservationsAssumption DEF ReservationsAssumption
  <2>5. onHand'[l] = onHand[l] /\ moved'[l] = moved[l] /\ SoldAt(l)' = SoldAt(l)
    BY <1>1 DEF SoldAt
  <2>6. a + SoldAt(l) <= Stock[l]
    <3> HIDE DEF a, b, StockedInv
    <3> QED
      BY <2>2, <2>3, <2>4, SMT
  <2>7. Total(Quantities(row'), Held(Kept(l), row')) = a
    OBVIOUS
  <2> HIDE DEF a, b
  <2> QED
    BY <2>3, <2>5, <2>6, <2>7 DEF StockInv
<1> QED
  BY <1>4, <1>5, <1>6, <1>7

LEMMA MoveKeeps ==
  ASSUME StockedInv, NEW l \in Locations, NEW delta \in {-1, 1}, Move(l, delta)
  PROVE  StockedInv'
<1> USE DEF StockedInv
<1>1. /\ l \notin kernel.locked /\ onHand[l] + delta >= 0
      /\ moved[l] + delta \in -MaxDecreases .. 0
      /\ onHand' = [onHand EXCEPT ![l] = @ + delta] /\ moved' = [moved EXCEPT ![l] = @ + delta]
      /\ UNCHANGED <<clock, order, attempt, row, sold, tx, kernel>>
  BY DEF Move
<1>2. onHand \in [Locations -> Nat] /\ moved \in [Locations -> -MaxDecreases .. 0]
        /\ MaxDecreases \in Nat
  BY ReservationsAssumption DEF Types, ReservationsAssumption
<1>3. onHand' \in [Locations -> Nat] /\ moved' \in [Locations -> -MaxDecreases .. 0]
  <2>1. onHand[l] + delta \in Nat
    BY <1>1, <1>2
  <2> QED
    BY <1>1, <1>2, <2>1
<1>4. Types'
  BY <1>1, <1>3 DEF Types
<1>5. ASSUME NEW o \in Orders PROVE OrderInv(o)' /\ RowInv(o)' /\ Mild(o)
  <2>1. Mild(o)
    BY <1>1, MildSame
  <2> QED
    BY <1>1, <2>1 DEF OrderInv, RowInv, AtPayPal, Protected
<1>6. KernelInv'
  <2>1. kernel.posted \subseteq kernel.locked
    BY DEF HolderInv
  <2>2. \A m \in kernel.posted : onHand'[m] = onHand[m]
    <3>1. kernel.posted \subseteq Locations
      BY DEF Types, Kernels
    <3> QED
      BY <1>1, <1>2, <2>1, <3>1
  <2> QED
    BY <1>1, <1>5, <2>2, KernelKept
<1>7. ASSUME NEW m \in Locations PROVE StockInv(m)'
  <2>1. SoldAt(m) \in Nat /\ Stock[m] \in Nat
    <3>1. IsFiniteSet(Kept(m)) /\ Kept(m) \subseteq Keys
      BY KeySets
    <3>2. \A k \in Kept(m) : sold[k] \in Nat
      BY <3>1 DEF Types
    <3>3. SoldAt(m) \in Nat
      BY <3>1, <3>2, UnitsFinite DEF SoldAt
    <3> QED
      BY <3>3, ReservationsAssumption DEF ReservationsAssumption
  <2>2. onHand[m] = Stock[m] + moved[m] - SoldAt(m)
    BY DEF StockInv
  <2>3. onHand[m] \in Nat /\ moved[m] \in Int
    BY <1>2
  <2>4. SoldAt(m)' = SoldAt(m)
    BY <1>1 DEF SoldAt
  <2>5. \/ onHand'[m] = onHand[m] /\ moved'[m] = moved[m]
        \/ onHand'[m] = onHand[m] + delta /\ moved'[m] = moved[m] + delta
    BY <1>1, <1>2
  <2>6. onHand'[m] = Stock[m] + moved'[m] - SoldAt(m)
    <3> HIDE DEF StockedInv
    <3> QED
      BY <2>1, <2>2, <2>3, <2>5, SMT
  <2> QED
    BY <1>1, <2>4, <2>6 DEF StockInv
<1>8. HolderInv' /\ \A w \in Workers : JobInv(w)'
  BY <1>1 DEF HolderInv, InKernel, JobInv
<1> QED
  BY <1>4, <1>5, <1>6, <1>7, <1>8

\* No part of the invariant reads the clock but its bounds.
LEMMA TickKeeps == ASSUME StockedInv, Tick PROVE StockedInv'
<1> USE DEF StockedInv
<1>1. /\ clock < Horizon /\ clock' = clock + 1
      /\ UNCHANGED <<order, attempt, row, onHand, sold, moved, tx, kernel>>
  BY DEF Tick
<1>2. Types'
  BY <1>1, ReservationsAssumption DEF Types, ReservationsAssumption
<1>3. ASSUME NEW o \in Orders PROVE OrderInv(o)' /\ RowInv(o)' /\ Mild(o)
  <2>1. Mild(o)
    BY <1>1, MildSame
  <2> QED
    BY <1>1, <2>1 DEF OrderInv, RowInv, AtPayPal, Protected
<1>4. KernelInv'
  BY <1>1, <1>3, KernelKept
<1>5. HolderInv' /\ (\A w \in Workers : JobInv(w)') /\ \A l \in Locations : StockInv(l)'
  BY <1>1 DEF HolderInv, InKernel, JobInv, StockInv, SoldAt
<1> QED
  BY <1>2, <1>3, <1>4, <1>5

-----------------------------------------------------------------------------
(* The invariant.                                                          *)

LEMMA StockedInit == Init => StockedInv
<1> SUFFICES ASSUME Init PROVE StockedInv
  OBVIOUS
<1>1. /\ clock = 0 /\ order = [o \in Orders |-> "absent"] /\ attempt = [o \in Orders |-> "none"]
      /\ row = [k \in Keys |-> NoRow] /\ onHand = Stock /\ sold = [k \in Keys |-> 0]
      /\ moved = [l \in Locations |-> 0] /\ tx = [w \in Workers |-> NoTx] /\ kernel = Idle
  BY DEF Init
<1>2. NoRow \in Rows /\ NoRow.st = "none"
  BY DEF NoRow, Rows
<1>3. row \in [Keys -> Rows]
  BY <1>1, <1>2
<1>4. Idle \in Kernels /\ Idle.by = {} /\ Idle.posted = {}
  <2>1. [k \in Keys |-> NoRow] \in [Keys -> Rows]
    BY <1>2
  <2> QED
    BY <2>1 DEF Idle, Kernels
<1>5. tx \in [Workers -> Txs]
  <2>1. NoTx \in Txs
    BY EmptySeq DEF NoTx, Txs
  <2> QED
    BY <1>1, <2>1
<1>6. /\ Stock \in [Locations -> Nat] /\ Horizon \in Nat /\ MaxDecreases \in Nat
  BY ReservationsAssumption DEF ReservationsAssumption
<1>7. Types
  <2>1. clock \in 0 .. Horizon
    BY <1>1, <1>6
  <2>2. order \in [Orders -> OrderStates] /\ attempt \in [Orders -> AttemptStates]
    BY <1>1 DEF OrderStates, AttemptStates
  <2>3. onHand \in [Locations -> Nat] /\ sold \in [Keys -> Nat]
    BY <1>1, <1>6
  <2>4. moved \in [Locations -> -MaxDecreases .. 0]
    BY <1>1, <1>6
  <2> QED
    BY <1>1, <1>3, <1>4, <1>5, <2>1, <2>2, <2>3, <2>4 DEF Types
<1>8. \A w \in Workers : JobInv(w) /\ ~InKernel(w)
  BY <1>1 DEF JobInv, InKernel, NoTx, Jobs, Settling, Releasing
<1>9. HolderInv /\ KernelInv
  BY <1>1, <1>4, <1>8 DEF HolderInv, KernelInv
<1>10. \A k \in Keys : row[k].st = "none" /\ sold[k] = 0
  BY <1>1, <1>2
<1>11. ASSUME NEW S, S \subseteq Keys PROVE Held(S, row) = {}
  BY <1>10, <1>11 DEF Held
<1>12. ASSUME NEW o \in Orders PROVE OrderInv(o) /\ RowInv(o)
  <2>1. order[o] = "absent" /\ attempt[o] = "none" /\ tx[o] = NoTx
    BY <1>1 DEF Workers
  <2>2. OrderInv(o)
    BY <2>1 DEF OrderInv, NoTx
  <2>3. \A k \in Of(o) : row[k].st = "none" /\ sold[k] = 0
    BY <1>10, KeySets
  <2>4. Held(Of(o), row) = {}
    BY <1>11, KeySets
  <2>5. Whole(o, row) /\ ~AtPayPal(o)
    BY <2>1, <2>4 DEF Whole, AtPayPal
  <2> QED
    BY <2>1, <2>2, <2>3, <2>5 DEF RowInv
<1>13. ASSUME NEW l \in Locations PROVE StockInv(l)
  <2>1. Kept(l) \subseteq Keys
    BY KeySets
  <2>2. \A k \in Kept(l) : sold[k] = 0
    BY <1>10, <2>1
  <2>3. SoldAt(l) = 0
    <3>1. Total(sold, Kept(l)) = Total(sold, {})
      BY <2>2, TotalZero
    <3> QED
      BY <3>1, TotalNone DEF SoldAt
  <2>4. Total(Quantities(row), Held(Kept(l), row)) = 0
    BY <1>11, <2>1, TotalNone
  <2>5. onHand[l] = Stock[l] /\ moved[l] = 0 /\ Stock[l] \in Nat
    BY <1>1, <1>6
  <2> QED
    BY <2>3, <2>4, <2>5, SMT DEF StockInv
<1> QED
  BY <1>7, <1>8, <1>9, <1>12, <1>13 DEF StockedInv

LEMMA StockedStep == StockedInv /\ [Next]_vars => StockedInv'
<1> SUFFICES ASSUME StockedInv, [Next]_vars PROVE StockedInv'
  OBVIOUS
<1>1. CASE UNCHANGED vars
  <2>1. UNCHANGED <<clock, order, attempt, row, onHand, sold, moved, tx, kernel>>
    BY <1>1 DEF vars
  <2>2. attempt' \in [Orders -> AttemptStates] /\ \A o \in Orders : Mild(o)
    BY <2>1, MildSame DEF StockedInv, Types
  <2> QED
    BY <2>1, <2>2, AttemptKeeps
<1>2. ASSUME NEW w \in Workers, EnterKernel(w) \/ DeadlockVictim(w) PROVE StockedInv'
  BY <1>2, EnterKernelKeeps, AbortKeeps DEF DeadlockVictim
<1>3. ASSUME NEW o \in Orders, OrderStep(o) PROVE StockedInv'
  <2>1. o \in Workers
    BY DEF Workers
  <2>2. CASE LockRows(o)
    BY <2>2, LockRowsKeeps
  <2>3. CASE CloseoutRefused(o)
    BY <2>1, <2>3, AbortKeeps DEF CloseoutRefused
  <2>4. CASE EnterKernel(o) \/ DeadlockVictim(o)
    BY <1>2, <2>1, <2>4
  <2>5. CASE Reserve(o)
    BY <2>5, ReserveKeeps
  <2>6. CASE Confirm(o)
    BY <2>6, ConfirmKeeps
  <2>7. CASE Finish(o)
    BY <2>7, FinishKeeps
  <2>8. CASE CheckoutAnswered(o)
    BY <2>8, CheckoutAnsweredKeeps
  <2>9. CASE CaptureAnswered(o)
    BY <2>9, CaptureAnsweredKeeps
  <2>10. CASE GiveBack(o)
    BY <2>10, GiveBackKeeps
  <2> QED
    BY <1>3, <2>2, <2>3, <2>4, <2>5, <2>6, <2>7, <2>8, <2>9, <2>10 DEF OrderStep
<1>4. ASSUME NEW o \in Orders,
             \/ \E job \in Jobs : Begin(o, job)
             \/ OrderStep(o) \/ ChargeFound(o) \/ Recheck(o) \/ EditStatus(o)
      PROVE  StockedInv'
  BY <1>3, <1>4, BeginKeeps, ChargeFoundKeeps, EditStatusKeeps
<1>5. CASE BeginArchive \/ ArchiverStep
  <2>1. Archiver \in Workers
    BY DEF Workers
  <2> QED
    BY <1>2, <1>5, <2>1, BeginArchiveKeeps, ArchiveNextKeeps, ArchiveCommitsKeeps DEF ArchiverStep
<1>6. CASE ReconcileInventory
  BY <1>6, ReconcileInventoryKeeps
<1>7. ASSUME NEW l \in Locations, NEW delta \in {-1, 1}, Move(l, delta) PROVE StockedInv'
  BY <1>7, MoveKeeps
<1>8. CASE Tick
  BY <1>8, TickKeeps
<1> QED
  BY <1>1, <1>4, <1>5, <1>6, <1>7, <1>8 DEF Next

\* The invariant holds of every behaviour: of the data the kernel's holder has
\* written but not committed (lib/inventoryReservations.ts inside
\* lib/inventoryKernel.ts) as of what is committed.
THEOREM StockedHolds == Spec => []StockedInv
  BY StockedInit, StockedStep, PTL DEF Spec

\* Types, and that a transaction is past the kernel's lock iff it has it.
THEOREM TypeCorrect == Spec => []TypeOK
<1>1. StockedInv => TypeOK
  <2> SUFFICES ASSUME StockedInv PROVE TypeOK
    OBVIOUS
  <2>1. Types /\ HolderInv
    BY DEF StockedInv
  <2>2. kernel.rows \in [Keys -> Rows] /\ kernel.locked \subseteq Locations
    BY <2>1 DEF Types, Kernels
  <2>3. \A w \in Workers : /\ tx[w].job \in Jobs \cup {"none", "archive"}
                           /\ tx[w].step \in Steps \cup {"idle"}
    BY <2>1 DEF Types, Txs
  <2>4. /\ kernel.by = {w \in Workers : InKernel(w)}
        /\ kernel.posted \subseteq kernel.locked
    BY <2>1 DEF HolderInv
  <2> QED
    BY <2>1, <2>2, <2>3, <2>4 DEF TypeOK, Types, InKernel
<1> QED
  BY <1>1, StockedHolds, PTL

\* Stock is on hold for an open order, for a checkout that PayPal may still
\* charge, or for an order that a bare status write ended (the fulfilment route
\* and PATCH /orders/:id); every other end of an order gives it back.
THEOREM EveryHoldHasACause == Spec => []HeldForACause
<1>1. StockedInv => HeldForACause
  <2> SUFFICES ASSUME StockedInv, NEW k \in Keys, row[k].st = "reserved"
               PROVE  order[k[1]] \in {"open", "dropped"} \/ Protected(k[1])
    BY DEF HeldForACause
  <2>1. k[1] \in Orders /\ k \in Of(k[1])
    BY DEF Keys, Of
  <2> QED
    BY <2>1 DEF StockedInv, RowInv
<1> QED
  BY <1>1, StockedHolds, PTL

\* A paid order has consumed what was ordered, neither less nor twice, and an
\* unpaid one nothing.
THEOREM SalesAreExact == Spec => []SoldAsOrdered
<1>1. StockedInv => SoldAsOrdered
  <2> SUFFICES ASSUME StockedInv, NEW o \in Orders
               PROVE  Total(sold, Of(o)) = IF order[o] = "paid" THEN Ordered[o] ELSE 0
    BY DEF SoldAsOrdered
  <2>1. RowInv(o)
    BY DEF StockedInv
  <2>2. CASE order[o] = "paid"
    BY <2>1, <2>2 DEF RowInv
  <2>3. CASE order[o] # "paid"
    <3>1. \A k \in Of(o) : sold[k] = 0
      BY <2>1, <2>3 DEF RowInv
    <3>2. Total(sold, Of(o)) = Total(sold, {})
      BY <3>1, TotalZero
    <3> QED
      BY <2>3, <3>2, TotalNone
  <2> QED
    BY <2>2, <2>3
<1> QED
  BY <1>1, StockedHolds, PTL

\* While PayPal may still take the buyer's money the whole order is on hold,
\* expired or not.
THEOREM CheckoutsAreHeld == Spec => []CheckoutIsHeld
<1>1. StockedInv => CheckoutIsHeld
  <2> SUFFICES ASSUME StockedInv, NEW o \in Orders, attempt[o] \in {"created", "review"},
                      order[o] # "paid"
               PROVE  ActiveIn(Of(o), row, clock) = Ordered[o]
    BY DEF CheckoutIsHeld
  <2>1. RowInv(o) /\ AtPayPal(o) /\ Protected(o)
    BY DEF StockedInv, AtPayPal, Protected, Unresolved
  <2>2. Total(Quantities(row), Held(Of(o), row)) = Ordered[o]
    BY <2>1 DEF RowInv, Whole
  <2>3. \A k \in Of(o) : Active(k, row, clock) <=> row[k].st = "reserved"
    BY <2>1 DEF Active, Of
  <2>4. {k \in Of(o) : Active(k, row, clock)} = Held(Of(o), row)
    BY <2>3 DEF Held
  <2> QED
    BY <2>2, <2>4 DEF ActiveIn
<1> QED
  BY <1>1, StockedHolds, PTL

\* What is promised at a location is part of what is on hold there.
LEMMA PromisedFacts ==
  ASSUME StockedInv, NEW l \in Locations
  PROVE  /\ Promised(l) \in Nat /\ SoldAt(l) \in Nat /\ Stock[l] \in Nat
         /\ Promised(l) + SoldAt(l) <= Stock[l]
<1> DEFINE A == {k \in Orders \X {l} :
                   row[k].st = "reserved" /\ (row[k].exp > clock \/ attempt[k[1]] \in Unresolved)}
<1>1. row \in [Keys -> Rows] /\ sold \in [Keys -> Nat] /\ StockInv(l)
  BY DEF StockedInv, Types
<1>2. A \subseteq Held(Kept(l), row)
  BY DEF Held, Kept
<1>3. Promised(l) = Total(Quantities(row), A)
  BY DEF Promised
<1> HIDE DEF A
<1> DEFINE a == Total(Quantities(row), A)
           b == Total(Quantities(row), Held(Kept(l), row))
<1>4. a \in Nat /\ b \in Nat /\ a <= b
  BY <1>1, <1>2, LessHeld
<1>5. SoldAt(l) \in Nat /\ Stock[l] \in Nat
  <2>1. IsFiniteSet(Kept(l)) /\ Kept(l) \subseteq Keys
    BY KeySets
  <2>2. \A k \in Kept(l) : sold[k] \in Nat
    BY <1>1, <2>1
  <2>3. SoldAt(l) \in Nat
    BY <2>1, <2>2, UnitsFinite DEF SoldAt
  <2> QED
    BY <2>3, ReservationsAssumption DEF ReservationsAssumption
<1>6. b + SoldAt(l) <= Stock[l]
  BY <1>1 DEF StockInv
<1>7. Promised(l) = a
  BY <1>3
<1> HIDE DEF a, b
<1> QED
  BY <1>4, <1>5, <1>6, <1>7, SMT

\* No location sells and promises more than it once had, whatever orders, sweeps,
\* webhooks and manual movements do in whatever order.
THEOREM StockIsNeverOversold == Spec => []NeverOversells
<1>1. StockedInv => NeverOversells
  BY PromisedFacts DEF NeverOversells, SoldAt, Kept
<1> QED
  BY <1>1, StockedHolds, PTL

\* Without decreases by hand no more is promised than is on hand, which the kernel
\* asserts where it looks and which holds at every moment.
THEOREM NothingIsOverdrawn == ASSUME MaxDecreases = 0 PROVE Spec => []NoOverage
<1>1. StockedInv => NoOverage
  <2> SUFFICES ASSUME StockedInv, NEW l \in Locations PROVE Promised(l) <= onHand[l]
    BY DEF NoOverage
  <2>1. onHand[l] = Stock[l] + moved[l] - SoldAt(l) /\ moved[l] \in -MaxDecreases .. 0
    BY DEF StockedInv, StockInv, Types
  <2>2. moved[l] = 0
    BY <2>1
  <2>3. /\ Promised(l) \in Nat /\ SoldAt(l) \in Nat /\ Stock[l] \in Nat
        /\ Promised(l) + SoldAt(l) <= Stock[l]
    BY PromisedFacts
  <2> QED
    BY <2>1, <2>2, <2>3, SMT
<1> QED
  BY <1>1, StockedHolds, PTL

=============================================================================
