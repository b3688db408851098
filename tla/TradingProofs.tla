--------------------------- MODULE TradingProofs ---------------------------
(***************************************************************************)
(* What the arithmetic of the order engine computes, and what Trading      *)
(* guarantees for every set of users, contracts, prices and requests and   *)
(* any number of orders, replicas and gate attempts: types, the fate of an *)
(* order, balances and reserves, then the ledger of executions.            *)
(***************************************************************************)
EXTENDS Trading, TotalsProofs, TLAPS

-----------------------------------------------------------------------------
(* The arithmetic (OrderMath).                                             *)

Accounts == [cash : Int, reserved : Int, available : Int]
Positions == [lots : Int, collateral : Nat]

LEMMA LotSizePositive == LotSize \in Nat /\ LotSize > 0
BY LotSizeAssumption

\* Products used below stay natural, and amounts add up over a split of lots.
LEMMA NatProduct == \A a, b \in Nat : a * b \in Nat
OBVIOUS

LEMMA AmountNat == \A p, q \in Nat : p * q * LotSize \in Nat
<1> TAKE p \in Nat, q \in Nat
<1>1. p * q \in Nat
  BY NatProduct
<1>2. \A r \in Nat : r * LotSize \in Nat
  BY NatProduct, LotSizePositive
<1> QED BY <1>1, <1>2

LEMMA AmountSplit ==
  \A p \in Nat : \A a, b \in Nat :
    p * a * LotSize + p * b * LotSize = p * (a + b) * LotSize
BY LotSizePositive

\* The split of an order never produces a negative part.
LEMMA PlanParts ==
  ASSUME NEW qty \in Nat, NEW lots \in Int
  PROVE  /\ CoverQty(qty, lots) \in Nat /\ CloseLongQty(qty, lots) \in Nat
         /\ OpenLongQty(qty, lots) \in Nat /\ OpenShortQty(qty, lots) \in Nat
         /\ CoverQty(qty, lots) + OpenLongQty(qty, lots) = qty
         /\ CloseLongQty(qty, lots) + OpenShortQty(qty, lots) = qty
         /\ CoverQty(qty, lots) <= qty
BY DEF CoverQty, CloseLongQty, OpenLongQty, OpenShortQty, Least

LEMMA PlanReserveNat ==
  ASSUME NEW side \in Sides, NEW qty \in Nat, NEW lots \in Int, NEW price \in Nat
  PROVE  PlanReserve(side, qty, lots, price) \in Nat
<1>1. OpenQty(side, qty, lots) \in Nat
  BY PlanParts DEF OpenQty
<1>2. price * OpenQty(side, qty, lots) * LotSize \in Nat
  BY <1>1, AmountNat
<1>3. SideRate(side) \in {1, 2}
  BY DEF SideRate, MarginRate
<1> QED BY <1>2, <1>3 DEF PlanReserve

\* The plan of the service and the constraint of the projection accept the
\* same orders (buildPositionPlan, positions.Service.ApplyExecution).
THEOREM ConstraintIsPlan ==
  ASSUME NEW side \in Sides, NEW qty \in Nat \ {0}, NEW effect \in Effects,
         NEW lots \in Int
  PROVE  ConstraintAccepts(side, qty, effect, lots)
           <=> PlanAllowed(side, qty, effect, lots)
BY DEF ConstraintAccepts, PlanAllowed

LEMMA DivBound ==
  ASSUME NEW a \in Nat, NEW b \in Nat \ {0}, NEW c \in Nat, a < b * (c + 1)
  PROVE  a \div b \in 0 .. c
OBVIOUS

\* A pro-rata release is part of the collateral.
LEMMA ProRataBound ==
  ASSUME NEW c \in Nat, NEW k \in Nat, NEW s \in Nat \ {0}
  PROVE  ProRata(c, k, s) \in 0 .. c
<1>1. CASE k >= s
  BY <1>1 DEF ProRata
<1>2. CASE k < s
  <2>1. c * k + c <= c * s
    <3>1. k + 1 <= s
      BY <1>2
    <3> QED BY <3>1
  <2>2. 2 * c * k + s \in Nat /\ 2 * s \in Nat \ {0}
    OBVIOUS
  <2>3. 2 * c * k + s < (2 * s) * (c + 1)
    BY <2>1
  <2> QED BY <1>2, <2>2, <2>3, DivBound DEF ProRata
<1> QED BY <1>1, <1>2

LEMMA CollateralMoves ==
  ASSUME NEW pos \in Positions, NEW side \in Sides, NEW qty \in Nat,
         NEW price \in Nat
  PROVE  /\ CollateralRelease(pos, side, qty) \in 0 .. pos.collateral
         /\ CollateralAdded(pos, side, qty, price) \in Nat
         /\ side = "sell" => CollateralRelease(pos, side, qty) = 0
         /\ side = "buy"  => CollateralAdded(pos, side, qty, price) = 0
<1> DEFINE cover == CoverQty(qty, pos.lots)
<1>1. /\ pos.lots \in Int /\ pos.collateral \in Nat
      /\ cover \in Nat /\ OpenShortQty(qty, pos.lots) \in Nat
  BY PlanParts DEF Positions
<1>2. cover > 0 => -pos.lots \in Nat \ {0}
  BY <1>1 DEF CoverQty
<1>3. cover > 0 => ProRata(pos.collateral, cover, -pos.lots) \in 0 .. pos.collateral
  BY <1>1, <1>2, ProRataBound
<1>4. CollateralRelease(pos, side, qty) \in 0 .. pos.collateral
  BY <1>1, <1>3 DEF CollateralRelease
<1>5. price * OpenShortQty(qty, pos.lots) * LotSize \in Nat
  BY <1>1, AmountNat
<1>6. CollateralAdded(pos, side, qty, price) \in Nat
  BY <1>5 DEF CollateralAdded, MarginRate
<1> QED BY <1>4, <1>6 DEF CollateralRelease, CollateralAdded, Sides

LEMMA ApplyExecutionType ==
  ASSUME NEW pos \in Positions, NEW side \in Sides, NEW qty \in Nat,
         NEW price \in Nat
  PROVE  ApplyExecution(pos, side, qty, price) \in Positions
<1>1. SignedQty(side, qty) \in Int
  BY DEF SignedQty
<1>2. pos.lots \in Int /\ pos.collateral \in Nat
  BY DEF Positions
<1>3. pos.collateral - CollateralRelease(pos, side, qty)
        + CollateralAdded(pos, side, qty, price) \in Nat
  <2>1. /\ CollateralRelease(pos, side, qty) \in 0 .. pos.collateral
        /\ CollateralAdded(pos, side, qty, price) \in Nat
    BY CollateralMoves
  <2> QED BY <1>2, <2>1
<1> QED BY <1>1, <1>2, <1>3 DEF ApplyExecution, Positions

LEMMA MutateType ==
  ASSUME NEW w \in Accounts, NEW c \in Int, NEW r \in Int
  PROVE  /\ Mutate(w, c, r) \in Accounts
         /\ Mutate(w, c, r).cash = w.cash + c
         /\ Mutate(w, c, r).reserved = w.reserved + r
         /\ Mutate(w, c, r).available = w.available + c - r
BY DEF Mutate, Accounts

-----------------------------------------------------------------------------
(* What a fill does to an account, in one step.                            *)

\* Margin held by the order and collateral of the position move into one
\* another; cash moves by the signed value of the fill, once.
FillDelta(w, v, pos, side, qty, price, held) ==
  /\ v.cash = w.cash - SignedQty(side, qty) * price * LotSize
  /\ v.reserved = w.reserved - held - CollateralRelease(pos, side, qty)
                    + CollateralAdded(pos, side, qty, price)
  /\ v.available = w.available + (v.cash - w.cash) - (v.reserved - w.reserved)

LEMMA BuyFillDelta ==
  ASSUME NEW w \in Accounts, NEW pos \in Positions, NEW qty \in Nat,
         NEW price \in Nat, NEW held \in Nat
  PROVE  /\ BuyFill(w, pos, qty, price, held) \in Accounts
         /\ FillDelta(w, BuyFill(w, pos, qty, price, held), pos, "buy", qty, price, held)
<1> DEFINE rel == CollateralRelease(pos, "buy", qty)
           top == BuyTopUp(pos, qty, price, held)
           cost == price * qty * LotSize
           a == BuyReleased(w, pos, qty)
           b == BuyPrepared(w, pos, qty, price, held)
           v == BuyFill(w, pos, qty, price, held)
<1>1. rel \in Nat /\ CollateralAdded(pos, "buy", qty, price) = 0
  <2>1. pos.collateral \in Nat /\ "buy" \in Sides
    BY DEF Positions, Sides
  <2> QED BY <2>1, CollateralMoves
<1>2. price * OpenLongQty(qty, pos.lots) * LotSize \in Nat
  BY PlanParts, AmountNat DEF Positions
<1>3. top \in Nat
  BY <1>2 DEF BuyTopUp, Excess
<1>4. cost \in Nat
  BY AmountNat
<1>5. a = Mutate(w, 0, -rel)
  BY DEF BuyReleased, Release
<1>6. b = Mutate(a, 0, top)
  BY DEF BuyPrepared, Reserve
<1>7. v = Mutate(b, -cost, -(held + top))
  BY DEF BuyFill, SettleBuy
<1>8. SignedQty("buy", qty) * price * LotSize = cost
  BY LotSizePositive DEF SignedQty
<1> HIDE DEF rel, top, cost, a, b, v
<1>9. /\ a \in Accounts /\ a.cash = w.cash
      /\ a.reserved = w.reserved - rel /\ a.available = w.available + rel
  BY <1>1, <1>5, MutateType DEF Accounts
<1>10. /\ b \in Accounts /\ b.cash = w.cash
       /\ b.reserved = w.reserved - rel + top
       /\ b.available = w.available + rel - top
  BY <1>1, <1>3, <1>6, <1>9, MutateType DEF Accounts
<1>11. /\ v \in Accounts /\ v.cash = w.cash - cost
       /\ v.reserved = w.reserved - rel - held
       /\ v.available = w.available - cost + rel + held
  BY <1>1, <1>3, <1>4, <1>7, <1>10, MutateType DEF Accounts
<1>12. FillDelta(w, v, pos, "buy", qty, price, held)
  BY <1>1, <1>8, <1>11, <1>4 DEF FillDelta, Accounts, rel
<1> QED BY <1>11, <1>12 DEF v

LEMMA SellFillDelta ==
  ASSUME NEW w \in Accounts, NEW pos \in Positions, NEW qty \in Nat,
         NEW price \in Nat, NEW held \in Nat
  PROVE  /\ SellFill(w, pos, qty, price, held) \in Accounts
         /\ FillDelta(w, SellFill(w, pos, qty, price, held), pos, "sell", qty, price, held)
<1> DEFINE closed == price * CloseLongQty(qty, pos.lots) * LotSize
           opened == price * OpenShortQty(qty, pos.lots) * LotSize
           margin == ShortMargin(pos, qty, price)
           a == Release(w, Excess(held, margin))
           b == SellPrepared(w, pos, qty, price, held)
           c == SettleSell(b, closed)
           v == SellFill(w, pos, qty, price, held)
<1>1. closed \in Nat /\ opened \in Nat
  BY PlanParts, AmountNat DEF Positions
<1>2. closed + opened = price * qty * LotSize
  <2>1. pos.lots \in Int
    BY DEF Positions
  <2>2. /\ CloseLongQty(qty, pos.lots) \in Nat
        /\ OpenShortQty(qty, pos.lots) \in Nat
        /\ CloseLongQty(qty, pos.lots) + OpenShortQty(qty, pos.lots) = qty
    BY <2>1, PlanParts
  <2>3. closed + opened
          = price * (CloseLongQty(qty, pos.lots) + OpenShortQty(qty, pos.lots)) * LotSize
    BY <2>2, AmountSplit
  <2> QED BY <2>2, <2>3
<1>3. margin = 2 * opened /\ CollateralAdded(pos, "sell", qty, price) = 3 * opened
  BY <1>1 DEF ShortMargin, CollateralAdded, MarginRate
<1>4. CollateralRelease(pos, "sell", qty) = 0
  BY CollateralMoves DEF Sides
<1>5. SignedQty("sell", qty) * price * LotSize = -(price * qty * LotSize)
  BY LotSizePositive DEF SignedQty
<1>6. /\ a = Mutate(w, 0, -Excess(held, margin))
      /\ b = Mutate(a, 0, Excess(margin, held))
      /\ c = Mutate(b, closed, 0)
      /\ v = Mutate(c, opened, opened)
  BY DEF Release, SellPrepared, Reserve, SettleSell, SettleShortOpen, SellFill
<1> HIDE DEF closed, opened, margin, a, b, c, v
<1>7. /\ Excess(held, margin) \in Nat /\ Excess(margin, held) \in Nat
      /\ Excess(margin, held) - Excess(held, margin) = margin - held
  BY <1>1, <1>3 DEF Excess
<1>8. /\ a \in Accounts /\ a.cash = w.cash
      /\ a.reserved = w.reserved - Excess(held, margin)
      /\ a.available = w.available + Excess(held, margin)
  BY <1>6, <1>7, MutateType DEF Accounts
<1>9. /\ b \in Accounts /\ b.cash = w.cash
      /\ b.reserved = w.reserved + margin - held
      /\ b.available = w.available - margin + held
  BY <1>1, <1>3, <1>6, <1>7, <1>8, MutateType DEF Accounts
<1>10. /\ c \in Accounts /\ c.cash = w.cash + closed
       /\ c.reserved = w.reserved + margin - held
       /\ c.available = w.available - margin + held + closed
  BY <1>1, <1>3, <1>6, <1>9, MutateType DEF Accounts
<1>11. /\ v \in Accounts /\ v.cash = w.cash + closed + opened
       /\ v.reserved = w.reserved + 3 * opened - held
       /\ v.available = w.available - margin + held + closed
  BY <1>1, <1>3, <1>6, <1>10, MutateType DEF Accounts
<1>12. FillDelta(w, v, pos, "sell", qty, price, held)
  BY <1>1, <1>2, <1>3, <1>4, <1>5, <1>11 DEF FillDelta, Accounts
<1> QED BY <1>11, <1>12 DEF v

\* The account after a fill, for either side.
LEMMA FillAccountDelta ==
  ASSUME NEW w \in Accounts, NEW pos \in Positions, NEW side \in Sides,
         NEW qty \in Nat, NEW price \in Nat, NEW held \in Nat
  PROVE  /\ FillAccount(w, pos, side, qty, price, held) \in Accounts
         /\ FillDelta(w, FillAccount(w, pos, side, qty, price, held),
                      pos, side, qty, price, held)
BY BuyFillDelta, SellFillDelta DEF FillAccount, Sides

\* A fill the wallet does not refuse overdraws neither balance.
LEMMA FillAccountSolvent ==
  ASSUME NEW w \in Accounts, NEW pos \in Positions, NEW side \in Sides,
         NEW qty \in Nat, NEW price \in Nat, NEW held \in Nat,
         w.available >= 0, w.reserved >= 0,
         CanFill(w, pos, side, qty, price, held)
  PROVE  /\ FillAccount(w, pos, side, qty, price, held).available >= 0
         /\ FillAccount(w, pos, side, qty, price, held).reserved >= 0
<1>1. CASE side = "buy"
  <2> DEFINE rel == CollateralRelease(pos, "buy", qty)
             top == BuyTopUp(pos, qty, price, held)
             cost == price * qty * LotSize
             a == BuyReleased(w, pos, qty)
             b == BuyPrepared(w, pos, qty, price, held)
             v == BuyFill(w, pos, qty, price, held)
  <2>1. rel \in Nat
    BY CollateralMoves DEF Sides, Positions
  <2>2. top \in Nat
    <3>1. price * OpenLongQty(qty, pos.lots) * LotSize \in Nat
      BY PlanParts, AmountNat DEF Positions
    <3> QED BY <3>1 DEF BuyTopUp, Excess
  <2>3. cost \in Nat
    BY AmountNat
  <2>4. /\ a = Mutate(w, 0, -rel) /\ b = Mutate(a, 0, top)
        /\ v = Mutate(b, -cost, -(held + top))
    BY DEF BuyReleased, Release, BuyPrepared, Reserve, BuyFill, SettleBuy
  <2>5. /\ Covers(w.reserved, rel) /\ Covers(a.available, top)
        /\ Covers(b.available, Excess(cost, held + top))
        /\ Covers(b.reserved, held + top)
    BY <1>1 DEF CanFill, CanBuyFill, CanRelease, CanReserve, CanSettleBuy
  <2>6. FillAccount(w, pos, side, qty, price, held) = v
    BY <1>1 DEF FillAccount
  <2> HIDE DEF rel, top, cost, a, b, v
  <2>7. /\ a \in Accounts /\ a.reserved = w.reserved - rel
        /\ a.available = w.available + rel
    BY <2>1, <2>4, MutateType DEF Accounts
  <2>8. /\ b \in Accounts /\ b.reserved = a.reserved + top
        /\ b.available = a.available - top
    BY <2>2, <2>4, <2>7, MutateType DEF Accounts
  <2>9. /\ v.reserved = b.reserved - (held + top)
        /\ v.available = b.available - cost + held + top
    BY <2>2, <2>3, <2>4, <2>8, MutateType DEF Accounts
  <2>10. b.available >= 0 /\ b.reserved >= 0
    BY <2>1, <2>2, <2>5, <2>7, <2>8 DEF Covers, Accounts
  <2>11. v.reserved >= 0
    BY <2>2, <2>5, <2>8, <2>9, <2>10 DEF Covers, Accounts
  <2>12. v.available >= 0
    BY <2>2, <2>3, <2>5, <2>8, <2>9, <2>10 DEF Covers, Excess, Accounts
  <2> QED BY <2>6, <2>11, <2>12
<1>2. CASE side = "sell"
  <2> DEFINE closed == price * CloseLongQty(qty, pos.lots) * LotSize
             opened == price * OpenShortQty(qty, pos.lots) * LotSize
             margin == ShortMargin(pos, qty, price)
             down == Excess(held, margin)
             up == Excess(margin, held)
             a == Release(w, down)
             b == SellPrepared(w, pos, qty, price, held)
             c == SettleSell(b, closed)
             v == SellFill(w, pos, qty, price, held)
  <2>1. closed \in Nat /\ opened \in Nat
    BY PlanParts, AmountNat DEF Positions
  <2>2. margin \in Nat
    BY <2>1 DEF ShortMargin, MarginRate
  <2>3. down \in Nat /\ up \in Nat
    BY <2>2 DEF Excess
  <2>4. /\ a = Mutate(w, 0, -down) /\ b = Mutate(a, 0, up)
        /\ c = Mutate(b, closed, 0) /\ v = Mutate(c, opened, opened)
    BY DEF Release, SellPrepared, Reserve, SettleSell, SettleShortOpen, SellFill
  <2>5. Covers(w.reserved, down) /\ Covers(a.available, up)
    BY <1>2 DEF CanFill, CanSellFill, CanRelease, CanReserve
  <2>6. FillAccount(w, pos, side, qty, price, held) = v
    BY <1>2 DEF FillAccount
  <2> HIDE DEF closed, opened, margin, down, up, a, b, c, v
  <2>7. /\ a \in Accounts /\ a.reserved = w.reserved - down
        /\ a.available = w.available + down
    BY <2>3, <2>4, MutateType DEF Accounts
  <2>8. /\ b \in Accounts /\ b.reserved = a.reserved + up
        /\ b.available = a.available - up
    BY <2>3, <2>4, <2>7, MutateType DEF Accounts
  <2>9. c \in Accounts /\ c.reserved = b.reserved /\ c.available = b.available + closed
    BY <2>1, <2>4, <2>8, MutateType DEF Accounts
  <2>10. v.reserved = c.reserved + opened /\ v.available = c.available
    BY <2>1, <2>4, <2>9, MutateType DEF Accounts
  <2>11. b.available >= 0 /\ b.reserved >= 0
    BY <2>3, <2>5, <2>7, <2>8 DEF Covers, Accounts
  <2> QED BY <2>1, <2>6, <2>8, <2>9, <2>10, <2>11 DEF Accounts
<1> QED BY <1>1, <1>2 DEF Sides

-----------------------------------------------------------------------------
(* How far the collateral of a short can be worn down.                     *)

\* floor is the collateral per short lot that no fill may undercut.
Backed(pos, floor) ==
  /\ pos.lots >= 0 => pos.collateral = 0
  /\ pos.collateral >= (-pos.lots) * floor

\* A rounded release of k of s lots leaves the floor of the other s - k.
LEMMA ReleaseKeepsFloor ==
  ASSUME NEW c \in Nat, NEW k \in Nat, NEW s \in Nat \ {0}, NEW f \in Nat,
         k < s, c >= s * f
  PROVE  c - ProRata(c, k, s) >= (s - k) * f
<1> DEFINE d == c - (s - k) * f
<1>1. (s - k) * f \in Nat /\ (s - k) * f + k * f = s * f /\ k * f \in Nat
  OBVIOUS
<1>2. d \in Nat
  BY <1>1
<1>3. c * (s - k) >= (s * f) * (s - k)
  OBVIOUS
<1>4. 2 * c * k + s < (2 * s) * (d + 1)
  <2>1. (2 * s) * (d + 1) = 2 * s * c - 2 * ((s * f) * (s - k)) + 2 * s
    OBVIOUS
  <2>2. c * (s - k) = c * s - c * k
    OBVIOUS
  <2> QED BY <1>3, <2>1, <2>2
<1>5. 2 * c * k + s \in Nat /\ 2 * s \in Nat \ {0}
  OBVIOUS
<1> HIDE DEF d
<1>6. (2 * c * k + s) \div (2 * s) \in 0 .. d
  BY <1>2, <1>4, <1>5, DivBound
<1>7. ProRata(c, k, s) \in Int /\ ProRata(c, k, s) <= d
  BY <1>2, <1>6 DEF ProRata
<1> QED BY <1>1, <1>7 DEF d

\* The release and the addition of a fill, case by case.
LEMMA MoveCases ==
  ASSUME NEW pos \in Positions, NEW side \in Sides, NEW qty \in Nat \ {0},
         NEW price \in Nat
  PROVE  LET lots == pos.lots
             rel == CollateralRelease(pos, side, qty)
             add == CollateralAdded(pos, side, qty, price)
         IN  /\ side = "buy" /\ lots >= 0 => rel = 0
             /\ side = "buy" /\ lots < 0 /\ qty >= -lots => rel = pos.collateral
             /\ side = "buy" /\ lots < 0 /\ qty < -lots =>
                  rel = ProRata(pos.collateral, qty, -lots)
             /\ side = "sell" /\ lots - qty >= 0 => add = 0
             /\ side = "sell" /\ lots - qty < 0 /\ lots >= 0 =>
                  add = 3 * (price * (qty - lots) * LotSize)
             /\ side = "sell" /\ lots < 0 => add = 3 * (price * qty * LotSize)
<1> DEFINE lots == pos.lots
           rel == CollateralRelease(pos, side, qty)
           add == CollateralAdded(pos, side, qty, price)
<1>1. lots \in Int
  BY DEF Positions
<1>2. side = "buy" /\ lots >= 0 => rel = 0
  BY <1>1 DEF CollateralRelease, CoverQty
<1>3. side = "buy" /\ lots < 0 /\ qty >= -lots => rel = pos.collateral
  BY <1>1 DEF CollateralRelease, CoverQty, Least, ProRata
<1>4. side = "buy" /\ lots < 0 /\ qty < -lots => rel = ProRata(pos.collateral, qty, -lots)
  BY <1>1 DEF CollateralRelease, CoverQty, Least
<1>5. add = IF side = "sell" THEN 3 * (price * OpenShortQty(qty, lots) * LotSize) ELSE 0
  <2>1. price * OpenShortQty(qty, lots) * LotSize \in Nat
    BY <1>1, PlanParts, AmountNat
  <2> QED BY <2>1 DEF CollateralAdded, MarginRate
<1>6. /\ lots - qty >= 0 => OpenShortQty(qty, lots) = 0
      /\ lots - qty < 0 /\ lots >= 0 => OpenShortQty(qty, lots) = qty - lots
      /\ lots < 0 => OpenShortQty(qty, lots) = qty
  BY <1>1 DEF OpenShortQty, CloseLongQty, Least
<1>7. side = "sell" /\ lots - qty >= 0 => add = 0
  BY <1>5, <1>6, LotSizePositive
<1> QED BY <1>2, <1>3, <1>4, <1>5, <1>6, <1>7

LEMMA FloorOfAmount ==
  ASSUME NEW m \in Nat, NEW price \in Nat, NEW o \in Nat, price >= m
  PROVE  3 * (price * o * LotSize) >= o * (m * LotSize * (1 + MarginRate))
<1>1. m * o <= price * o /\ m * o \in Nat /\ price * o \in Nat
  OBVIOUS
<1>2. m * o * LotSize <= price * o * LotSize
  BY <1>1, LotSizePositive
<1>3. o * (m * LotSize * 3) = 3 * (m * o * LotSize)
  BY LotSizePositive
<1>4. m * o * LotSize \in Nat /\ price * o * LotSize \in Nat
  BY AmountNat
<1> QED BY <1>2, <1>3, <1>4 DEF MarginRate

\* Every fill leaves the position backed at the lowest price.
LEMMA ExecutionKeepsFloor ==
  ASSUME NEW pos \in Positions, NEW side \in Sides, NEW qty \in Nat \ {0},
         NEW price \in Nat, NEW m \in Nat, price >= m,
         Backed(pos, m * LotSize * (1 + MarginRate))
  PROVE  Backed(ApplyExecution(pos, side, qty, price),
                m * LotSize * (1 + MarginRate))
<1> DEFINE f == m * LotSize * (1 + MarginRate)
           lots == pos.lots
           c == pos.collateral
           rel == CollateralRelease(pos, side, qty)
           add == CollateralAdded(pos, side, qty, price)
           new == ApplyExecution(pos, side, qty, price)
           L == new.lots
           C == new.collateral
<1>1. lots \in Int /\ c \in Nat
  BY DEF Positions
<1>2. f \in Nat
  <2>1. m * LotSize \in Nat
    BY NatProduct, LotSizePositive
  <2> QED BY <2>1 DEF MarginRate
<1>3. /\ rel \in 0 .. c /\ add \in Nat
      /\ side = "sell" => rel = 0
      /\ side = "buy" => add = 0
  BY CollateralMoves
<1>4. L = lots + SignedQty(side, qty) /\ C = c - rel + add
  BY DEF ApplyExecution
<1>5. (lots >= 0 => c = 0) /\ c >= (-lots) * f
  BY DEF Backed
<1>6. /\ side = "buy" /\ lots >= 0 => rel = 0
      /\ side = "buy" /\ lots < 0 /\ qty >= -lots => rel = c
      /\ side = "buy" /\ lots < 0 /\ qty < -lots => rel = ProRata(c, qty, -lots)
      /\ side = "sell" /\ lots - qty >= 0 => add = 0
      /\ side = "sell" /\ lots - qty < 0 /\ lots >= 0 =>
           add = 3 * (price * (qty - lots) * LotSize)
      /\ side = "sell" /\ lots < 0 => add = 3 * (price * qty * LotSize)
  BY MoveCases
<1>7. \A o \in Nat : 3 * (price * o * LotSize) >= o * f
  BY FloorOfAmount
<1>8. SUFFICES (L >= 0 => C = 0) /\ C >= (-L) * f
  BY DEF Backed
<1>9. L = IF side = "buy" THEN lots + qty ELSE lots - qty
  BY <1>1, <1>4 DEF SignedQty
<1> HIDE DEF f, lots, c, rel, add, new, L, C
<1>10. L \in Int /\ C \in Int
  BY <1>1, <1>3, <1>4, <1>9
<1>11. L >= 0 => (-L) * f <= 0
  BY <1>2, <1>10
<1>12. CASE side = "buy" /\ (lots >= 0 \/ qty >= -lots)
  <2>1. L >= 0 /\ C = 0
    BY <1>1, <1>3, <1>4, <1>5, <1>6, <1>9, <1>12
  <2> QED BY <1>2, <1>10, <1>11, <2>1
<1>13. CASE side = "buy" /\ lots < 0 /\ qty < -lots
  <2>1. c - ProRata(c, qty, -lots) >= (-lots - qty) * f
    <3>1. -lots \in Nat \ {0} /\ qty \in Nat /\ qty < -lots
      BY <1>1, <1>13
    <3> QED BY <3>1, <1>1, <1>2, <1>5, ReleaseKeepsFloor
  <2>2. -L = -lots - qty /\ L < 0
    BY <1>1, <1>9, <1>13
  <2>3. C = c - ProRata(c, qty, -lots)
    BY <1>3, <1>4, <1>6, <1>13, <1>1
  <2> QED BY <1>10, <2>1, <2>2, <2>3
<1>14. CASE side = "sell" /\ lots - qty >= 0
  <2>1. L >= 0 /\ C = 0
    BY <1>1, <1>3, <1>4, <1>5, <1>6, <1>9, <1>14
  <2> QED BY <1>2, <1>10, <1>11, <2>1
<1>15. CASE side = "sell" /\ lots - qty < 0 /\ lots >= 0
  <2>1. qty - lots \in Nat /\ -L = qty - lots /\ L < 0
    BY <1>1, <1>9, <1>15
  <2>2. add >= (qty - lots) * f /\ C = add
    BY <1>1, <1>3, <1>4, <1>5, <1>6, <1>7, <1>15, <2>1
  <2> QED BY <1>10, <2>1, <2>2
<1>16. CASE side = "sell" /\ lots < 0
  <2>1. -L = -lots + qty /\ L < 0 /\ -lots \in Nat
    BY <1>1, <1>9, <1>16
  <2>2. add >= qty * f /\ C = c + add
    BY <1>1, <1>3, <1>4, <1>6, <1>7, <1>16
  <2>3. (-lots + qty) * f = (-lots) * f + qty * f
    BY <1>1, <1>2
  <2>4. (-lots) * f \in Int /\ qty * f \in Int
    BY <1>1, <1>2
  <2>5. C >= (-L) * f
    BY <1>1, <1>3, <1>5, <2>1, <2>2, <2>3, <2>4
  <2> QED BY <2>1, <2>5, <1>10
<1> QED BY <1>1, <1>12, <1>13, <1>14, <1>15, <1>16 DEF Sides

-----------------------------------------------------------------------------
(* Orders, balances and reserves.                                          *)

ActiveRequest == [stage : Stages, in : Requests, plan : Plans, tries : Nat]
GoneRequest   == [stage : {"idle", "returned", "lost"}]

LEMMA Naturals ==
  /\ \A p \in Prices : p \in Nat /\ p > 0
  /\ \A p \in Prices \cup {0} : p \in Nat
  /\ \A q \in Quantities : q \in Nat /\ q > 0
  /\ \A a \in Amounts : a \in Nat /\ a > 0
<1>1. Prices \subseteq Nat \ {0} /\ Quantities \subseteq Nat \ {0}
      /\ Amounts \subseteq Nat \ {0}
  BY TradingAssumption
<1> QED BY <1>1

LEMMA ActiveRequestType ==
  ASSUME TypeOK, NEW o \in OrderIds, request[o].stage \in Stages
  PROVE  request[o] \in ActiveRequest
BY DEF TypeOK, ActiveRequest, Stages

LEMMA ExistingOrderType ==
  ASSUME TypeOK, NEW o \in OrderIds, order[o].status # "absent"
  PROVE  order[o] \in OrderDoc
BY DEF TypeOK, NoOrder

LEMMA RequestType ==
  ASSUME NEW in \in Requests
  PROVE  /\ in.user \in Users /\ in.contract \in Contracts /\ in.side \in Sides
         /\ in.effect \in Effects /\ in.qty \in Quantities /\ in.qty \in Nat \ {0}
         /\ in.limit \in Prices \cup {0} /\ in.client \in Clients \cup {NoClient}
         /\ in.replica \in Replicas
BY TradingAssumption DEF RequestSpace

LEMMA QuoteType ==
  ASSUME NEW in \in Requests, NEW q \in Quotes(in)
  PROVE  q.price \in Prices \cup {0} /\ q.fill \in Prices \cup {0}
BY RequestType DEF Quotes

RequestTypeOK == request \in [OrderIds -> ActiveRequest \cup GoneRequest]

\* Steps that only move a handler.
HandlerOnly == UNCHANGED <<ledgerVars, gate>>

LEMMA HandlerOnlyType ==
  ASSUME TypeOK, HandlerOnly, RequestTypeOK'
  PROVE  TypeOK'
BY DEF TypeOK, HandlerOnly, ledgerVars, RequestTypeOK, ActiveRequest, GoneRequest

LEMMA MoveType ==
  ASSUME TypeOK, NEW o \in OrderIds, NEW r \in ActiveRequest \cup GoneRequest,
         request' = [request EXCEPT ![o] = r]
  PROVE  RequestTypeOK'
BY DEF TypeOK, RequestTypeOK, ActiveRequest, GoneRequest

LEMMA GotoType ==
  ASSUME TypeOK, NEW o \in OrderIds, request[o].stage \in Stages,
         NEW stage \in Stages, Goto(o, stage)
  PROVE  RequestTypeOK'
BY ActiveRequestType DEF TypeOK, RequestTypeOK, Goto, ActiveRequest, GoneRequest

LEMMA LeaveType ==
  ASSUME TypeOK, NEW o \in OrderIds, NEW stage \in {"returned", "lost"}, Leave(o, stage)
  PROVE  RequestTypeOK'
BY DEF TypeOK, RequestTypeOK, Leave, ActiveRequest, GoneRequest

LEMMA ReceiveType ==
  ASSUME TypeOK, NEW o \in OrderIds, NEW in \in Requests, Receive(o, in)
  PROVE  TypeOK'
<1>1. [stage |-> "received", in |-> in, plan |-> NoPlan, tries |-> 0] \in ActiveRequest
  BY DEF ActiveRequest, Stages, Plans, NoPlan
<1>2. RequestTypeOK'
  BY <1>1, MoveType DEF Receive
<1> QED BY <1>2, HandlerOnlyType DEF Receive, HandlerOnly

LEMMA PlanType ==
  ASSUME TypeOK, NEW o \in OrderIds, Plan(o) \/ Reread(o)
  PROVE  TypeOK'
<1>1. request[o] \in ActiveRequest
  BY ActiveRequestType DEF Plan, Reread, Stages
<1>2. gate.version \in Nat
  BY DEF TypeOK
<1>3. CASE Plan(o)
  <2> DEFINE in == request[o].in
             lots == position[in.user][in.contract].lots
  <2>1. in \in Requests /\ lots \in Int
    BY <1>1, RequestType DEF ActiveRequest, TypeOK
  <2>2. PICK q \in Quotes(in) :
          request' = [request EXCEPT
            ![o].stage = "planned",
            ![o].plan = [lots |-> lots, price |-> q.price, fill |-> q.fill,
                         version |-> gate.version]]
    BY <1>3 DEF Plan
  <2>3. [lots |-> lots, price |-> q.price, fill |-> q.fill,
         version |-> gate.version] \in Plans
    BY <1>2, <2>1, QuoteType DEF Plans
  <2>4. RequestTypeOK'
    BY <1>1, <2>2, <2>3 DEF TypeOK, RequestTypeOK, ActiveRequest, GoneRequest, Stages
  <2> QED BY <1>3, <2>4, HandlerOnlyType DEF Plan, HandlerOnly
<1>4. CASE Reread(o)
  <2> DEFINE in == request[o].in
             plan == request[o].plan
             kept == {[price |-> plan.price, fill |-> plan.fill]}
  <2>1. in \in Requests /\ plan \in Plans
    BY <1>1 DEF ActiveRequest
  <2>2. PICK q \in IF in.limit = 0 THEN Quotes(in) ELSE kept :
          request' = [request EXCEPT
            ![o].stage = "planned",
            ![o].plan = [lots |-> @.lots, price |-> q.price, fill |-> q.fill,
                         version |-> gate.version]]
    BY <1>4 DEF Reread
  <2>3. q.price \in Prices \cup {0} /\ q.fill \in Prices \cup {0}
    BY <2>1, <2>2, QuoteType DEF Plans
  <2>4. [lots |-> plan.lots, price |-> q.price, fill |-> q.fill,
         version |-> gate.version] \in Plans
    BY <1>2, <2>1, <2>3 DEF Plans
  <2>5. RequestTypeOK'
    BY <1>1, <2>2, <2>4 DEF TypeOK, RequestTypeOK, ActiveRequest, GoneRequest, Stages
  <2> QED BY <1>4, <2>5, HandlerOnlyType DEF Reread, HandlerOnly
<1> QED BY <1>3, <1>4

LEMMA RetryType ==
  ASSUME TypeOK, NEW o \in OrderIds, CreateFenced(o) \/ FillFenced(o)
  PROVE  TypeOK'
<1> DEFINE Retried(stage) ==
      [request[o] EXCEPT !.stage = stage, !.tries = request[o].tries + 1]
<1>1. request[o] \in ActiveRequest
  BY ActiveRequestType DEF CreateFenced, FillFenced, Stages
<1>2. \A stage \in Stages : Retried(stage) \in ActiveRequest
  <2>1. request[o].tries + 1 \in Nat
    BY <1>1 DEF ActiveRequest
  <2> DEFINE n == request[o].tries + 1
  <2>2. n \in Nat
    BY <2>1
  <2> HIDE DEF n
  <2>3. \A stage \in Stages :
          [request[o] EXCEPT !.stage = stage, !.tries = n] \in ActiveRequest
    BY <1>1, <2>2 DEF ActiveRequest
  <2> QED BY <2>3 DEF n
<1>3. \A stage \in Stages :
        request' = [request EXCEPT ![o] = Retried(stage)] => RequestTypeOK'
  BY <1>2, MoveType
<1>4. request \in [OrderIds -> ActiveRequest \cup GoneRequest]
  BY DEF TypeOK, ActiveRequest, GoneRequest
<1>5. CASE CreateFenced(o)
  <2>1. CASE request[o].tries + 1 < GateAttempts
    <3>1. request' = [request EXCEPT ![o] = Retried("retrying")]
      BY <1>4, <1>5, <2>1 DEF CreateFenced
    <3> QED BY <1>3, <1>5, <3>1, HandlerOnlyType DEF CreateFenced, HandlerOnly, Stages
  <2>2. CASE ~(request[o].tries + 1 < GateAttempts)
    BY <1>5, <2>2, LeaveType, HandlerOnlyType DEF CreateFenced, HandlerOnly
  <2> QED BY <2>1, <2>2
<1>6. CASE FillFenced(o)
  <2>1. CASE request[o].tries + 1 < GateAttempts
    <3>1. request' = [request EXCEPT ![o] = Retried("filling")]
      BY <1>1, <1>4, <1>6, <2>1 DEF FillFenced
    <3> QED BY <1>3, <1>6, <3>1, HandlerOnlyType DEF FillFenced, HandlerOnly, Stages
  <2>2. CASE ~(request[o].tries + 1 < GateAttempts)
    <3>1. request' = [request EXCEPT ![o] = Retried("undoing")]
      BY <1>1, <1>4, <1>6, <2>2 DEF FillFenced
    <3> QED BY <1>3, <1>6, <3>1, HandlerOnlyType DEF FillFenced, HandlerOnly, Stages
  <2> QED BY <2>1, <2>2
<1> QED BY <1>5, <1>6

LEMMA RefuseType ==
  ASSUME TypeOK, NEW o \in OrderIds,
         \/ PlanRefused(o) \/ CreateRefused(o) \/ RereadRefused(o)
         \/ FillDenied(o) \/ FillStale(o) \/ Disconnect(o)
  PROVE  TypeOK'
<1>1. CASE FillDenied(o)
  <2>1. RequestTypeOK'
    BY <1>1, GotoType DEF FillDenied, Stages
  <2> QED BY <1>1, <2>1, HandlerOnlyType DEF FillDenied, HandlerOnly
<1>2. CASE PlanRefused(o) \/ CreateRefused(o) \/ RereadRefused(o) \/ FillStale(o) \/ Disconnect(o)
  <2>1. Leave(o, "returned") /\ HandlerOnly
    BY <1>2 DEF PlanRefused, CreateRefused, RereadRefused, FillStale, Disconnect, HandlerOnly
  <2> QED BY <2>1, LeaveType, HandlerOnlyType
<1> QED BY <1>1, <1>2

LEMMA CrashType ==
  ASSUME TypeOK, NEW r \in Replicas, Crash(r)
  PROVE  TypeOK'
<1>1. RequestTypeOK'
  BY DEF Crash, TypeOK, RequestTypeOK, ActiveRequest, GoneRequest
<1> QED BY <1>1, HandlerOnlyType DEF Crash, HandlerOnly

-----------------------------------------------------------------------------
(* Types over the steps that write documents.                              *)

WalletTypeOK   == wallet \in [Users -> Accounts]
PositionTypeOK == position \in [Users -> [Contracts -> Positions]]
OrderTypeOK    == order \in [OrderIds -> OrderDoc \cup {NoOrder}]
Execution      == [price : Prices \cup {0}, met : Int]
ExecutionsTypeOK == executions \in [OrderIds -> Seq(Execution)]
GateTypeOK     == gate \in [open : BOOLEAN, version : Nat, closedAt : Nat]
FundedTypeOK   == funded \in [Users -> Int]
MarkTypeOK     == marketable \in [OrderIds -> BOOLEAN]

TypeParts ==
  /\ WalletTypeOK /\ PositionTypeOK /\ OrderTypeOK /\ ExecutionsTypeOK
  /\ RequestTypeOK /\ GateTypeOK /\ FundedTypeOK /\ MarkTypeOK

LEMMA TypeSplit == TypeOK => TypeParts
BY DEF TypeOK, TypeParts, WalletTypeOK, PositionTypeOK, OrderTypeOK,
       ExecutionsTypeOK, RequestTypeOK, GateTypeOK, FundedTypeOK, MarkTypeOK,
       Accounts, Positions, Execution, ActiveRequest, GoneRequest

LEMMA TypeJoin == TypeParts' => TypeOK'
BY DEF TypeOK, TypeParts, WalletTypeOK, PositionTypeOK, OrderTypeOK,
       ExecutionsTypeOK, RequestTypeOK, GateTypeOK, FundedTypeOK, MarkTypeOK,
       Accounts, Positions, Execution, ActiveRequest, GoneRequest

LEMMA InitJoin == TypeParts => TypeOK
BY DEF TypeOK, TypeParts, WalletTypeOK, PositionTypeOK, OrderTypeOK,
       ExecutionsTypeOK, RequestTypeOK, GateTypeOK, FundedTypeOK, MarkTypeOK,
       Accounts, Positions, Execution, ActiveRequest, GoneRequest

\* A document nobody writes keeps its type.
LEMMA Kept ==
  ASSUME TypeParts
  PROVE  /\ UNCHANGED wallet => WalletTypeOK'
         /\ UNCHANGED position => PositionTypeOK'
         /\ UNCHANGED order => OrderTypeOK'
         /\ UNCHANGED executions => ExecutionsTypeOK'
         /\ UNCHANGED request => RequestTypeOK'
         /\ UNCHANGED gate => GateTypeOK'
         /\ UNCHANGED funded => FundedTypeOK'
         /\ UNCHANGED marketable => MarkTypeOK'
BY DEF TypeParts, WalletTypeOK, PositionTypeOK, OrderTypeOK, ExecutionsTypeOK,
       RequestTypeOK, GateTypeOK, FundedTypeOK, MarkTypeOK

LEMMA WalletMove ==
  ASSUME WalletTypeOK, NEW u \in Users, NEW v \in Accounts,
         wallet' = [wallet EXCEPT ![u] = v]
  PROVE  WalletTypeOK'
BY DEF WalletTypeOK

LEMMA MutateMove ==
  ASSUME WalletTypeOK, NEW u \in Users, NEW c \in Int, NEW r \in Int,
         wallet' = [wallet EXCEPT ![u] = Mutate(@, c, r)]
  PROVE  WalletTypeOK'
<1>1. wallet[u] \in Accounts
  BY DEF WalletTypeOK
<1>2. Mutate(wallet[u], c, r) \in Accounts
  BY <1>1, MutateType
<1> QED BY <1>2, WalletMove

LEMMA AdminType ==
  ASSUME TypeOK, NEW u \in Users, NEW a \in Amounts,
         AdminCredit(u, a) \/ AdminDebit(u, a)
  PROVE  TypeOK'
<1>1. a \in Int /\ -a \in Int
  BY TradingAssumption
<1>2. WalletTypeOK'
  BY <1>1, TypeSplit, MutateMove DEF TypeParts, AdminCredit, AdminDebit
<1>3. FundedTypeOK'
  BY <1>1, TypeSplit DEF TypeParts, AdminCredit, AdminDebit, FundedTypeOK
<1>4. UNCHANGED <<position, order, executions, request, gate, marketable>>
  BY DEF AdminCredit, AdminDebit
<1> QED BY <1>2, <1>3, <1>4, TypeSplit, TypeJoin, Kept DEF TypeParts

LEMMA IntentType ==
  ASSUME NEW side, NEW qty, NEW lots
  PROVE  Intent(side, qty, lots) \in Intents
BY DEF Intent, Intents

LEMMA PlannedReserveType ==
  ASSUME TypeOK, NEW o \in OrderIds, request[o].stage \in Stages
  PROVE  PlannedReserve(o) \in Nat
<1>1. request[o] \in ActiveRequest
  BY ActiveRequestType
<1>2. /\ request[o].in.side \in Sides /\ request[o].in.qty \in Nat
      /\ request[o].plan.lots \in Int /\ request[o].plan.price \in Nat
  <2>1. request[o].in \in Requests /\ request[o].plan \in Plans
    BY <1>1 DEF ActiveRequest
  <2>2. request[o].in.side \in Sides /\ request[o].in.qty \in Nat
    BY <2>1, RequestType
  <2>3. request[o].plan.lots \in Int /\ request[o].plan.price \in Prices \cup {0}
    BY <2>1 DEF Plans
  <2> QED BY <2>2, <2>3, Naturals
<1> QED BY <1>2, PlanReserveNat DEF PlannedReserve

\* The document Create inserts.
Inserted(o) ==
  [status |-> "open", user |-> request[o].in.user,
   contract |-> request[o].in.contract, side |-> request[o].in.side,
   effect |-> request[o].in.effect,
   intent |-> Intent(request[o].in.side, request[o].in.qty, request[o].plan.lots),
   qty |-> request[o].in.qty, price |-> request[o].plan.price,
   reserved |-> PlannedReserve(o), version |-> request[o].plan.version,
   client |-> request[o].in.client]

LEMMA InsertedType ==
  ASSUME TypeOK, NEW o \in OrderIds, request[o].stage \in Stages
  PROVE  Inserted(o) \in OrderDoc
<1>1. request[o] \in ActiveRequest
  BY ActiveRequestType
<1>2. request[o].in \in Requests /\ request[o].plan \in Plans
  BY <1>1 DEF ActiveRequest
<1>3. PlannedReserve(o) \in Nat
  BY PlannedReserveType
<1>4. /\ request[o].in.user \in Users /\ request[o].in.contract \in Contracts
      /\ request[o].in.side \in Sides /\ request[o].in.effect \in Effects
      /\ request[o].in.qty \in Quantities
      /\ request[o].in.client \in Clients \cup {NoClient}
      /\ request[o].plan.price \in Prices \cup {0} /\ request[o].plan.version \in Nat
  BY <1>2, RequestType DEF Plans
<1>5. Intent(request[o].in.side, request[o].in.qty, request[o].plan.lots) \in Intents
  BY IntentType
<1> QED BY <1>3, <1>4, <1>5 DEF Inserted, OrderDoc

LEMMA CreateType ==
  ASSUME TypeOK, NEW o \in OrderIds, Create(o)
  PROVE  TypeOK'
<1>1. request[o].stage \in Stages /\ request[o].stage = "planned"
  BY DEF Create, Stages
<1>2. request[o] \in ActiveRequest /\ request[o].in.user \in Users
  BY <1>1, ActiveRequestType, RequestType DEF ActiveRequest
<1>3. OrderTypeOK'
  <2>1. order' = [order EXCEPT ![o] = Inserted(o)]
    BY DEF Create, Inserted
  <2> QED BY <1>1, <2>1, InsertedType, TypeSplit DEF TypeParts, OrderTypeOK
<1>4. WalletTypeOK'
  <2>1. PlannedReserve(o) \in Int /\ 0 \in Int
    BY <1>1, PlannedReserveType
  <2>2. wallet' = [wallet EXCEPT ![request[o].in.user] = Mutate(@, 0, PlannedReserve(o))]
    BY DEF Create, Reserve
  <2> QED BY <1>2, <2>1, <2>2, MutateMove, TypeSplit DEF TypeParts
<1>5. MarkTypeOK'
  BY TypeSplit DEF TypeParts, Create, MarkTypeOK, GateTypeOK
<1>6. RequestTypeOK'
  <2>1. CASE request[o].plan.fill = 0
    BY <2>1, LeaveType DEF Create
  <2>2. CASE request[o].plan.fill # 0
    <3> DEFINE r == [request[o] EXCEPT !.stage = "filling", !.tries = 0]
    <3>1. r \in ActiveRequest
      BY <1>2 DEF ActiveRequest, Stages
    <3>2. request' = [request EXCEPT ![o] = r]
      BY <2>2, TypeSplit DEF TypeParts, Create, RequestTypeOK
    <3> QED BY <3>1, <3>2, MoveType
  <2> QED BY <2>1, <2>2
<1>7. UNCHANGED <<position, executions, gate, funded>>
  BY DEF Create
<1> QED BY <1>3, <1>4, <1>5, <1>6, <1>7, TypeSplit, TypeJoin, Kept DEF TypeParts

LEMMA HeldType ==
  ASSUME TypeOK, NEW o \in OrderIds
  PROVE  Held(o) \in Nat
BY ExistingOrderType DEF Held, Working, OrderDoc

LEMMA CancelType ==
  ASSUME TypeOK, NEW o \in OrderIds, CancelDoc(o), RequestTypeOK'
  PROVE  TypeOK'
<1>1. order[o] \in OrderDoc
  BY ExistingOrderType DEF CancelDoc, Cancellable, Working
<1>2. OrderTypeOK'
  BY <1>1, TypeSplit DEF TypeParts, CancelDoc, OrderTypeOK, OrderDoc
<1>3. WalletTypeOK'
  <2>1. Held(o) \in Nat /\ order[o].user \in Users
    BY <1>1, HeldType DEF OrderDoc
  <2>2. -Held(o) \in Int /\ 0 \in Int
    BY <2>1
  <2>3. wallet' = [wallet EXCEPT ![order[o].user] = Mutate(@, 0, -Held(o))]
    BY DEF CancelDoc, Release
  <2> QED BY <2>1, <2>2, <2>3, MutateMove, TypeSplit DEF TypeParts
<1>4. UNCHANGED <<position, executions, gate, funded, marketable>>
  BY DEF CancelDoc
<1> QED BY <1>2, <1>3, <1>4, TypeSplit, TypeJoin, Kept DEF TypeParts

LEMMA CancellationType ==
  ASSUME TypeOK, NEW o \in OrderIds, Undo(o) \/ UserCancel(o) \/ GateCancel(o)
  PROVE  TypeOK'
<1>1. CASE Undo(o)
  <2>1. RequestTypeOK'
    BY <1>1, LeaveType DEF Undo
  <2> QED BY <1>1, <2>1, CancelType, HandlerOnlyType DEF Undo, HandlerOnly
<1>2. CASE UserCancel(o) \/ GateCancel(o)
  <2>1. RequestTypeOK'
    BY <1>2, TypeSplit DEF TypeParts, UserCancel, GateCancel, RequestTypeOK
  <2> QED BY <1>2, <2>1, CancelType DEF UserCancel, GateCancel
<1> QED BY <1>1, <1>2

\* What a fill works on.
LEMMA FillInputs ==
  ASSUME TypeOK, NEW o \in OrderIds, Fill(o)
  PROVE  /\ order[o] \in OrderDoc /\ order[o].user \in Users
         /\ order[o].contract \in Contracts /\ order[o].side \in Sides
         /\ order[o].qty \in Nat
         /\ request[o].plan.fill \in Prices \cup {0} /\ request[o].plan.fill \in Nat
         /\ wallet[order[o].user] \in Accounts
         /\ MetPosition(o) \in Positions
         /\ Held(o) \in Nat
<1>1. order[o] \in OrderDoc
  BY ExistingOrderType DEF Fill, Working
<1>2. order[o].user \in Users /\ order[o].contract \in Contracts
  BY <1>1 DEF OrderDoc
<1>3. request[o].plan.fill \in Prices \cup {0}
  BY ActiveRequestType DEF Fill, Stages, ActiveRequest, Plans
<1>4. wallet[order[o].user] \in Accounts /\ MetPosition(o) \in Positions
  BY <1>2, TypeSplit DEF TypeParts, WalletTypeOK, PositionTypeOK, MetPosition
<1>5. order[o].side \in Sides /\ order[o].qty \in Quantities
  BY <1>1 DEF OrderDoc
<1>6. order[o].qty \in Nat /\ request[o].plan.fill \in Nat
  BY <1>3, <1>5, Naturals
<1> QED BY <1>1, <1>2, <1>3, <1>4, <1>5, <1>6, HeldType

LEMMA FillType ==
  ASSUME TypeOK, NEW o \in OrderIds, Fill(o)
  PROVE  TypeOK'
<1> DEFINE u == order[o].user
           c == order[o].contract
           price == request[o].plan.fill
           pos == ApplyExecution(position[u][c], order[o].side, order[o].qty, price)
           acc == FillAccount(wallet[u], position[u][c], order[o].side,
                              order[o].qty, price, Held(o))
<1>1. u \in Users /\ c \in Contracts
  BY FillInputs
<1>2. WalletTypeOK'
  <2>1. acc \in Accounts
    BY FillInputs, FillAccountDelta DEF MetPosition
  <2>2. wallet' = [wallet EXCEPT ![u] = acc]
    BY DEF Fill, ApplyFill
  <2> QED BY <1>1, <2>1, <2>2, WalletMove, TypeSplit DEF TypeParts
<1>3. PositionTypeOK'
  <2>1. pos \in Positions
    BY FillInputs, ApplyExecutionType DEF MetPosition
  <2>2. position' = [position EXCEPT ![u][c] = pos]
    BY DEF Fill, ApplyFill
  <2> HIDE DEF pos
  <2> QED BY <1>1, <2>1, <2>2, TypeSplit DEF TypeParts, PositionTypeOK
<1>4. OrderTypeOK'
  <2>1. [order[o] EXCEPT !.status = "executed"] \in OrderDoc
    BY FillInputs DEF OrderDoc
  <2>2. order' = [order EXCEPT ![o] = [order[o] EXCEPT !.status = "executed"]]
    BY TypeSplit DEF TypeParts, OrderTypeOK, Fill, ApplyFill
  <2> QED BY <2>1, <2>2, TypeSplit DEF TypeParts, OrderTypeOK
<1>5. ExecutionsTypeOK'
  <2> DEFINE e == [price |-> price, met |-> position[u][c].lots]
  <2>1. e \in Execution
    BY FillInputs DEF Execution, MetPosition, Positions
  <2>2. executions' = [executions EXCEPT ![o] = Append(@, e)]
    BY DEF Fill, ApplyFill
  <2>3. executions[o] \in Seq(Execution)
    BY TypeSplit DEF TypeParts, ExecutionsTypeOK
  <2> HIDE DEF e
  <2>4. Append(executions[o], e) \in Seq(Execution)
    BY <2>1, <2>3
  <2> QED BY <2>2, <2>4, TypeSplit DEF TypeParts, ExecutionsTypeOK
<1>6. RequestTypeOK'
  BY LeaveType DEF Fill
<1>7. UNCHANGED <<gate, funded, marketable>>
  BY DEF Fill
<1> QED BY <1>2, <1>3, <1>4, <1>5, <1>6, <1>7, TypeSplit, TypeJoin, Kept DEF TypeParts

LEMMA GateType ==
  ASSUME TypeOK, CloseGate \/ ReopenGate
  PROVE  TypeOK'
<1>1. GateTypeOK'
  <2>1. gate \in [open : BOOLEAN, version : Nat, closedAt : Nat]
    BY TypeSplit DEF TypeParts, GateTypeOK
  <2>2. gate.version + 1 \in Nat
    BY <2>1
  <2>3. CASE CloseGate
    <3>1. gate' \in [open : BOOLEAN, version : Nat, closedAt : Nat]
      BY <2>2, <2>3 DEF CloseGate
    <3> QED BY <3>1 DEF GateTypeOK
  <2>4. CASE ReopenGate
    <3>1. PICK v \in {gate.version, gate.version + 1} :
            gate' = [gate EXCEPT !.open = TRUE, !.version = v]
      BY <2>4 DEF ReopenGate
    <3>2. v \in Nat
      BY <2>1, <2>2
    <3>3. gate' \in [open : BOOLEAN, version : Nat, closedAt : Nat]
      BY <2>1, <3>1, <3>2
    <3> QED BY <3>3 DEF GateTypeOK
  <2> QED BY <2>3, <2>4
<1>2. UNCHANGED <<ledgerVars, request>>
  BY DEF CloseGate, ReopenGate
<1> QED BY <1>1, <1>2, TypeSplit, TypeJoin, Kept DEF TypeParts, ledgerVars

LEMMA InitType == Init => TypeOK
<1> SUFFICES ASSUME Init PROVE TypeOK
  OBVIOUS
<1>1. WalletTypeOK
  BY DEF Init, WalletTypeOK, EmptyAccount, Accounts
<1>2. PositionTypeOK
  BY DEF Init, PositionTypeOK, FlatPosition, Positions
<1>3. OrderTypeOK /\ ExecutionsTypeOK
  BY DEF Init, OrderTypeOK, ExecutionsTypeOK
<1>4. RequestTypeOK
  BY DEF Init, RequestTypeOK, NoRequest, GoneRequest
<1>5. GateTypeOK /\ FundedTypeOK /\ MarkTypeOK
  BY DEF Init, GateTypeOK, FundedTypeOK, MarkTypeOK
<1> QED BY <1>1, <1>2, <1>3, <1>4, <1>5, InitJoin DEF TypeParts

LEMMA NextType == TypeOK /\ [Next]_vars => TypeOK'
<1> SUFFICES ASSUME TypeOK, [Next]_vars PROVE TypeOK'
  OBVIOUS
<1>1. ASSUME NEW u \in Users, NEW a \in Amounts, AdminCredit(u, a) \/ AdminDebit(u, a)
      PROVE  TypeOK'
  BY <1>1, AdminType
<1>2. ASSUME NEW o \in OrderIds, NEW in \in Requests, Receive(o, in)
      PROVE  TypeOK'
  BY <1>2, ReceiveType
<1>3. ASSUME NEW o \in OrderIds, UserCancel(o) \/ GateCancel(o) \/ Disconnect(o)
      PROVE  TypeOK'
  BY <1>3, CancellationType, RefuseType
<1>4. ASSUME NEW r \in Replicas, Crash(r) PROVE TypeOK'
  BY <1>4, CrashType
<1>5. CASE CloseGate \/ ReopenGate
  BY <1>5, GateType
<1>6. ASSUME NEW o \in OrderIds, Handler(o) PROVE TypeOK'
  BY <1>6, PlanType, RefuseType, CreateType, RetryType, FillType, CancellationType
  DEF Handler
<1>7. CASE UNCHANGED vars
  BY <1>7, TypeSplit, TypeJoin, Kept DEF vars, TypeParts
<1> QED BY <1>1, <1>2, <1>3, <1>4, <1>5, <1>6, <1>7 DEF Next, Environment

\* Every document and handler record keeps its shape, whatever the users,
\* prices and requests and however many of them there are.
THEOREM TypeCorrect == Spec => []TypeOK
<1>1. Init => TypeOK
  BY InitType
<1>2. TypeOK /\ [Next]_vars => TypeOK'
  BY NextType
<1> QED BY <1>1, <1>2, PTL DEF Spec

-----------------------------------------------------------------------------
(* A step leaves the documents alone, or is one of four writers.           *)

AdminStep == \E u \in Users, a \in Amounts : AdminCredit(u, a) \/ AdminDebit(u, a)

LEMMA StepCases ==
  ASSUME [Next]_vars
  PROVE  \/ UNCHANGED ledgerVars
         \/ AdminStep
         \/ \E o \in OrderIds : Create(o) \/ Fill(o) \/ CancelDoc(o)
<1>1. ASSUME NEW o \in OrderIds, NEW in \in Requests, Receive(o, in)
      PROVE  UNCHANGED ledgerVars
  BY <1>1 DEF Receive
<1>2. ASSUME NEW o \in OrderIds, Disconnect(o) PROVE UNCHANGED ledgerVars
  BY <1>2 DEF Disconnect
<1>3. ASSUME NEW o \in OrderIds, UserCancel(o) \/ GateCancel(o) PROVE CancelDoc(o)
  BY <1>3 DEF UserCancel, GateCancel
<1>4. ASSUME NEW r \in Replicas, Crash(r) PROVE UNCHANGED ledgerVars
  BY <1>4 DEF Crash
<1>5. CASE CloseGate \/ ReopenGate
  BY <1>5 DEF CloseGate, ReopenGate
<1>6. ASSUME NEW o \in OrderIds, Handler(o)
      PROVE  UNCHANGED ledgerVars \/ Create(o) \/ Fill(o) \/ CancelDoc(o)
  BY <1>6
  DEF Handler, Plan, PlanRefused, CreateRefused, CreateFenced, Reread,
      RereadRefused, FillFenced, FillDenied, FillStale, Undo
<1>7. CASE UNCHANGED vars
  BY <1>7 DEF vars, ledgerVars
<1> QED BY <1>1, <1>2, <1>3, <1>4, <1>5, <1>6, <1>7 DEF Next, Environment, AdminStep

-----------------------------------------------------------------------------
(* No document before the insert.                                          *)

EarlyStages == {"idle", "received", "planned", "retrying"}
Early(o) == request[o].stage \in EarlyStages

Unborn == \A o \in OrderIds : Early(o) => order[o] = NoOrder /\ executions[o] = <<>>

\* No step but Receive starts a request, and none comes back to an early stage.
LEMMA StagesAdvance ==
  ASSUME TypeOK, [Next]_vars, NEW o \in OrderIds, request'[o].stage \in EarlyStages
  PROVE  Early(o)
<1>1. request \in [OrderIds -> ActiveRequest \cup GoneRequest]
  BY TypeSplit DEF TypeParts, RequestTypeOK
<1>2. CASE UNCHANGED request
  BY <1>2 DEF Early
<1>3. ASSUME NEW p \in OrderIds, NEW r, request' = [request EXCEPT ![p] = r], p # o
      PROVE  Early(o)
  BY <1>1, <1>3 DEF Early
<1>4. ASSUME NEW p \in OrderIds, NEW in \in Requests, Receive(p, in) PROVE Early(o)
  BY <1>1, <1>4 DEF Receive, Early, EarlyStages
<1>5. ASSUME NEW p \in OrderIds, Disconnect(p) PROVE Early(o)
  BY <1>1, <1>5 DEF Disconnect, Leave, Early, EarlyStages
<1>6. ASSUME NEW r \in Replicas, Crash(r) PROVE Early(o)
  BY <1>1, <1>6 DEF Crash, Early, EarlyStages
<1>7. ASSUME NEW p \in OrderIds, Handler(p) PROVE Early(o)
  <2>1. CASE Plan(p) \/ PlanRefused(p) \/ Reread(p) \/ RereadRefused(p)
    BY <1>1, <2>1 DEF Plan, PlanRefused, Reread, RereadRefused, Leave, Early, EarlyStages
  <2>2. CASE Create(p) \/ CreateRefused(p) \/ CreateFenced(p)
    BY <1>1, <2>2 DEF Create, CreateRefused, CreateFenced, Leave, Early, EarlyStages
  <2>3. CASE Fill(p) \/ FillStale(p) \/ Undo(p)
    <3>1. request' = [request EXCEPT ![p] = [stage |-> "returned"]]
      BY <2>3 DEF Fill, FillStale, Undo, Leave
    <3> QED BY <1>1, <3>1 DEF Early, EarlyStages
  <2>4. CASE FillFenced(p) \/ FillDenied(p)
    <3>1. request[p] \in ActiveRequest
      BY <2>4, ActiveRequestType DEF FillFenced, FillDenied, Stages
    <3>2. request'[p].stage \in {"filling", "undoing"}
      BY <1>1, <2>4, <3>1 DEF FillFenced, FillDenied, Goto, ActiveRequest
    <3>3. p # o => request'[o] = request[o]
      BY <1>1, <2>4 DEF FillFenced, FillDenied, Goto
    <3> QED BY <3>2, <3>3 DEF Early, EarlyStages
  <2> QED BY <1>7, <2>1, <2>2, <2>3, <2>4 DEF Handler
<1>8. ASSUME NEW u \in Users, NEW a \in Amounts, AdminCredit(u, a) \/ AdminDebit(u, a)
      PROVE  UNCHANGED request
  BY <1>8 DEF AdminCredit, AdminDebit
<1>9. ASSUME NEW p \in OrderIds, UserCancel(p) \/ GateCancel(p) PROVE UNCHANGED request
  BY <1>9 DEF UserCancel, GateCancel
<1>10. CASE CloseGate \/ ReopenGate \/ UNCHANGED vars
  BY <1>2, <1>10 DEF CloseGate, ReopenGate, vars
<1> QED BY <1>2, <1>4, <1>5, <1>6, <1>7, <1>8, <1>9, <1>10 DEF Next, Environment

LEMMA UnbornStep ==
  ASSUME TypeOK, Unborn, [Next]_vars
  PROVE  Unborn'
<1> SUFFICES ASSUME NEW o \in OrderIds, request'[o].stage \in EarlyStages
             PROVE  order'[o] = NoOrder /\ executions'[o] = <<>>
  BY DEF Unborn, Early
<1>1. Early(o) /\ order[o] = NoOrder /\ executions[o] = <<>>
  BY StagesAdvance DEF Unborn
<1>2. TypeParts
  BY TypeSplit
<1>3. CASE UNCHANGED ledgerVars \/ AdminStep
  <2>1. UNCHANGED <<order, executions>>
    BY <1>3 DEF ledgerVars, AdminStep, AdminCredit, AdminDebit
  <2> QED BY <1>1, <2>1
<1>4. ASSUME NEW p \in OrderIds, Create(p)
      PROVE  order'[o] = NoOrder /\ executions'[o] = <<>>
  <2>1. p # o
    BY <1>2, <1>4
    DEF Create, Leave, EarlyStages, TypeParts, RequestTypeOK, ActiveRequest, GoneRequest
  <2> QED BY <1>1, <1>2, <1>4, <2>1 DEF Create, TypeParts, OrderTypeOK
<1>5. ASSUME NEW p \in OrderIds, Fill(p) \/ CancelDoc(p)
      PROVE  order'[o] = NoOrder /\ executions'[o] = <<>>
  <2>1. p # o
    BY <1>1, <1>5 DEF Fill, CancelDoc, Cancellable, Working, NoOrder
  <2> QED BY <1>1, <1>2, <1>5, <2>1
      DEF Fill, ApplyFill, CancelDoc, TypeParts, OrderTypeOK, ExecutionsTypeOK
<1> QED BY <1>3, <1>4, <1>5, StepCases

-----------------------------------------------------------------------------
(* One fate.                                                               *)

FateInv == TypeOK /\ Unborn /\ OneFate

LEMMA OneFateStep ==
  ASSUME TypeOK, Unborn, OneFate, [Next]_vars
  PROVE  OneFate'
<1> DEFINE Good(o) == Len(executions[o]) = IF order[o].status = "executed" THEN 1 ELSE 0
<1>1. TypeParts /\ \A o \in OrderIds : Good(o)
  BY TypeSplit DEF OneFate, Fills
<1>2. SUFFICES ASSUME NEW o \in OrderIds
               PROVE  Len(executions'[o]) = IF order'[o].status = "executed" THEN 1 ELSE 0
  BY DEF OneFate, Fills
<1>3. CASE UNCHANGED ledgerVars \/ AdminStep
  <2>1. UNCHANGED <<order, executions>>
    BY <1>3 DEF ledgerVars, AdminStep, AdminCredit, AdminDebit
  <2> QED BY <1>1, <2>1
<1>4. ASSUME NEW p \in OrderIds, Create(p)
      PROVE  Len(executions'[o]) = IF order'[o].status = "executed" THEN 1 ELSE 0
  <2>1. executions[p] = <<>>
    BY <1>4 DEF Create, Unborn, Early, EarlyStages
  <2>2. UNCHANGED executions /\ order'[o].status = IF o = p THEN "open" ELSE order[o].status
    BY <1>1, <1>4 DEF Create, TypeParts, OrderTypeOK
  <2> QED BY <1>1, <2>1, <2>2
<1>5. ASSUME NEW p \in OrderIds, Fill(p)
      PROVE  Len(executions'[o]) = IF order'[o].status = "executed" THEN 1 ELSE 0
  <2>1. order[p].status = "open" /\ Len(executions[p]) = 0
    BY <1>1, <1>5 DEF Fill, Working
  <2>2. order[p] \in OrderDoc /\ executions[p] \in Seq(Execution)
    BY <1>1, <1>5, FillInputs DEF TypeParts, ExecutionsTypeOK
  <2>3. /\ order'[o].status = IF o = p THEN "executed" ELSE order[o].status
        /\ o # p => executions'[o] = executions[o]
    BY <1>1, <1>5, <2>2
    DEF Fill, ApplyFill, TypeParts, OrderTypeOK, ExecutionsTypeOK, OrderDoc
  <2>4. Len(executions'[p]) = 1
    <3>1. PICK e : executions'[p] = Append(executions[p], e)
      BY <1>1, <1>5 DEF Fill, ApplyFill, TypeParts, ExecutionsTypeOK
    <3>2. Len(Append(executions[p], e)) = Len(executions[p]) + 1
      BY <2>2
    <3> QED BY <2>1, <3>1, <3>2
  <2> QED BY <1>1, <2>3, <2>4
<1>6. ASSUME NEW p \in OrderIds, CancelDoc(p)
      PROVE  Len(executions'[o]) = IF order'[o].status = "executed" THEN 1 ELSE 0
  <2>1. order[p].status = "open" /\ order[p] \in OrderDoc
    BY <1>6, ExistingOrderType DEF CancelDoc, Cancellable, Working
  <2>2. /\ UNCHANGED executions
        /\ order'[o].status = IF o = p THEN "cancelled" ELSE order[o].status
    BY <1>1, <1>6, <2>1 DEF CancelDoc, TypeParts, OrderTypeOK, OrderDoc
  <2> QED BY <1>1, <2>1, <2>2
<1> QED BY <1>3, <1>4, <1>5, <1>6, StepCases

LEMMA FinishedStep ==
  ASSUME TypeOK, Unborn, [Next]_vars
  PROVE  \A o \in OrderIds :
           order[o].status \in {"executed", "cancelled"} =>
             order'[o] = order[o] /\ executions'[o] = executions[o]
<1> TAKE o \in OrderIds
<1> HAVE order[o].status \in {"executed", "cancelled"}
<1>1. TypeParts
  BY TypeSplit
<1>2. CASE UNCHANGED ledgerVars \/ AdminStep
  BY <1>2 DEF ledgerVars, AdminStep, AdminCredit, AdminDebit
<1>3. ASSUME NEW p \in OrderIds, Create(p)
      PROVE  order'[o] = order[o] /\ executions'[o] = executions[o]
  <2>1. p # o
    BY <1>3 DEF Create, Unborn, Early, EarlyStages, NoOrder
  <2> QED BY <1>1, <1>3, <2>1 DEF Create, TypeParts, OrderTypeOK
<1>4. ASSUME NEW p \in OrderIds, Fill(p) \/ CancelDoc(p)
      PROVE  order'[o] = order[o] /\ executions'[o] = executions[o]
  <2>1. p # o
    BY <1>4 DEF Fill, CancelDoc, Cancellable, Working
  <2> QED BY <1>1, <1>4, <2>1
      DEF Fill, ApplyFill, CancelDoc, TypeParts, OrderTypeOK, ExecutionsTypeOK
<1> QED BY <1>2, <1>3, <1>4, StepCases

LEMMA FateInit == Init => Unborn /\ OneFate
BY DEF Init, Unborn, OneFate, Fills, NoOrder

\* A fill, a user cancel, a gate job and the handler's own cancellation race
\* for an order: exactly one of them decides it, in every instance.
THEOREM OneFateHolds == Spec => []OneFate
<1>1. Init => FateInv
  BY InitType, FateInit DEF FateInv
<1>2. FateInv /\ [Next]_vars => FateInv'
  <2> SUFFICES ASSUME FateInv, [Next]_vars PROVE FateInv'
    OBVIOUS
  <2>1. TypeOK /\ Unborn /\ OneFate
    BY DEF FateInv
  <2>2. TypeOK' /\ Unborn' /\ OneFate'
    BY <2>1, NextType, UnbornStep, OneFateStep
  <2> QED BY <2>2 DEF FateInv
<1>3. FateInv => OneFate
  BY DEF FateInv
<1> QED BY <1>1, <1>2, <1>3, PTL DEF Spec

\* A finished order and its executions never change again.
THEOREM FinishedOrdersStayHolds == Spec => FinishedOrdersStay
<1>1. Init => FateInv
  BY InitType, FateInit DEF FateInv
<1>2. FateInv /\ [Next]_vars => FateInv'
  <2> SUFFICES ASSUME FateInv, [Next]_vars PROVE FateInv'
    OBVIOUS
  <2>1. TypeOK /\ Unborn /\ OneFate
    BY DEF FateInv
  <2>2. TypeOK' /\ Unborn' /\ OneFate'
    BY <2>1, NextType, UnbornStep, OneFateStep
  <2> QED BY <2>2 DEF FateInv
<1>3. FateInv /\ [Next]_vars =>
        [\A o \in OrderIds :
           order[o].status \in {"executed", "cancelled"} =>
             order'[o] = order[o] /\ executions'[o] = executions[o]]_vars
  BY FinishedStep DEF FateInv
<1> QED BY <1>1, <1>2, <1>3, PTL DEF Spec, FinishedOrdersStay

-----------------------------------------------------------------------------
(* Solvency.                                                               *)

SolventAccount(w) ==
  /\ w.available = w.cash - w.reserved
  /\ w.available >= 0
  /\ w.reserved >= 0

\* A fill the wallet accepts keeps the account it works on solvent.
LEMMA SolventFill ==
  ASSUME TypeOK, NEW o \in OrderIds, Fill(o), SolventAccount(wallet[order[o].user])
  PROVE  SolventAccount(wallet'[order[o].user])
<1> DEFINE w == wallet[order[o].user]
           v == FillAccount(w, MetPosition(o), order[o].side, order[o].qty,
                            request[o].plan.fill, Held(o))
<1>1. v \in Accounts /\ w \in Accounts
  BY FillInputs, FillAccountDelta
<1>2. v.available = w.available + (v.cash - w.cash) - (v.reserved - w.reserved)
  <2>1. FillDelta(w, v, MetPosition(o), order[o].side, order[o].qty,
                  request[o].plan.fill, Held(o))
    BY FillInputs, FillAccountDelta
  <2> HIDE DEF w, v
  <2> QED BY <2>1, Zenon DEF FillDelta
<1>3. w.available >= 0 /\ w.reserved >= 0
  BY DEF SolventAccount
<1>4. CanFill(w, MetPosition(o), order[o].side, order[o].qty,
              request[o].plan.fill, Held(o))
  BY DEF Fill, FundsSuffice
<1>5. v.available >= 0 /\ v.reserved >= 0
  BY <1>3, <1>4, FillInputs, FillAccountSolvent
<1>6. wallet'[order[o].user] = v
  BY FillInputs, TypeSplit
  DEF Fill, ApplyFill, MetPosition, TypeParts, WalletTypeOK
<1> HIDE DEF v, w
<1>7. v.available = v.cash - v.reserved
  BY <1>1, <1>2 DEF SolventAccount, Accounts, w
<1> QED BY <1>5, <1>6, <1>7 DEF SolventAccount

\* Crediting, debiting what is available, reserving what is available and
\* releasing what is reserved keep an account solvent.
LEMMA SolventMutate ==
  ASSUME NEW w \in Accounts, NEW c \in Int, NEW r \in Int, SolventAccount(w),
         w.available + c - r >= 0, w.reserved + r >= 0
  PROVE  SolventAccount(Mutate(w, c, r))
<1>1. /\ Mutate(w, c, r).cash = w.cash + c
      /\ Mutate(w, c, r).reserved = w.reserved + r
      /\ Mutate(w, c, r).available = w.available + c - r
  BY MutateType
<1> QED BY <1>1 DEF SolventAccount, Accounts

LEMMA SolventStep ==
  ASSUME TypeOK, Solvent, [Next]_vars
  PROVE  Solvent'
<1> SUFFICES ASSUME NEW u \in Users PROVE SolventAccount(wallet'[u])
  BY DEF Solvent, SolventAccount
<1>1. /\ wallet \in [Users -> Accounts] /\ wallet[u] \in Accounts
      /\ SolventAccount(wallet[u])
  BY TypeSplit DEF TypeParts, WalletTypeOK, Solvent, SolventAccount
<1>2. CASE UNCHANGED ledgerVars
  BY <1>1, <1>2 DEF ledgerVars
<1>3. ASSUME NEW x \in Users, NEW a \in Amounts, AdminCredit(x, a) \/ AdminDebit(x, a)
      PROVE  SolventAccount(wallet'[u])
  <2>1. CASE x # u
    BY <1>1, <1>3, <2>1 DEF AdminCredit, AdminDebit
  <2>2. a \in Nat /\ a > 0 /\ a \in Int /\ -a \in Int /\ 0 \in Int
    BY Naturals
  <2>3. CASE x = u /\ AdminCredit(x, a)
    <3>1. wallet'[u] = Mutate(wallet[u], a, 0)
      BY <1>1, <2>3 DEF AdminCredit
    <3>2. wallet[u].available + a - 0 >= 0 /\ wallet[u].reserved + 0 >= 0
      BY <1>1, <2>2 DEF SolventAccount, Accounts
    <3> QED BY <1>1, <2>2, <3>1, <3>2, SolventMutate
  <2>4. CASE x = u /\ AdminDebit(x, a)
    <3>1. wallet'[u] = Mutate(wallet[u], -a, 0) /\ wallet[u].available >= a
      BY <1>1, <2>4 DEF AdminDebit
    <3>2. wallet[u].available + (-a) - 0 >= 0 /\ wallet[u].reserved + 0 >= 0
      BY <1>1, <2>2, <3>1 DEF SolventAccount, Accounts
    <3> QED BY <1>1, <2>2, <3>1, <3>2, SolventMutate
  <2> QED BY <1>3, <2>1, <2>3, <2>4
<1>4. ASSUME NEW o \in OrderIds, Create(o) PROVE SolventAccount(wallet'[u])
  <2> DEFINE x == request[o].in.user
             m == PlannedReserve(o)
  <2>1. m \in Nat
    BY <1>4, PlannedReserveType DEF Create, Stages
  <2>2. CASE x # u
    BY <1>1, <1>4, <2>2 DEF Create
  <2>3. CASE x = u
    <3>1. wallet'[u] = Mutate(wallet[u], 0, m) /\ Covers(wallet[u].available, m)
      BY <1>1, <1>4, <2>3 DEF Create, CreateAllowed, Reserve, CanReserve
    <3> HIDE DEF m
    <3>2. wallet[u].available + 0 - m >= 0 /\ wallet[u].reserved + m >= 0
      BY <1>1, <2>1, <3>1 DEF SolventAccount, Accounts, Covers
    <3>3. m \in Int /\ 0 \in Int
      BY <2>1
    <3> QED BY <1>1, <3>1, <3>2, <3>3, SolventMutate
  <2> QED BY <2>2, <2>3
<1>5. ASSUME NEW o \in OrderIds, Fill(o) PROVE SolventAccount(wallet'[u])
  <2>1. CASE order[o].user = u
    BY <1>1, <1>5, <2>1, SolventFill
  <2>2. CASE order[o].user # u
    BY <1>1, <1>5, <2>2 DEF Fill, ApplyFill
  <2> QED BY <2>1, <2>2
<1>6. ASSUME NEW o \in OrderIds, CancelDoc(o) PROVE SolventAccount(wallet'[u])
  <2> DEFINE h == Held(o)
  <2>1. h \in Nat
    BY HeldType
  <2>2. CASE order[o].user # u
    BY <1>1, <1>6, <2>2 DEF CancelDoc
  <2>3. CASE order[o].user = u
    <3>1. wallet'[u] = Mutate(wallet[u], 0, -h) /\ Covers(wallet[u].reserved, h)
      BY <1>1, <1>6, <2>3 DEF CancelDoc, Cancellable, CanRelease, Release
    <3> HIDE DEF h
    <3>2. wallet[u].available + 0 - (-h) >= 0 /\ wallet[u].reserved + (-h) >= 0
      BY <1>1, <2>1, <3>1 DEF SolventAccount, Accounts, Covers
    <3>3. -h \in Int /\ 0 \in Int
      BY <2>1
    <3> QED BY <1>1, <3>1, <3>2, <3>3, SolventMutate
  <2> QED BY <2>2, <2>3
<1> QED BY <1>2, <1>3, <1>4, <1>5, <1>6, StepCases DEF AdminStep

SolventInv == TypeOK /\ Solvent

LEMMA SolventInit == Init => Solvent
BY DEF Init, Solvent, EmptyAccount

\* No interleaving of orders, fills, cancels, admin debits and crashes
\* overdraws a balance, and the three stored balances always agree.
THEOREM SolventHolds == Spec => []Solvent
<1>1. Init => SolventInv
  BY InitType, SolventInit DEF SolventInv
<1>2. SolventInv /\ [Next]_vars => SolventInv'
  <2> SUFFICES ASSUME SolventInv, [Next]_vars PROVE SolventInv'
    OBVIOUS
  <2>1. TypeOK' /\ Solvent'
    BY NextType, SolventStep DEF SolventInv
  <2> QED BY <2>1 DEF SolventInv
<1>3. SolventInv => Solvent
  BY DEF SolventInv
<1> QED BY <1>1, <1>2, <1>3, PTL DEF Spec

-----------------------------------------------------------------------------
(* The reserved balance.                                                   *)

\* What one order document contributes to the reserved balance of u.
HeldOf(u, d) == IF d.status = "open" /\ d.user = u THEN d.reserved ELSE 0

LEMMA HeldOfType ==
  ASSUME NEW u, NEW d \in OrderDoc \cup {NoOrder}
  PROVE  HeldOf(u, d) \in Nat
BY DEF HeldOf, OrderDoc, NoOrder

LEMMA HeldValues ==
  ASSUME TypeOK, NEW u \in Users
  PROVE  \A o \in 1 .. MaxOrders :
           HeldBy(u)[o] = HeldOf(u, order[o]) /\ HeldBy(u)[o] \in Nat
<1> TAKE o \in 1 .. MaxOrders
<1>1. HeldBy(u)[o] = HeldOf(u, order[o])
  BY DEF HeldBy, HeldOf, Working, OrderIds
<1>2. order[o] \in OrderDoc \cup {NoOrder}
  BY TypeSplit DEF TypeParts, OrderTypeOK, OrderIds
<1> QED BY <1>1, <1>2, HeldOfType

LEMMA HeldValuesNext ==
  ASSUME OrderTypeOK', NEW u \in Users
  PROVE  \A o \in 1 .. MaxOrders :
           (HeldBy(u)')[o] = HeldOf(u, order'[o]) /\ (HeldBy(u)')[o] \in Nat
<1> TAKE o \in 1 .. MaxOrders
<1>1. (HeldBy(u)')[o] = HeldOf(u, order'[o])
  BY DEF HeldBy, HeldOf, Working, OrderIds
<1>2. order'[o] \in OrderDoc \cup {NoOrder}
  BY DEF OrderTypeOK, OrderIds
<1> QED BY <1>1, <1>2, HeldOfType

LEMMA CollateralValues ==
  ASSUME TypeOK, NEW u \in Users
  PROVE  \A c \in 1 .. NContracts :
           CollateralOf(u)[c] = position[u][c].collateral /\ CollateralOf(u)[c] \in Nat
BY TypeSplit DEF TypeParts, PositionTypeOK, Positions, CollateralOf, Contracts

LEMMA CollateralValuesNext ==
  ASSUME PositionTypeOK', NEW u \in Users
  PROVE  \A c \in 1 .. NContracts :
           /\ (CollateralOf(u)')[c] = position'[u][c].collateral
           /\ (CollateralOf(u)')[c] \in Nat
BY DEF PositionTypeOK, Positions, CollateralOf, Contracts

LEMMA Bounds == MaxOrders \in Nat \ {0} /\ NContracts \in Nat \ {0}
BY TradingAssumption

\* Writing one order changes the margin held for u by that order's share.
LEMMA HeldChange ==
  ASSUME TypeOK, TypeOK', NEW u \in Users, NEW o \in OrderIds,
         \A p \in OrderIds : p # o => order'[p] = order[p]
  PROVE  Total(HeldBy(u)', MaxOrders)
           = Total(HeldBy(u), MaxOrders) + HeldOf(u, order'[o]) - HeldOf(u, order[o])
<1> DEFINE f == HeldBy(u)
           g == HeldBy(u)'
<1>1. OrderTypeOK'
  BY DEF TypeOK, OrderTypeOK
<1>2. \A p \in 1 .. MaxOrders : f[p] = HeldOf(u, order[p]) /\ f[p] \in Nat
  BY HeldValues
<1>3. \A p \in 1 .. MaxOrders : g[p] = HeldOf(u, order'[p]) /\ g[p] \in Nat
  BY <1>1, HeldValuesNext
<1>4. o \in 1 .. MaxOrders /\ MaxOrders \in Nat
  BY Bounds DEF OrderIds
<1> HIDE DEF f, g
<1>5. \A p \in 1 .. MaxOrders : f[p] \in Int /\ g[p] \in Int
  BY <1>2, <1>3
<1>6. \A p \in 1 .. MaxOrders : p # o => g[p] = f[p]
  BY <1>2, <1>3 DEF OrderIds
<1>7. Total(g, MaxOrders) = Total(f, MaxOrders) + g[o] - f[o]
  BY <1>4, <1>5, <1>6, TotalUpdate, Zenon
<1> QED BY <1>2, <1>3, <1>4, <1>7 DEF f, g

LEMMA HeldKept ==
  ASSUME TypeOK, NEW u \in Users, UNCHANGED order
  PROVE  Total(HeldBy(u)', MaxOrders) = Total(HeldBy(u), MaxOrders)
<1>1. HeldBy(u)' = HeldBy(u)
  BY DEF HeldBy, Working
<1> QED BY <1>1

\* Writing one projection changes the collateral of its owner only.
LEMMA CollateralChange ==
  ASSUME TypeOK, TypeOK', NEW u \in Users, NEW c \in Contracts,
         \A d \in Contracts : d # c => position'[u][d] = position[u][d]
  PROVE  Total(CollateralOf(u)', NContracts)
           = Total(CollateralOf(u), NContracts)
               + position'[u][c].collateral - position[u][c].collateral
<1> DEFINE f == CollateralOf(u)
           g == CollateralOf(u)'
<1>1. PositionTypeOK'
  BY DEF TypeOK, PositionTypeOK, Positions
<1>2. \A d \in 1 .. NContracts : f[d] = position[u][d].collateral /\ f[d] \in Nat
  BY CollateralValues
<1>3. \A d \in 1 .. NContracts : g[d] = position'[u][d].collateral /\ g[d] \in Nat
  BY <1>1, CollateralValuesNext
<1>4. c \in 1 .. NContracts /\ NContracts \in Nat
  BY Bounds DEF Contracts
<1> HIDE DEF f, g
<1>5. \A d \in 1 .. NContracts : f[d] \in Int /\ g[d] \in Int
  BY <1>2, <1>3
<1>6. \A d \in 1 .. NContracts : d # c => g[d] = f[d]
  BY <1>2, <1>3 DEF Contracts
<1>7. Total(g, NContracts) = Total(f, NContracts) + g[c] - f[c]
  BY <1>4, <1>5, <1>6, TotalUpdate, Zenon
<1> QED BY <1>2, <1>3, <1>4, <1>7 DEF f, g

LEMMA CollateralKept ==
  ASSUME NEW u \in Users, position'[u] = position[u]
  PROVE  Total(CollateralOf(u)', NContracts) = Total(CollateralOf(u), NContracts)
<1>1. CollateralOf(u)' = CollateralOf(u)
  BY DEF CollateralOf
<1> QED BY <1>1

\* What the reserved balance of u should be.
Due(u) == Total(HeldBy(u), MaxOrders) + Total(CollateralOf(u), NContracts)

LEMMA DueInt ==
  ASSUME TypeOK, NEW u \in Users
  PROVE  /\ Total(HeldBy(u), MaxOrders) \in Nat
         /\ Total(CollateralOf(u), NContracts) \in Nat
<1>1. \A o \in 1 .. MaxOrders : HeldBy(u)[o] \in Nat
  BY HeldValues
<1>2. \A c \in 1 .. NContracts : CollateralOf(u)[c] \in Nat
  BY CollateralValues
<1> QED BY <1>1, <1>2, Bounds, TotalNonNegative

BackedAccount(u) == wallet[u].reserved = Due(u)

LEMMA BackedCreate ==
  ASSUME TypeOK, TypeOK', Unborn, NEW u \in Users, BackedAccount(u),
         NEW o \in OrderIds, Create(o)
  PROVE  BackedAccount(u)'
<1> DEFINE m == PlannedReserve(o)
           in == request[o].in
<1>1. request[o].stage = "planned" /\ order[o] = NoOrder
  BY DEF Create, Unborn, Early, EarlyStages
<1>2. m \in Nat
  BY <1>1, PlannedReserveType DEF Stages
<1>3. /\ order' = [order EXCEPT ![o] = Inserted(o)]
      /\ wallet' = [wallet EXCEPT ![in.user] = Mutate(@, 0, m)]
      /\ UNCHANGED position
  BY DEF Create, Inserted, Reserve
<1>4. order'[o] = Inserted(o) /\ \A p \in OrderIds : p # o => order'[p] = order[p]
  BY <1>3, TypeSplit DEF TypeParts, OrderTypeOK
<1>5. Total(CollateralOf(u)', NContracts) = Total(CollateralOf(u), NContracts)
  BY <1>3, CollateralKept
<1>6. Total(HeldBy(u)', MaxOrders)
        = Total(HeldBy(u), MaxOrders) + HeldOf(u, order'[o]) - HeldOf(u, order[o])
  BY <1>4, HeldChange
<1>7. HeldOf(u, order[o]) = 0
  BY <1>1 DEF HeldOf, NoOrder
<1>8. HeldOf(u, order'[o]) = IF in.user = u THEN m ELSE 0
  BY <1>4 DEF HeldOf, Inserted
<1>9. wallet'[u].reserved = wallet[u].reserved + IF in.user = u THEN m ELSE 0
  <2>1. wallet \in [Users -> Accounts] /\ wallet[u].reserved \in Int
    BY TypeSplit DEF TypeParts, WalletTypeOK, Accounts
  <2>2. wallet'[u] = IF in.user = u THEN Mutate(wallet[u], 0, m) ELSE wallet[u]
    BY <1>3, <2>1
  <2>3. Mutate(wallet[u], 0, m).reserved = wallet[u].reserved + m
    BY DEF Mutate
  <2> QED BY <2>1, <2>2, <2>3
<1> HIDE DEF m, in
<1> QED BY <1>2, <1>5, <1>6, <1>7, <1>8, <1>9, DueInt DEF BackedAccount, Due

LEMMA BackedCancel ==
  ASSUME TypeOK, TypeOK', NEW u \in Users, BackedAccount(u),
         NEW o \in OrderIds, CancelDoc(o)
  PROVE  BackedAccount(u)'
<1> DEFINE h == Held(o)
           owner == order[o].user
<1>1. h \in Nat /\ h = order[o].reserved /\ order[o].status = "open"
  BY HeldType DEF Held, CancelDoc, Cancellable, Working
<1>2. order[o] \in OrderDoc
  BY <1>1, ExistingOrderType
<1>3. /\ order' = [order EXCEPT ![o] = [order[o] EXCEPT !.status = "cancelled"]]
      /\ wallet' = [wallet EXCEPT ![owner] = Mutate(@, 0, -h)]
      /\ UNCHANGED position
  BY TypeSplit DEF TypeParts, OrderTypeOK, CancelDoc, Release
<1>4. /\ order'[o].status = "cancelled"
      /\ \A p \in OrderIds : p # o => order'[p] = order[p]
  BY <1>2, <1>3, TypeSplit DEF TypeParts, OrderTypeOK, OrderDoc
<1>5. Total(CollateralOf(u)', NContracts) = Total(CollateralOf(u), NContracts)
  BY <1>3, CollateralKept
<1>6. Total(HeldBy(u)', MaxOrders)
        = Total(HeldBy(u), MaxOrders) + HeldOf(u, order'[o]) - HeldOf(u, order[o])
  BY <1>4, HeldChange
<1>7. HeldOf(u, order[o]) = IF owner = u THEN h ELSE 0
  BY <1>1 DEF HeldOf
<1>8. HeldOf(u, order'[o]) = 0
  BY <1>4 DEF HeldOf
<1>9. wallet'[u].reserved = wallet[u].reserved - IF owner = u THEN h ELSE 0
  <2>1. wallet \in [Users -> Accounts] /\ wallet[u].reserved \in Int
    BY TypeSplit DEF TypeParts, WalletTypeOK, Accounts
  <2>2. wallet'[u] = IF owner = u THEN Mutate(wallet[u], 0, -h) ELSE wallet[u]
    BY <1>3, <2>1
  <2>3. Mutate(wallet[u], 0, -h).reserved = wallet[u].reserved + (-h)
    BY DEF Mutate
  <2> HIDE DEF h, owner
  <2> QED BY <1>1, <2>1, <2>2, <2>3
<1> HIDE DEF h, owner
<1> QED BY <1>1, <1>5, <1>6, <1>7, <1>8, <1>9, DueInt DEF BackedAccount, Due

LEMMA BackedFill ==
  ASSUME TypeOK, TypeOK', NEW u \in Users, BackedAccount(u),
         NEW o \in OrderIds, Fill(o)
  PROVE  BackedAccount(u)'
<1> DEFINE owner == order[o].user
           c == order[o].contract
           h == Held(o)
           pos == MetPosition(o)
           price == request[o].plan.fill
           rel == CollateralRelease(pos, order[o].side, order[o].qty)
           add == CollateralAdded(pos, order[o].side, order[o].qty, price)
           new == ApplyExecution(pos, order[o].side, order[o].qty, price)
           acc == FillAccount(wallet[owner], pos, order[o].side, order[o].qty, price, h)
<1>1. h \in Nat /\ h = order[o].reserved /\ order[o].status = "open"
  BY HeldType DEF Held, Fill, Working
<1>2. /\ order[o] \in OrderDoc /\ owner \in Users /\ c \in Contracts
      /\ pos \in Positions /\ pos = position[owner][c]
  BY FillInputs DEF MetPosition
<1>3. /\ order' = [order EXCEPT ![o] = [order[o] EXCEPT !.status = "executed"]]
      /\ position' = [position EXCEPT ![owner] = [position[owner] EXCEPT ![c] = new]]
      /\ wallet' = [wallet EXCEPT ![owner] = acc]
  BY TypeSplit
  DEF TypeParts, OrderTypeOK, PositionTypeOK, WalletTypeOK, Fill, ApplyFill, MetPosition
<1>4. /\ order'[o].status = "executed"
      /\ \A p \in OrderIds : p # o => order'[p] = order[p]
  BY <1>2, <1>3, TypeSplit DEF TypeParts, OrderTypeOK, OrderDoc
<1>5. Total(HeldBy(u)', MaxOrders)
        = Total(HeldBy(u), MaxOrders) + HeldOf(u, order'[o]) - HeldOf(u, order[o])
  BY <1>4, HeldChange
<1>6. HeldOf(u, order[o]) = IF owner = u THEN h ELSE 0
  BY <1>1 DEF HeldOf
<1>7. HeldOf(u, order'[o]) = 0
  BY <1>4 DEF HeldOf
<1>8. position \in [Users -> [Contracts -> Positions]] /\ wallet \in [Users -> Accounts]
  BY TypeSplit DEF TypeParts, PositionTypeOK, WalletTypeOK
<1>9. CASE owner # u
  <2>1. wallet'[u] = wallet[u] /\ position'[u] = position[u]
    BY <1>3, <1>8, <1>9
  <2>2. Total(CollateralOf(u)', NContracts) = Total(CollateralOf(u), NContracts)
    BY <2>1, CollateralKept
  <2> HIDE DEF owner
  <2> QED BY <1>5, <1>6, <1>7, <1>9, <2>1, <2>2, DueInt DEF BackedAccount, Due
<1>10. CASE owner = u
  <2>1. wallet'[u] = acc /\ position'[u][c] = new
        /\ \A d \in Contracts : d # c => position'[u][d] = position[u][d]
    BY <1>2, <1>3, <1>8, <1>10
  <2>2. Total(CollateralOf(u)', NContracts)
          = Total(CollateralOf(u), NContracts)
              + position'[u][c].collateral - position[u][c].collateral
    BY <1>2, <2>1, CollateralChange
  <2>3. new.collateral = pos.collateral - rel + add
    BY DEF ApplyExecution
  <2>4. acc.reserved = wallet[u].reserved - h - rel + add
    <3>1. FillDelta(wallet[owner], acc, pos, order[o].side, order[o].qty,
                    price, h)
      BY FillInputs, FillAccountDelta
    <3> HIDE DEF acc, pos, price, h, owner
    <3> QED BY <1>10, <3>1, Zenon DEF FillDelta, rel, add
  <2>5. pos.collateral \in Nat /\ rel \in Nat /\ add \in Nat
    <3>1. rel \in 0 .. pos.collateral /\ add \in Nat
      BY FillInputs, CollateralMoves
    <3> QED BY <1>2, <3>1 DEF Positions
  <2>6. position[u][c].collateral = pos.collateral
    BY <1>2, <1>10
  <2> HIDE DEF owner, c, h, pos, price, rel, add, new, acc
  <2>7. Total(CollateralOf(u)', NContracts)
          = Total(CollateralOf(u), NContracts) - rel + add
    BY <2>1, <2>2, <2>3, <2>5, <2>6, DueInt
  <2>8. Total(HeldBy(u)', MaxOrders) = Total(HeldBy(u), MaxOrders) - h
    BY <1>1, <1>5, <1>6, <1>7, <1>10, DueInt
  <2>9. wallet[u].reserved
          = Total(HeldBy(u), MaxOrders) + Total(CollateralOf(u), NContracts)
    BY DEF BackedAccount, Due
  <2>10. wallet'[u].reserved
           = Total(HeldBy(u)', MaxOrders) + Total(CollateralOf(u)', NContracts)
    BY <1>1, <2>1, <2>4, <2>5, <2>7, <2>8, <2>9, DueInt
  <2> QED BY <2>10 DEF BackedAccount, Due
<1> QED BY <1>9, <1>10

LEMMA BackedStep ==
  ASSUME TypeOK, Unborn, ReserveBacked, [Next]_vars
  PROVE  ReserveBacked'
<1>1. TypeOK'
  BY NextType
<1> SUFFICES ASSUME NEW u \in Users PROVE BackedAccount(u)'
  BY DEF ReserveBacked, BackedAccount, Due
<1>2. BackedAccount(u)
  BY DEF ReserveBacked, BackedAccount, Due
<1>3. CASE UNCHANGED ledgerVars
  <2>1. UNCHANGED <<wallet, position, order>>
    BY <1>3 DEF ledgerVars
  <2> QED BY <1>2, <2>1, HeldKept, CollateralKept DEF BackedAccount, Due
<1>4. CASE AdminStep
  <2>1. UNCHANGED <<position, order>>
    BY <1>4 DEF AdminStep, AdminCredit, AdminDebit
  <2>2. wallet'[u].reserved = wallet[u].reserved
    <3>1. wallet \in [Users -> Accounts]
      BY TypeSplit DEF TypeParts, WalletTypeOK
    <3>2. PICK x \in Users, a \in Amounts : AdminCredit(x, a) \/ AdminDebit(x, a)
      BY <1>4 DEF AdminStep
    <3>3. wallet'[u].reserved \in {wallet[u].reserved, wallet[u].reserved + 0}
      BY <3>1, <3>2 DEF AdminCredit, AdminDebit, Mutate
    <3> QED BY <3>1, <3>3 DEF Accounts
  <2> QED BY <1>2, <2>1, <2>2, HeldKept, CollateralKept DEF BackedAccount, Due
<1>5. ASSUME NEW o \in OrderIds, Create(o) \/ Fill(o) \/ CancelDoc(o)
      PROVE  BackedAccount(u)'
  BY <1>1, <1>2, <1>5, BackedCreate, BackedFill, BackedCancel
<1> QED BY <1>3, <1>4, <1>5, StepCases

LEMMA BackedInit == Init => ReserveBacked
<1> SUFFICES ASSUME Init, NEW u \in Users
             PROVE  wallet[u].reserved = Total(HeldBy(u), MaxOrders)
                                           + Total(CollateralOf(u), NContracts)
  BY DEF ReserveBacked
<1>1. wallet[u].reserved = 0
  BY DEF Init, EmptyAccount
<1>2. \A o \in 1 .. MaxOrders : HeldBy(u)[o] = 0
  BY DEF Init, HeldBy, Working, NoOrder, OrderIds
<1>3. \A c \in 1 .. NContracts : CollateralOf(u)[c] = 0
  BY DEF Init, CollateralOf, FlatPosition, Contracts
<1>4. Total(HeldBy(u), MaxOrders) = 0 /\ Total(CollateralOf(u), NContracts) = 0
  BY <1>2, <1>3, Bounds, TotalZero
<1> QED BY <1>1, <1>4

BackedInv == TypeOK /\ Unborn /\ ReserveBacked

\* The reserved balance of every wallet is, at every instant and in every
\* instance, exactly the margin of the user's working orders plus the
\* collateral of its shorts.
THEOREM ReserveBackedHolds == Spec => []ReserveBacked
<1>1. Init => BackedInv
  BY InitType, FateInit, BackedInit DEF BackedInv
<1>2. BackedInv /\ [Next]_vars => BackedInv'
  <2> SUFFICES ASSUME BackedInv, [Next]_vars PROVE BackedInv'
    OBVIOUS
  <2>1. TypeOK' /\ Unborn' /\ ReserveBacked'
    BY NextType, UnbornStep, BackedStep DEF BackedInv
  <2> QED BY <2>1 DEF BackedInv
<1>3. BackedInv => ReserveBacked
  BY DEF BackedInv
<1> QED BY <1>1, <1>2, <1>3, PTL DEF Spec

\* The margin of a working order can always be given back: the wallet never
\* refuses a cancel.
LEMMA BackedReturnable == BackedInv => MarginReturnable
<1> SUFFICES ASSUME BackedInv, NEW o \in OrderIds, Working(o)
             PROVE  CanRelease(wallet[order[o].user], Held(o))
  BY DEF MarginReturnable
<1> DEFINE u == order[o].user
<1>1. TypeOK /\ order[o] \in OrderDoc /\ u \in Users
  BY ExistingOrderType DEF BackedInv, Working, OrderDoc
<1>2. /\ \A p \in 1 .. MaxOrders : HeldBy(u)[p] \in Nat
      /\ HeldBy(u)[o] = Held(o) /\ o \in 1 .. MaxOrders
  BY <1>1, HeldValues DEF HeldBy, Held, Working, OrderIds
<1>3. Total(HeldBy(u), MaxOrders) >= HeldBy(u)[o]
  BY <1>2, Bounds, TotalAtLeast
<1>4. wallet[u].reserved
        = Total(HeldBy(u), MaxOrders) + Total(CollateralOf(u), NContracts)
  BY <1>1 DEF BackedInv, ReserveBacked
<1>5. /\ Total(HeldBy(u), MaxOrders) \in Nat
      /\ Total(CollateralOf(u), NContracts) \in Nat /\ Held(o) \in Nat
  BY <1>1, DueInt, HeldType
<1> HIDE DEF u
<1>6. wallet[u].reserved >= Held(o)
  BY <1>2, <1>3, <1>4, <1>5
<1> QED BY <1>6 DEF CanRelease, Covers, u

\* No fill, cover or debit eats the balance a working order is reserved in.
THEOREM MarginReturnableHolds == Spec => []MarginReturnable
<1>1. Init => BackedInv
  BY InitType, FateInit, BackedInit DEF BackedInv
<1>2. BackedInv /\ [Next]_vars => BackedInv'
  <2> SUFFICES ASSUME BackedInv, [Next]_vars PROVE BackedInv'
    OBVIOUS
  <2>1. TypeOK' /\ Unborn' /\ ReserveBacked'
    BY NextType, UnbornStep, BackedStep DEF BackedInv
  <2> QED BY <2>1 DEF BackedInv
<1> QED BY <1>1, <1>2, BackedReturnable, PTL DEF Spec

-----------------------------------------------------------------------------
(* What one step does to one order and to its executions.                  *)

LEMMA DocumentStep ==
  ASSUME TypeOK, Unborn, [Next]_vars, NEW o \in OrderIds
  PROVE  \/ order'[o] = order[o]
         \/ /\ Create(o) /\ order[o] = NoOrder
            /\ order'[o] = Inserted(o) /\ Inserted(o) \in OrderDoc
         \/ /\ order[o] \in OrderDoc /\ Working(o)
            /\ \E s \in {"executed", "cancelled"} :
                 order'[o] = [order[o] EXCEPT !.status = s]
<1>1. TypeParts
  BY TypeSplit
<1>2. CASE UNCHANGED ledgerVars \/ AdminStep
  BY <1>2 DEF ledgerVars, AdminStep, AdminCredit, AdminDebit
<1>3. ASSUME NEW p \in OrderIds, Create(p), p # o PROVE order'[o] = order[o]
  BY <1>1, <1>3 DEF Create, TypeParts, OrderTypeOK
<1>4. ASSUME NEW p \in OrderIds, Fill(p) \/ CancelDoc(p), p # o
      PROVE  order'[o] = order[o]
  BY <1>1, <1>4 DEF Fill, ApplyFill, CancelDoc, TypeParts, OrderTypeOK
<1>5. CASE Create(o)
  <2>1. request[o].stage = "planned" /\ order[o] = NoOrder
    BY <1>5 DEF Create, Unborn, Early, EarlyStages
  <2>2. Inserted(o) \in OrderDoc
    BY <2>1, InsertedType DEF Stages
  <2>3. order' = [order EXCEPT ![o] = Inserted(o)]
    BY <1>5 DEF Create, Inserted
  <2> QED BY <1>1, <1>5, <2>1, <2>2, <2>3 DEF TypeParts, OrderTypeOK
<1>6. CASE Fill(o) \/ CancelDoc(o)
  <2>1. Working(o) /\ order[o] \in OrderDoc
    BY <1>6, ExistingOrderType DEF Fill, CancelDoc, Cancellable, Working
  <2> QED BY <1>1, <1>6, <2>1 DEF Fill, ApplyFill, CancelDoc, TypeParts, OrderTypeOK
<1> QED BY <1>2, <1>3, <1>4, <1>5, <1>6, StepCases

\* The execution a fill inserts.
Booked(o) == [price |-> request[o].plan.fill, met |-> MetPosition(o).lots]

LEMMA ExecutionStep ==
  ASSUME TypeOK, OneFate, [Next]_vars, NEW o \in OrderIds
  PROVE  \/ executions'[o] = executions[o]
         \/ /\ Fill(o) /\ executions[o] = <<>>
            /\ executions'[o] = <<Booked(o)>>
<1>1. TypeParts
  BY TypeSplit
<1>2. CASE UNCHANGED ledgerVars \/ AdminStep
  BY <1>2 DEF ledgerVars, AdminStep, AdminCredit, AdminDebit
<1>3. ASSUME NEW p \in OrderIds, Create(p) \/ CancelDoc(p)
      PROVE  executions'[o] = executions[o]
  BY <1>3 DEF Create, CancelDoc
<1>4. ASSUME NEW p \in OrderIds, Fill(p), p # o PROVE executions'[o] = executions[o]
  BY <1>1, <1>4 DEF Fill, ApplyFill, TypeParts, ExecutionsTypeOK
<1>5. CASE Fill(o)
  <2>1. executions[o] \in Seq(Execution) /\ Len(executions[o]) = 0
    BY <1>1, <1>5 DEF Fill, Working, OneFate, Fills, TypeParts, ExecutionsTypeOK
  <2>2. executions[o] = <<>>
    BY <2>1
  <2>3. executions' = [executions EXCEPT ![o] = Append(@, Booked(o))]
    BY <1>5 DEF Fill, ApplyFill, Booked, MetPosition
  <2>4. executions'[o] = Append(<<>>, Booked(o))
    BY <1>1, <2>2, <2>3 DEF TypeParts, ExecutionsTypeOK
  <2> HIDE DEF Booked
  <2>5. executions'[o] = <<Booked(o)>>
    BY <2>4
  <2> QED BY <1>5, <2>2, <2>5
<1> QED BY <1>2, <1>3, <1>4, <1>5, StepCases

\* An order with an execution is a document, and its execution has a price.
LEMMA BookedType ==
  ASSUME TypeOK, OneFate, NEW o \in OrderIds, executions[o] # <<>>
  PROVE  /\ order[o] \in OrderDoc /\ order[o].status = "executed"
         /\ executions[o][1] \in Execution /\ executions[o][1].price \in Nat
<1>1. executions[o] \in Seq(Execution)
  BY TypeSplit DEF TypeParts, ExecutionsTypeOK
<1>2. Len(executions[o]) # 0 /\ Len(executions[o]) \in Nat
  BY <1>1
<1>3. order[o].status = "executed" /\ Len(executions[o]) = 1
  BY <1>2 DEF OneFate, Fills
<1>4. executions[o][1] \in Execution
  BY <1>1, <1>3
<1> QED BY <1>3, <1>4, ExistingOrderType, Naturals DEF Execution

-----------------------------------------------------------------------------
(* Client order ids.                                                       *)

ClientInv == TypeOK /\ Unborn /\ OneOrderPerClientId

LEMMA ClientStep ==
  ASSUME TypeOK, Unborn, OneOrderPerClientId, [Next]_vars
  PROVE  OneOrderPerClientId'
<1> SUFFICES ASSUME NEW o \in OrderIds, NEW p \in OrderIds, o # p,
                    order'[o].status # "absent", order'[p].status # "absent",
                    order'[o].user = order'[p].user,
                    order'[o].client = order'[p].client
             PROVE  order'[o].client = NoClient
  BY DEF OneOrderPerClientId, Exists
\* Only an insert brings a client order id into a user's orders.
<1>1. ASSUME NEW q \in OrderIds, ~Create(q), order'[q].status # "absent"
      PROVE  Exists(q) /\ order'[q].user = order[q].user
               /\ order'[q].client = order[q].client
  <2>1. CASE order'[q] = order[q]
    BY <1>1, <2>1 DEF Exists
  <2>2. CASE /\ order[q] \in OrderDoc /\ Working(q)
             /\ \E s \in {"executed", "cancelled"} :
                  order'[q] = [order[q] EXCEPT !.status = s]
    BY <2>2 DEF Exists, Working, OrderDoc
  <2> QED BY <1>1, <2>1, <2>2, DocumentStep
<1>2. ASSUME NEW q \in OrderIds, NEW r \in OrderIds, q # r, Create(q),
             order'[r].status # "absent", order'[q].user = order'[r].user,
             order'[q].client = order'[r].client
      PROVE  order'[q].client = NoClient
  <2>1. ~Create(r)
    <3>1. order' = [order EXCEPT ![q] = Inserted(q)]
      BY <1>2 DEF Create, Inserted
    <3>2. order'[r] = order[r]
      BY <1>2, <3>1, TypeSplit DEF TypeParts, OrderTypeOK
    <3>3. Create(r) => order[r] = NoOrder
      BY DEF Create, Unborn, Early, EarlyStages
    <3> QED BY <1>2, <3>2, <3>3 DEF NoOrder
  <2>2. order'[q] = Inserted(q)
    BY <1>2, TypeSplit DEF Create, Inserted, TypeParts, OrderTypeOK
  <2>3. Exists(r) /\ order[r].user = request[q].in.user
          /\ order[r].client = request[q].in.client
    BY <1>1, <1>2, <2>1, <2>2 DEF Inserted
  <2>4. ~ClientTaken(request[q].in)
    BY <1>2 DEF Create, CreateAllowed
  <2> QED BY <2>2, <2>3, <2>4 DEF ClientTaken, Inserted
<1>3. CASE Create(o)
  BY <1>2, <1>3
<1>4. CASE Create(p)
  BY <1>2, <1>4
<1>5. CASE ~Create(o) /\ ~Create(p)
  BY <1>1, <1>5 DEF OneOrderPerClientId
<1> QED BY <1>3, <1>4, <1>5

LEMMA ClientInit == Init => OneOrderPerClientId
BY DEF Init, OneOrderPerClientId, Exists, NoOrder

\* However often, and on however many replicas, a request is sent again with
\* its client order id, the user gets one order for it.
THEOREM OneOrderPerClientIdHolds == Spec => []OneOrderPerClientId
<1>1. Init => ClientInv
  BY InitType, FateInit, ClientInit DEF ClientInv
<1>2. ClientInv /\ [Next]_vars => ClientInv'
  <2> SUFFICES ASSUME ClientInv, [Next]_vars PROVE ClientInv'
    OBVIOUS
  <2>1. TypeOK' /\ Unborn' /\ OneOrderPerClientId'
    BY NextType, UnbornStep, ClientStep DEF ClientInv
  <2> QED BY <2>1 DEF ClientInv
<1>3. ClientInv => OneOrderPerClientId
  BY DEF ClientInv
<1> QED BY <1>1, <1>2, <1>3, PTL DEF Spec

-----------------------------------------------------------------------------
(* What a handler remembers.                                               *)

\* From the plan to the answer the handler holds the lock of lockFor.
LockStages == {"planned", "retrying", "filling", "undoing"}
LateStages == {"filling", "undoing"}

PlanQuote(o) == [price |-> request[o].plan.price, fill |-> request[o].plan.fill]

\* Whatever was read again, the plan's prices are those of one quote that the
\* request allows.
PlanPriced ==
  \A o \in OrderIds :
    request[o].stage \in LockStages => PlanQuote(o) \in Quotes(request[o].in)

\* After the first transaction the order is what the handler asked for.
OrderOfRequest ==
  \A o \in OrderIds :
    request[o].stage \in LateStages =>
      /\ order[o] \in OrderDoc
      /\ order[o].user = request[o].in.user
      /\ order[o].contract = request[o].in.contract
      /\ order[o].side = request[o].in.side
      /\ order[o].qty = request[o].in.qty
      /\ order[o].price = request[o].plan.price
      /\ order[o].intent = Intent(request[o].in.side, request[o].in.qty,
                                  request[o].plan.lots)
      /\ request[o].plan.fill \in Prices

MemoryInv == PlanPriced /\ OrderOfRequest

SameMemory(o) ==
  request'[o].in = request[o].in /\ request'[o].plan = request[o].plan

\* A handler enters the lock with Plan, changes its plan only in Reread, and
\* gets to the fill through Create.
LEMMA HandlerMoves ==
  ASSUME TypeOK, [Next]_vars, NEW o \in OrderIds, request'[o].stage \in LockStages
  PROVE  \/ Plan(o) \/ Reread(o)
         \/ /\ Create(o) /\ request[o].plan.fill # 0
            /\ request'[o].stage = "filling" /\ SameMemory(o)
         \/ /\ request[o].stage \in LockStages /\ SameMemory(o)
            /\ request'[o].stage \in LateStages <=> request[o].stage \in LateStages
<1> DEFINE Goal ==
      \/ Plan(o) \/ Reread(o)
      \/ /\ Create(o) /\ request[o].plan.fill # 0
         /\ request'[o].stage = "filling" /\ SameMemory(o)
      \/ /\ request[o].stage \in LockStages /\ SameMemory(o)
         /\ request'[o].stage \in LateStages <=> request[o].stage \in LateStages
<1>1. request \in [OrderIds -> ActiveRequest \cup GoneRequest]
  BY TypeSplit DEF TypeParts, RequestTypeOK
<1>2. CASE request'[o] = request[o]
  BY <1>2 DEF SameMemory
<1>3. ASSUME NEW p \in OrderIds, NEW r, request' = [request EXCEPT ![p] = r], p # o
      PROVE  Goal
  BY <1>1, <1>2, <1>3
<1>4. ASSUME NEW p \in OrderIds, NEW in \in Requests, Receive(p, in) PROVE Goal
  <2>1. CASE p = o
    BY <1>1, <1>4, <2>1 DEF Receive, LockStages
  <2> QED BY <1>3, <1>4, <2>1 DEF Receive
<1>5. ASSUME NEW p \in OrderIds, Leave(p, "returned") PROVE Goal
  <2>1. CASE p = o
    BY <1>1, <1>5, <2>1 DEF Leave, LockStages
  <2> QED BY <1>3, <1>5, <2>1 DEF Leave
<1>6. ASSUME NEW r \in Replicas, Crash(r) PROVE Goal
  <2>1. request'[o] = request[o] \/ request'[o].stage = "lost"
    BY <1>6 DEF Crash
  <2> QED BY <1>2, <2>1 DEF LockStages
<1>7. ASSUME NEW p \in OrderIds, Plan(p) \/ Reread(p), p # o PROVE Goal
  <2>1. request'[o] = request[o]
    BY <1>1, <1>7 DEF Plan, Reread
  <2> QED BY <1>2, <2>1
<1>8. ASSUME NEW p \in OrderIds, Create(p) PROVE Goal
  <2>1. CASE request[p].plan.fill = 0
    BY <1>5, <1>8, <2>1 DEF Create
  <2>2. CASE request[p].plan.fill # 0 /\ p # o
    BY <1>1, <1>2, <1>8, <2>2 DEF Create
  <2>3. CASE request[p].plan.fill # 0 /\ p = o
    <3>1. request[o] \in ActiveRequest
      BY <1>8, <2>3, ActiveRequestType DEF Create, Stages
    <3>2. request'[o] = [request[o] EXCEPT !.stage = "filling", !.tries = 0]
      BY <1>1, <1>8, <2>3 DEF Create
    <3> QED BY <1>8, <2>3, <3>1, <3>2 DEF SameMemory, ActiveRequest
  <2> QED BY <2>1, <2>2, <2>3
<1>9. ASSUME NEW p \in OrderIds, CreateFenced(p) \/ FillFenced(p) \/ FillDenied(p)
      PROVE  Goal
  <2>1. CASE p # o
    <3>1. request'[o] = request[o]
      BY <1>1, <1>9, <2>1 DEF CreateFenced, FillFenced, FillDenied, Goto, Leave
    <3> QED BY <1>2, <3>1
  <2>2. CASE p = o
    <3>1. request[o] \in ActiveRequest
      BY <1>9, <2>2, ActiveRequestType DEF CreateFenced, FillFenced, FillDenied, Stages
    <3>2. CASE Leave(p, "returned")
      BY <1>5, <3>2
    <3>3. CASE ~Leave(p, "returned")
      <4>1. CASE CreateFenced(o)
        <5>1. /\ request[o].stage = "planned" /\ request'[o].stage = "retrying"
              /\ SameMemory(o)
          BY <1>1, <2>2, <3>1, <3>3, <4>1 DEF CreateFenced, SameMemory, ActiveRequest
        <5> QED BY <5>1 DEF LockStages, LateStages
      <4>2. CASE FillFenced(o) \/ FillDenied(o)
        <5>1. /\ request[o].stage = "filling" /\ request'[o].stage \in LateStages
              /\ SameMemory(o)
          BY <1>1, <3>1, <4>2
          DEF FillFenced, FillDenied, Goto, SameMemory, LateStages, ActiveRequest
        <5> QED BY <5>1 DEF LockStages, LateStages
      <4> QED BY <1>9, <2>2, <4>1, <4>2
    <3> QED BY <3>2, <3>3
  <2> QED BY <2>1, <2>2
<1>10. ASSUME NEW p \in OrderIds, Handler(p) PROVE Goal
  <2>1. CASE PlanRefused(p) \/ CreateRefused(p) \/ RereadRefused(p) \/ Fill(p)
             \/ FillStale(p) \/ Undo(p)
    BY <1>5, <2>1 DEF PlanRefused, CreateRefused, RereadRefused, Fill, FillStale, Undo
  <2>2. CASE Plan(p) \/ Reread(p)
    BY <1>7, <2>2
  <2> QED BY <1>8, <1>9, <1>10, <2>1, <2>2 DEF Handler
<1>11. ASSUME NEW u \in Users, NEW a \in Amounts, AdminCredit(u, a) \/ AdminDebit(u, a)
       PROVE  UNCHANGED request
  BY <1>11 DEF AdminCredit, AdminDebit
<1>12. ASSUME NEW p \in OrderIds, UserCancel(p) \/ GateCancel(p) PROVE UNCHANGED request
  BY <1>12 DEF UserCancel, GateCancel
<1>13. ASSUME NEW p \in OrderIds, Disconnect(p) PROVE Goal
  BY <1>5, <1>13 DEF Disconnect
<1>14. CASE CloseGate \/ ReopenGate \/ UNCHANGED vars
  BY <1>2, <1>14 DEF CloseGate, ReopenGate, vars
<1> QED BY <1>2, <1>4, <1>6, <1>10, <1>11, <1>12, <1>13, <1>14 DEF Next, Environment

LEMMA PlanPricedStep ==
  ASSUME TypeOK, PlanPriced, [Next]_vars
  PROVE  PlanPriced'
<1> SUFFICES ASSUME NEW o \in OrderIds, request'[o].stage \in LockStages
             PROVE  PlanQuote(o)' \in Quotes(request'[o].in)
  BY DEF PlanPriced, Quotes
<1>1. request \in [OrderIds -> ActiveRequest \cup GoneRequest]
  BY TypeSplit DEF TypeParts, RequestTypeOK
<1>2. CASE Plan(o)
  <2>1. request[o] \in ActiveRequest
    BY <1>2, ActiveRequestType DEF Plan, Stages
  <2> DEFINE r == request[o]
  <2>2. PICK q \in Quotes(r.in) :
          request' = [request EXCEPT
            ![o].stage = "planned",
            ![o].plan = [lots |-> position[r.in.user][r.in.contract].lots,
                         price |-> q.price, fill |-> q.fill, version |-> gate.version]]
    BY <1>2 DEF Plan
  <2>3. request'[o] = [[r EXCEPT !.stage = "planned"] EXCEPT
            !.plan = [lots |-> position[r.in.user][r.in.contract].lots,
                      price |-> q.price, fill |-> q.fill, version |-> gate.version]]
    BY <1>1, <2>2
  <2>4. /\ request'[o].in = request[o].in
        /\ request'[o].plan.price = q.price /\ request'[o].plan.fill = q.fill
    <3>1. r \in ActiveRequest
      BY <2>1
    <3> HIDE DEF r
    <3>2. request'[o].in = r.in /\ request'[o].plan.price = q.price
          /\ request'[o].plan.fill = q.fill
      BY <2>3, <3>1 DEF ActiveRequest
    <3> QED BY <3>2 DEF r
  <2>5. q = [price |-> q.price, fill |-> q.fill]
    BY DEF Quotes
  <2> QED BY <2>2, <2>4, <2>5 DEF PlanQuote
<1>3. CASE Reread(o)
  <2> DEFINE in == request[o].in
             kept == {PlanQuote(o)}
  <2>1. request[o] \in ActiveRequest /\ request[o].stage = "retrying"
    BY <1>3, ActiveRequestType DEF Reread, Stages
  <2>2. PICK q \in IF in.limit = 0 THEN Quotes(in) ELSE kept :
          /\ request'[o].in = in
          /\ request'[o].plan.price = q.price /\ request'[o].plan.fill = q.fill
    BY <1>1, <1>3, <2>1 DEF Reread, ActiveRequest, PlanQuote
  <2>3. q \in Quotes(in)
    BY <2>1, <2>2 DEF PlanPriced, LockStages
  <2>4. q = [price |-> q.price, fill |-> q.fill]
    BY <2>3 DEF Quotes
  <2> QED BY <2>2, <2>3, <2>4 DEF PlanQuote
<1>4. CASE SameMemory(o) /\ request[o].stage \in LockStages
  BY <1>4 DEF SameMemory, PlanPriced, PlanQuote
<1>5. Create(o) => request[o].stage \in LockStages
  BY DEF Create, LockStages
<1> QED BY <1>2, <1>3, <1>4, <1>5, HandlerMoves

LEMMA OrderOfRequestStep ==
  ASSUME TypeOK, Unborn, OrderOfRequest, [Next]_vars
  PROVE  OrderOfRequest'
<1> SUFFICES ASSUME NEW o \in OrderIds, request'[o].stage \in LateStages
             PROVE  /\ order'[o] \in OrderDoc
                    /\ order'[o].user = request'[o].in.user
                    /\ order'[o].contract = request'[o].in.contract
                    /\ order'[o].side = request'[o].in.side
                    /\ order'[o].qty = request'[o].in.qty
                    /\ order'[o].price = request'[o].plan.price
                    /\ order'[o].intent = Intent(request'[o].in.side, request'[o].in.qty,
                                                 request'[o].plan.lots)
                    /\ request'[o].plan.fill \in Prices
  BY DEF OrderOfRequest, OrderDoc, Intent
<1>1. request'[o].stage \in LockStages
  BY DEF LateStages, LockStages
<1>2. ~Plan(o) /\ ~Reread(o)
  <2>1. request \in [OrderIds -> ActiveRequest \cup GoneRequest]
    BY TypeSplit DEF TypeParts, RequestTypeOK
  <2>2. Plan(o) \/ Reread(o) => request[o] \in ActiveRequest
    BY ActiveRequestType DEF Plan, Reread, Stages
  <2>3. ASSUME NEW plan, Plan(o) \/ Reread(o),
               request' = [request EXCEPT ![o].stage = "planned", ![o].plan = plan]
        PROVE  request'[o].stage = "planned"
    BY <2>1, <2>2, <2>3 DEF ActiveRequest
  <2>4. Plan(o) => request'[o].stage = "planned"
    BY <2>3 DEF Plan
  <2>5. ASSUME Reread(o) PROVE request'[o].stage = "planned"
    <3>1. PICK q : request' = [request EXCEPT
             ![o].stage = "planned",
             ![o].plan = [lots |-> @.lots, price |-> q.price, fill |-> q.fill,
                          version |-> gate.version]]
      BY <2>5 DEF Reread
    <3> QED BY <2>1, <2>2, <2>5, <3>1 DEF ActiveRequest
  <2> QED BY <2>4, <2>5 DEF LateStages
<1>3. CASE /\ Create(o) /\ request[o].plan.fill # 0
           /\ request'[o].stage = "filling" /\ SameMemory(o)
  <2>1. order'[o] = Inserted(o) /\ Inserted(o) \in OrderDoc
    <3>1. request[o].stage \in Stages
      BY <1>3 DEF Create, Stages
    <3>2. order' = [order EXCEPT ![o] = Inserted(o)]
      BY <1>3 DEF Create, Inserted
    <3> QED BY <3>1, <3>2, InsertedType, TypeSplit DEF TypeParts, OrderTypeOK
  <2>2. request[o].plan.fill \in Prices
    BY <1>3, ActiveRequestType DEF Create, Stages, ActiveRequest, Plans
  <2> QED BY <1>3, <2>1, <2>2 DEF Inserted, SameMemory
<1>4. CASE SameMemory(o) /\ request[o].stage \in LateStages
  <2>1. order[o] \in OrderDoc
    BY <1>4 DEF OrderOfRequest
  <2>2. ~(Create(o) /\ order[o] = NoOrder)
    BY <2>1 DEF OrderDoc, NoOrder
  <2>3. order'[o] = order[o]
          \/ \E s \in {"executed", "cancelled"} : order'[o] = [order[o] EXCEPT !.status = s]
    BY <2>2, DocumentStep
  <2>4. /\ order'[o] \in OrderDoc /\ order'[o].user = order[o].user
        /\ order'[o].contract = order[o].contract /\ order'[o].side = order[o].side
        /\ order'[o].qty = order[o].qty /\ order'[o].price = order[o].price
        /\ order'[o].intent = order[o].intent
    BY <2>1, <2>3 DEF OrderDoc
  <2> QED BY <1>4, <2>4 DEF OrderOfRequest, SameMemory
<1> QED BY <1>1, <1>2, <1>3, <1>4, HandlerMoves

LEMMA MemoryInit == Init => MemoryInv
BY DEF Init, MemoryInv, PlanPriced, OrderOfRequest, NoRequest, LockStages, LateStages

LEMMA MemoryStep ==
  ASSUME TypeOK, Unborn, MemoryInv, [Next]_vars
  PROVE  MemoryInv'
BY PlanPricedStep, OrderOfRequestStep DEF MemoryInv

-----------------------------------------------------------------------------
(* Limits.                                                                 *)

LimitInv == TypeOK /\ Unborn /\ OneFate /\ MemoryInv /\ LimitRespected

LEMMA LimitStep ==
  ASSUME TypeOK, Unborn, OneFate, MemoryInv, LimitRespected, [Next]_vars
  PROVE  LimitRespected'
<1> SUFFICES ASSUME NEW o \in OrderIds, executions'[o] # <<>>
             PROVE  IF order'[o].side = "buy"
                    THEN executions'[o][1].price <= order'[o].price
                    ELSE executions'[o][1].price >= order'[o].price
  BY DEF LimitRespected, Fills
<1>1. CASE executions'[o] = executions[o]
  <2>1. order[o].status = "executed"
    BY <1>1, BookedType
  <2>2. order'[o] = order[o]
    BY <2>1, FinishedStep
  <2> QED BY <1>1, <2>2 DEF LimitRespected, Fills
<1>2. CASE Fill(o) /\ executions'[o] = <<Booked(o)>>
  <2>1. request[o].stage = "filling" /\ request[o] \in ActiveRequest
    BY <1>2, ActiveRequestType DEF Fill, Stages
  <2>2. /\ order[o] \in OrderDoc /\ order[o].side = request[o].in.side
        /\ order[o].price = request[o].plan.price /\ request[o].plan.fill \in Prices
        /\ PlanQuote(o) \in Quotes(request[o].in)
    BY <2>1 DEF MemoryInv, OrderOfRequest, PlanPriced, LateStages, LockStages
  <2>3. order'[o].side = order[o].side /\ order'[o].price = order[o].price
    BY <1>2, <2>2, TypeSplit DEF Fill, ApplyFill, TypeParts, OrderTypeOK, OrderDoc
  <2>4. executions'[o][1].price = request[o].plan.fill
    BY <1>2 DEF Booked
  <2>5. request[o].plan.fill \in Nat /\ request[o].plan.fill # 0
    BY <2>2, Naturals
  <2>6. IF request[o].in.side = "buy"
        THEN request[o].plan.fill <= request[o].plan.price
        ELSE request[o].plan.fill >= request[o].plan.price
    <3>1. CASE request[o].in.limit = 0
      <4>1. PICK p \in Prices : PlanQuote(o) = [price |-> p, fill |-> p]
        BY <2>2, <3>1 DEF Quotes
      <4> QED BY <2>5, <4>1 DEF PlanQuote
    <3>2. CASE request[o].in.limit # 0
      <4>1. PICK f \in {0} \cup {p \in Prices : IF request[o].in.side = "buy"
                                                THEN p <= request[o].in.limit
                                                ELSE p >= request[o].in.limit} :
              PlanQuote(o) = [price |-> request[o].in.limit, fill |-> f]
        BY <2>2, <3>2 DEF Quotes
      <4> QED BY <2>5, <4>1 DEF PlanQuote
    <3> QED BY <3>1, <3>2
  <2> QED BY <2>2, <2>3, <2>4, <2>6
<1> QED BY <1>1, <1>2, ExecutionStep

LEMMA LimitInit == Init => LimitRespected
BY DEF Init, LimitRespected, Fills

\* No order is executed at a price worse than its limit, though the quote was
\* read before the order existed and may be kept over any number of retries.
THEOREM LimitRespectedHolds == Spec => []LimitRespected
<1>1. Init => LimitInv
  BY InitType, FateInit, MemoryInit, LimitInit DEF LimitInv
<1>2. LimitInv /\ [Next]_vars => LimitInv'
  <2> SUFFICES ASSUME LimitInv, [Next]_vars PROVE LimitInv'
    OBVIOUS
  <2>1. TypeOK' /\ Unborn' /\ OneFate' /\ MemoryInv' /\ LimitRespected'
    BY NextType, UnbornStep, OneFateStep, MemoryStep, LimitStep DEF LimitInv
  <2> QED BY <2>1 DEF LimitInv
<1>3. LimitInv => LimitRespected
  BY DEF LimitInv
<1> QED BY <1>1, <1>2, <1>3, PTL DEF Spec

-----------------------------------------------------------------------------
(* Cash and lots.                                                          *)

\* What an order d with executions x adds to the cash of u.
FlowOf(u, d, x) ==
  IF x # <<>> /\ d.user = u
  THEN -SignedQty(d.side, d.qty) * x[1].price * LotSize ELSE 0

\* ... and to the lots of u in c.
LotsOf(u, c, d, x) ==
  IF x # <<>> /\ d.user = u /\ d.contract = c THEN SignedQty(d.side, d.qty) ELSE 0

LEMMA SignedInt ==
  ASSUME NEW d \in OrderDoc
  PROVE  SignedQty(d.side, d.qty) \in Int
BY Naturals DEF OrderDoc, SignedQty

LEMMA FlowValues ==
  ASSUME TypeOK, OneFate, NEW u \in Users
  PROVE  \A o \in 1 .. MaxOrders :
           /\ FillFlow(u)[o] = FlowOf(u, order[o], executions[o])
           /\ FillFlow(u)[o] \in Int
<1> TAKE o \in 1 .. MaxOrders
<1>1. FillFlow(u)[o] = FlowOf(u, order[o], executions[o])
  BY DEF FillFlow, FlowOf, Fills, OrderIds
<1>2. CASE executions[o] = <<>>
  BY <1>1, <1>2 DEF FlowOf
<1>3. CASE executions[o] # <<>>
  <2> DEFINE q == SignedQty(order[o].side, order[o].qty)
             p == executions[o][1].price
  <2>1. q \in Int /\ p \in Nat
    BY <1>3, BookedType, SignedInt DEF OrderIds
  <2> HIDE DEF q, p
  <2>2. -q * p * LotSize \in Int
    BY <2>1, LotSizePositive
  <2> QED BY <1>1, <2>2 DEF FlowOf, q, p
<1> QED BY <1>1, <1>2, <1>3

LEMMA LotsValues ==
  ASSUME TypeOK, OneFate, NEW u \in Users, NEW c \in Contracts
  PROVE  \A o \in 1 .. MaxOrders :
           /\ LotFlow(u, c)[o] = LotsOf(u, c, order[o], executions[o])
           /\ LotFlow(u, c)[o] \in Int
<1> TAKE o \in 1 .. MaxOrders
<1>1. LotFlow(u, c)[o] = LotsOf(u, c, order[o], executions[o])
  BY DEF LotFlow, LotsOf, Fills, OrderIds
<1>2. CASE executions[o] = <<>>
  BY <1>1, <1>2 DEF LotsOf
<1>3. CASE executions[o] # <<>>
  <2>1. SignedQty(order[o].side, order[o].qty) \in Int
    BY <1>3, BookedType, SignedInt DEF OrderIds
  <2> QED BY <1>1, <2>1 DEF LotsOf
<1> QED BY <1>1, <1>2, <1>3

\* A step that is no fill moves neither flow.
LEMMA FlowsKept ==
  ASSUME TypeOK, Unborn, OneFate, [Next]_vars, NEW o \in OrderIds, ~Fill(o),
         NEW u \in Users, NEW c \in Contracts
  PROVE  /\ FlowOf(u, order'[o], executions'[o]) = FlowOf(u, order[o], executions[o])
         /\ LotsOf(u, c, order'[o], executions'[o]) = LotsOf(u, c, order[o], executions[o])
<1>1. executions'[o] = executions[o]
  BY ExecutionStep
<1>2. CASE executions[o] = <<>>
  BY <1>1, <1>2 DEF FlowOf, LotsOf
<1>3. CASE executions[o] # <<>>
  <2>1. order'[o] = order[o]
    BY <1>3, BookedType, FinishedStep
  <2> QED BY <1>1, <2>1
<1> QED BY <1>2, <1>3

\* A fill books its order: before it nothing, after it all of it.
LEMMA FlowsBooked ==
  ASSUME TypeOK, OneFate, [Next]_vars, NEW o \in OrderIds, Fill(o),
         NEW u \in Users, NEW c \in Contracts
  PROVE  /\ FlowOf(u, order[o], executions[o]) = 0
         /\ LotsOf(u, c, order[o], executions[o]) = 0
         /\ FlowOf(u, order'[o], executions'[o])
              = IF order[o].user = u
                THEN -SignedQty(order[o].side, order[o].qty) * request[o].plan.fill * LotSize
                ELSE 0
         /\ LotsOf(u, c, order'[o], executions'[o])
              = IF order[o].user = u /\ order[o].contract = c
                THEN SignedQty(order[o].side, order[o].qty) ELSE 0
<1>1. Len(executions[o]) = 0 /\ executions[o] \in Seq(Execution)
  BY TypeSplit DEF Fill, Working, OneFate, Fills, TypeParts, ExecutionsTypeOK
<1>2. executions[o] = <<>>
  BY <1>1
<1>3. executions' = [executions EXCEPT ![o] = Append(@, Booked(o))]
  BY DEF Fill, ApplyFill, Booked, MetPosition
<1>4. executions'[o] = Append(<<>>, Booked(o))
  BY <1>2, <1>3, TypeSplit DEF TypeParts, ExecutionsTypeOK
<1>5. executions'[o] # <<>> /\ executions'[o][1].price = request[o].plan.fill
  <2> DEFINE b == Booked(o)
  <2>1. b.price = request[o].plan.fill
    BY DEF Booked
  <2> HIDE DEF b
  <2> QED BY <1>4, <2>1 DEF b
<1>6. order' = [order EXCEPT ![o] = [order[o] EXCEPT !.status = "executed"]]
  BY TypeSplit DEF TypeParts, OrderTypeOK, Fill, ApplyFill
<1>7. /\ order'[o].user = order[o].user /\ order'[o].contract = order[o].contract
      /\ order'[o].side = order[o].side /\ order'[o].qty = order[o].qty
  BY <1>6, FillInputs, TypeSplit DEF TypeParts, OrderTypeOK, OrderDoc
<1> HIDE DEF Booked
<1> QED BY <1>2, <1>5, <1>7 DEF FlowOf, LotsOf

\* What a step changes of a total over the orders.
LEMMA FlowKept ==
  ASSUME TypeOK, Unborn, OneFate, [Next]_vars, \A o \in OrderIds : ~Fill(o),
         NEW u \in Users, NEW c \in Contracts
  PROVE  /\ Total(FillFlow(u)', MaxOrders) = Total(FillFlow(u), MaxOrders)
         /\ Total(LotFlow(u, c)', MaxOrders) = Total(LotFlow(u, c), MaxOrders)
<1>1. TypeOK' /\ OneFate'
  BY NextType, OneFateStep
<1>2. \A o \in 1 .. MaxOrders :
        /\ FillFlow(u)[o] = FlowOf(u, order[o], executions[o]) /\ FillFlow(u)[o] \in Int
        /\ LotFlow(u, c)[o] = LotsOf(u, c, order[o], executions[o]) /\ LotFlow(u, c)[o] \in Int
  BY FlowValues, LotsValues
<1>3. \A o \in 1 .. MaxOrders :
        /\ (FillFlow(u)')[o] = FlowOf(u, order'[o], executions'[o])
        /\ (LotFlow(u, c)')[o] = LotsOf(u, c, order'[o], executions'[o])
  BY DEF FillFlow, FlowOf, LotFlow, LotsOf, Fills, OrderIds
<1>4. \A o \in 1 .. MaxOrders : /\ FillFlow(u)[o] \in Int /\ (FillFlow(u)')[o] = FillFlow(u)[o]
                                /\ LotFlow(u, c)[o] \in Int
                                /\ (LotFlow(u, c)')[o] = LotFlow(u, c)[o]
  BY <1>2, <1>3, FlowsKept DEF OrderIds
<1> DEFINE f == FillFlow(u)
           g == FillFlow(u)'
           k == LotFlow(u, c)
           l == LotFlow(u, c)'
<1>5. /\ \A o \in 1 .. MaxOrders : f[o] \in Int /\ g[o] = f[o]
      /\ \A o \in 1 .. MaxOrders : k[o] \in Int /\ l[o] = k[o]
  BY <1>4
<1> HIDE DEF f, g, k, l
<1>6. Total(g, MaxOrders) = Total(f, MaxOrders) /\ Total(l, MaxOrders) = Total(k, MaxOrders)
  BY <1>5, Bounds, TotalSame
<1> QED BY <1>6 DEF f, g, k, l

LEMMA FlowMoved ==
  ASSUME TypeOK, Unborn, OneFate, [Next]_vars, NEW o \in OrderIds, Fill(o),
         NEW u \in Users, NEW c \in Contracts
  PROVE  /\ Total(FillFlow(u)', MaxOrders)
              = Total(FillFlow(u), MaxOrders) + FlowOf(u, order'[o], executions'[o])
         /\ Total(LotFlow(u, c)', MaxOrders)
              = Total(LotFlow(u, c), MaxOrders) + LotsOf(u, c, order'[o], executions'[o])
<1>1. \A p \in OrderIds : p # o => ~Fill(p)
  <2> SUFFICES ASSUME NEW p \in OrderIds, p # o, Fill(p) PROVE FALSE
    OBVIOUS
  <2>1. order[p].status = "open" /\ order[p] \in OrderDoc
    BY FillInputs DEF Fill, Working
  <2>2. order'[p].status = "executed"
    BY <2>1, TypeSplit DEF Fill, ApplyFill, TypeParts, OrderTypeOK, OrderDoc
  <2>3. order'[p] = order[p]
    BY TypeSplit DEF Fill, ApplyFill, TypeParts, OrderTypeOK
  <2> QED BY <2>1, <2>2, <2>3
<1>2. \A p \in 1 .. MaxOrders :
        /\ FillFlow(u)[p] = FlowOf(u, order[p], executions[p]) /\ FillFlow(u)[p] \in Int
        /\ LotFlow(u, c)[p] = LotsOf(u, c, order[p], executions[p]) /\ LotFlow(u, c)[p] \in Int
  BY FlowValues, LotsValues
<1>3. \A p \in 1 .. MaxOrders :
        /\ (FillFlow(u)')[p] = FlowOf(u, order'[p], executions'[p])
        /\ (LotFlow(u, c)')[p] = LotsOf(u, c, order'[p], executions'[p])
  BY DEF FillFlow, FlowOf, LotFlow, LotsOf, Fills, OrderIds
<1>4. \A p \in 1 .. MaxOrders : p # o =>
        (FillFlow(u)')[p] = FillFlow(u)[p] /\ (LotFlow(u, c)')[p] = LotFlow(u, c)[p]
  BY <1>1, <1>2, <1>3, FlowsKept DEF OrderIds
<1> DEFINE q == SignedQty(order[o].side, order[o].qty)
           price == request[o].plan.fill
<1>5. q \in Int /\ price \in Nat
  BY FillInputs, SignedInt
<1>6. /\ FillFlow(u)[o] = 0 /\ LotFlow(u, c)[o] = 0
      /\ (FillFlow(u)')[o] \in Int /\ (LotFlow(u, c)')[o] \in Int
  <2>1. -q * price * LotSize \in Int
    <3> HIDE DEF q, price
    <3> QED BY <1>5, LotSizePositive
  <2> QED BY <1>2, <1>3, <1>5, <2>1, FlowsBooked DEF OrderIds
<1> DEFINE f == FillFlow(u)
           g == FillFlow(u)'
           k == LotFlow(u, c)
           l == LotFlow(u, c)'
<1>7. /\ \A p \in 1 .. MaxOrders : f[p] \in Int /\ g[p] \in Int
      /\ \A p \in 1 .. MaxOrders : k[p] \in Int /\ l[p] \in Int
      /\ \A p \in 1 .. MaxOrders : p # o => g[p] = f[p] /\ l[p] = k[p]
      /\ f[o] = 0 /\ k[o] = 0 /\ o \in 1 .. MaxOrders
      /\ g[o] = FlowOf(u, order'[o], executions'[o])
      /\ l[o] = LotsOf(u, c, order'[o], executions'[o])
  BY <1>2, <1>3, <1>4, <1>6 DEF OrderIds
<1> HIDE DEF f, g, k, l
<1>8. /\ Total(g, MaxOrders) = Total(f, MaxOrders) + g[o] - f[o]
      /\ Total(l, MaxOrders) = Total(k, MaxOrders) + l[o] - k[o]
  <2>1. Total(g, MaxOrders) = Total(f, MaxOrders) + g[o] - f[o]
    BY <1>7, Bounds, TotalUpdate
  <2>2. Total(l, MaxOrders) = Total(k, MaxOrders) + l[o] - k[o]
    BY <1>7, Bounds, TotalUpdate
  <2> QED BY <2>1, <2>2
<1>9. Total(f, MaxOrders) \in Int /\ Total(k, MaxOrders) \in Int
  BY <1>7, Bounds, TotalInt
<1>10. /\ Total(g, MaxOrders) = Total(f, MaxOrders) + g[o]
       /\ Total(l, MaxOrders) = Total(k, MaxOrders) + l[o]
  BY <1>7, <1>8, <1>9
<1> QED BY <1>7, <1>10 DEF f, g, k, l

LEMMA FlowInts ==
  ASSUME TypeOK, OneFate, NEW u \in Users, NEW c \in Contracts
  PROVE  Total(FillFlow(u), MaxOrders) \in Int /\ Total(LotFlow(u, c), MaxOrders) \in Int
<1> DEFINE f == FillFlow(u)
           k == LotFlow(u, c)
<1>1. \A o \in 1 .. MaxOrders : f[o] \in Int /\ k[o] \in Int
  BY FlowValues, LotsValues
<1> HIDE DEF f, k
<1>2. Total(f, MaxOrders) \in Int /\ Total(k, MaxOrders) \in Int
  BY <1>1, Bounds, TotalInt
<1> QED BY <1>2 DEF f, k

LEMMA CashStep ==
  ASSUME TypeOK, Unborn, OneFate, CashReconciles, [Next]_vars
  PROVE  CashReconciles'
<1> SUFFICES ASSUME NEW u \in Users
             PROVE  wallet'[u].cash = funded'[u] + Total(FillFlow(u)', MaxOrders)
  BY DEF CashReconciles
<1>1. PICK c \in Contracts : TRUE
  BY Bounds DEF Contracts
<1>2. /\ wallet \in [Users -> Accounts] /\ wallet[u] \in Accounts
      /\ funded \in [Users -> Int] /\ funded[u] \in Int
      /\ wallet[u].cash = funded[u] + Total(FillFlow(u), MaxOrders)
      /\ Total(FillFlow(u), MaxOrders) \in Int
  BY <1>1, TypeSplit, FlowInts DEF TypeParts, WalletTypeOK, FundedTypeOK, CashReconciles
<1>3. CASE \E o \in OrderIds : Fill(o)
  <2> PICK o \in OrderIds : Fill(o)
    BY <1>3
  <2> DEFINE q == SignedQty(order[o].side, order[o].qty)
             price == request[o].plan.fill
             acc == FillAccount(wallet[order[o].user], MetPosition(o), order[o].side,
                                order[o].qty, price, Held(o))
  <2>1. Total(FillFlow(u)', MaxOrders)
          = Total(FillFlow(u), MaxOrders)
              + IF order[o].user = u THEN -q * price * LotSize ELSE 0
    BY <1>1, FlowMoved, FlowsBooked
  <2>2. funded' = funded /\ wallet' = [wallet EXCEPT ![order[o].user] = acc]
    BY DEF Fill, ApplyFill, MetPosition
  <2>3. CASE order[o].user # u
    BY <1>2, <2>1, <2>2, <2>3
  <2>4. CASE order[o].user = u
    <3>1. acc.cash = wallet[u].cash - q * price * LotSize
      <4>1. FillDelta(wallet[order[o].user], acc, MetPosition(o), order[o].side,
                      order[o].qty, price, Held(o))
        BY FillInputs, FillAccountDelta
      <4> HIDE DEF acc
      <4> QED BY <2>4, <4>1, Zenon DEF FillDelta, q
    <3>2. wallet'[u] = acc
      BY <1>2, <2>2, <2>4
    <3>3. q \in Int /\ price \in Nat
      BY FillInputs, SignedInt
    <3> HIDE DEF q, price, acc
    <3>4. -q * price * LotSize = -(q * price * LotSize) /\ q * price * LotSize \in Int
      BY <3>3, LotSizePositive
    <3>5. Total(FillFlow(u)', MaxOrders) = Total(FillFlow(u), MaxOrders) - q * price * LotSize
      BY <1>2, <2>1, <2>4, <3>4
    <3> QED BY <1>2, <2>2, <3>1, <3>2, <3>4, <3>5 DEF Accounts
  <2> QED BY <2>3, <2>4
<1>4. CASE \A o \in OrderIds : ~Fill(o)
  <2>1. Total(FillFlow(u)', MaxOrders) = Total(FillFlow(u), MaxOrders)
    BY <1>1, <1>4, FlowKept
  <2>2. wallet'[u].cash - funded'[u] = wallet[u].cash - funded[u]
        /\ wallet'[u].cash \in Int /\ funded'[u] \in Int
    <3>1. CASE UNCHANGED ledgerVars
      BY <1>2, <3>1 DEF ledgerVars, Accounts
    <3>2. ASSUME NEW x \in Users, NEW a \in Amounts, AdminCredit(x, a) \/ AdminDebit(x, a)
          PROVE  /\ wallet'[u].cash - funded'[u] = wallet[u].cash - funded[u]
                 /\ wallet'[u].cash \in Int /\ funded'[u] \in Int
      <4>1. a \in Int
        BY Naturals
      <4>2. CASE x # u
        BY <1>2, <3>2, <4>2 DEF AdminCredit, AdminDebit, Accounts
      <4>3. CASE x = u
        <5>1. \E d \in {a, -a} : /\ wallet'[u].cash = wallet[u].cash + d
                                 /\ funded'[u] = funded[u] + d
          BY <1>2, <3>2, <4>1, <4>3 DEF AdminCredit, AdminDebit, Mutate
        <5> QED BY <1>2, <4>1, <5>1 DEF Accounts
      <4> QED BY <4>2, <4>3
    <3>3. ASSUME NEW o \in OrderIds, Create(o) \/ CancelDoc(o)
          PROVE  wallet'[u].cash = wallet[u].cash /\ funded'[u] = funded[u]
      <4>1. /\ funded' = funded
            /\ \E x, r : wallet' = [wallet EXCEPT ![x] = Mutate(@, 0, r)]
        BY <3>3 DEF Create, CancelDoc, Reserve, Release
      <4>2. wallet'[u].cash \in {wallet[u].cash, wallet[u].cash + 0}
        BY <1>2, <4>1 DEF Mutate
      <4> QED BY <1>2, <4>1, <4>2 DEF Accounts
    <3> QED BY <1>2, <1>4, <3>1, <3>2, <3>3, StepCases DEF AdminStep, Accounts
  <2> QED BY <1>2, <2>1, <2>2 DEF Accounts
<1> QED BY <1>3, <1>4

LEMMA LotsStep ==
  ASSUME TypeOK, Unborn, OneFate, LotsReconcile, [Next]_vars
  PROVE  LotsReconcile'
<1> SUFFICES ASSUME NEW u \in Users, NEW c \in Contracts
             PROVE  position'[u][c].lots = Total(LotFlow(u, c)', MaxOrders)
  BY DEF LotsReconcile
<1>1. /\ position \in [Users -> [Contracts -> Positions]] /\ position[u][c] \in Positions
      /\ position[u][c].lots = Total(LotFlow(u, c), MaxOrders)
  BY TypeSplit DEF TypeParts, PositionTypeOK, LotsReconcile
<1>2. CASE \E o \in OrderIds : Fill(o)
  <2> PICK o \in OrderIds : Fill(o)
    BY <1>2
  <2> DEFINE q == SignedQty(order[o].side, order[o].qty)
             owner == order[o].user
             k == order[o].contract
             new == ApplyExecution(position[owner][k], order[o].side, order[o].qty,
                                   request[o].plan.fill)
  <2>1. Total(LotFlow(u, c)', MaxOrders)
          = Total(LotFlow(u, c), MaxOrders) + IF owner = u /\ k = c THEN q ELSE 0
    BY FlowMoved, FlowsBooked
  <2>2. position' = [position EXCEPT ![owner][k] = new]
    BY DEF Fill, ApplyFill
  <2>3. owner \in Users /\ k \in Contracts /\ q \in Int
    BY FillInputs, SignedInt
  <2>4. CASE owner = u /\ k = c
    <3>1. position'[u][c] = new
      BY <1>1, <2>2, <2>3, <2>4
    <3>2. new.lots = position[u][c].lots + q
      BY <2>4 DEF ApplyExecution
    <3> HIDE DEF new, q, owner, k
    <3> QED BY <1>1, <2>1, <2>4, <3>1, <3>2
  <2>5. CASE ~(owner = u /\ k = c)
    <3> HIDE DEF new, q, owner, k
    <3>1. position'[u][c] = position[u][c]
      BY <1>1, <2>2, <2>3, <2>5
    <3> QED BY <1>1, <2>1, <2>5, <3>1 DEF Positions
  <2> QED BY <2>4, <2>5
<1>3. CASE \A o \in OrderIds : ~Fill(o)
  <2>1. UNCHANGED position
    BY <1>3, StepCases DEF ledgerVars, AdminStep, AdminCredit, AdminDebit, Create, CancelDoc
  <2> QED BY <1>1, <1>3, <2>1, FlowKept
<1> QED BY <1>2, <1>3

LEMMA FlowInit ==
  ASSUME Init
  PROVE  CashReconciles /\ LotsReconcile
<1> SUFFICES ASSUME NEW u \in Users
             PROVE  /\ wallet[u].cash = funded[u] + Total(FillFlow(u), MaxOrders)
                    /\ \A c \in Contracts :
                         position[u][c].lots = Total(LotFlow(u, c), MaxOrders)
  BY DEF CashReconciles, LotsReconcile
<1>1. \A o \in 1 .. MaxOrders : FillFlow(u)[o] = 0
  BY DEF Init, FillFlow, Fills, OrderIds
<1>2. Total(FillFlow(u), MaxOrders) = 0
  BY <1>1, Bounds, TotalZero
<1>3. ASSUME NEW c \in Contracts PROVE Total(LotFlow(u, c), MaxOrders) = 0
  <2>1. \A o \in 1 .. MaxOrders : LotFlow(u, c)[o] = 0
    BY DEF Init, LotFlow, Fills, OrderIds
  <2> QED BY <2>1, Bounds, TotalZero
<1> QED BY <1>2, <1>3 DEF Init, EmptyAccount, FlatPosition

FlowInv == TypeOK /\ Unborn /\ OneFate /\ CashReconciles /\ LotsReconcile

LEMMA FlowInvariant == Spec => []FlowInv
<1>1. Init => FlowInv
  BY InitType, FateInit, FlowInit DEF FlowInv
<1>2. FlowInv /\ [Next]_vars => FlowInv'
  <2> SUFFICES ASSUME FlowInv, [Next]_vars PROVE FlowInv'
    OBVIOUS
  <2>1. TypeOK' /\ Unborn' /\ OneFate' /\ CashReconciles' /\ LotsReconcile'
    BY NextType, UnbornStep, OneFateStep, CashStep, LotsStep DEF FlowInv
  <2> QED BY <2>1 DEF FlowInv
<1> QED BY <1>1, <1>2, PTL DEF Spec

\* The cash of an account is, in every instance, what admins put in plus the
\* signed value of its executions: nothing else moves money, and nothing twice.
THEOREM CashReconcilesHolds == Spec => []CashReconciles
<1>1. FlowInv => CashReconciles
  BY DEF FlowInv
<1> QED BY <1>1, FlowInvariant, PTL

\* The net lots of a projection are the sum of the executions behind it, in
\* whatever order concurrent fills reached it.
THEOREM LotsReconcileHolds == Spec => []LotsReconcile
<1>1. FlowInv => LotsReconcile
  BY DEF FlowInv
<1> QED BY <1>1, FlowInvariant, PTL

-----------------------------------------------------------------------------
(* Collateral.                                                             *)

LEMMA LowestPriceType ==
  /\ LowestPrice \in Prices /\ LowestPrice \in Nat
  /\ \A q \in Prices : LowestPrice <= q
<1>1. Prices \subseteq Nat /\ Prices # {}
  BY TradingAssumption
<1>2. \E p \in Prices : \A q \in Prices : p <= q
  BY <1>1, LeastNatural
<1> QED BY <1>1, <1>2 DEF LowestPrice

\* The collateral no short lot falls below.
Floor == LowestPrice * LotSize * (1 + MarginRate)

LEMMA FloorNat == Floor \in Nat
<1>1. LowestPrice * LotSize \in Nat
  BY LowestPriceType, LotSizePositive, NatProduct
<1>2. 1 + MarginRate \in Nat
  BY DEF MarginRate
<1> QED BY <1>1, <1>2, NatProduct DEF Floor

LEMMA ShortsAreBacked ==
  ShortsCollateralised <=>
    \A u \in Users, c \in Contracts : Backed(position[u][c], Floor)
BY DEF ShortsCollateralised, Backed, Floor

LEMMA ShortsAreBackedNext ==
  ShortsCollateralised' <=>
    \A u \in Users, c \in Contracts : Backed(position'[u][c], Floor)
BY DEF ShortsCollateralised, Backed, Floor

ShortsInv == TypeOK /\ Unborn /\ MemoryInv /\ ShortsCollateralised

LEMMA ShortsStep ==
  ASSUME TypeOK, MemoryInv, ShortsCollateralised, [Next]_vars
  PROVE  ShortsCollateralised'
<1> SUFFICES ASSUME NEW u \in Users, NEW c \in Contracts
             PROVE  Backed(position'[u][c], Floor)
  BY ShortsAreBackedNext
<1>1. Backed(position[u][c], Floor)
  BY ShortsAreBacked
<1>2. CASE \A o \in OrderIds : ~Fill(o)
  <2>1. UNCHANGED position
    BY <1>2, StepCases DEF ledgerVars, AdminStep, AdminCredit, AdminDebit, Create, CancelDoc
  <2> QED BY <1>1, <2>1
<1>3. ASSUME NEW o \in OrderIds, Fill(o) PROVE Backed(position'[u][c], Floor)
  <2> DEFINE owner == order[o].user
             k == order[o].contract
             pos == position[owner][k]
             price == request[o].plan.fill
             new == ApplyExecution(pos, order[o].side, order[o].qty, price)
  <2>1. position' = [position EXCEPT ![owner][k] = new]
    BY <1>3 DEF Fill, ApplyFill
  <2>2. /\ owner \in Users /\ k \in Contracts /\ pos \in Positions
        /\ order[o] \in OrderDoc /\ order[o].side \in Sides
        /\ position \in [Users -> [Contracts -> Positions]]
    BY <1>3, FillInputs, TypeSplit DEF MetPosition, TypeParts, PositionTypeOK
  <2>3. order[o].qty \in Nat \ {0}
    <3>1. order[o].qty \in Quantities
      BY <2>2 DEF OrderDoc
    <3> QED BY <3>1, Naturals
  <2>4. price \in Nat /\ price >= LowestPrice
    <3>1. price \in Prices
      BY <1>3 DEF Fill, MemoryInv, OrderOfRequest, LateStages
    <3>2. price \in Nat /\ LowestPrice <= price /\ LowestPrice \in Nat
      BY <3>1, Naturals, LowestPriceType
    <3> HIDE DEF price
    <3> QED BY <3>2
  <2>5. Backed(pos, LowestPrice * LotSize * (1 + MarginRate))
    BY <2>2, ShortsAreBacked DEF Floor
  <2>6. Backed(new, LowestPrice * LotSize * (1 + MarginRate))
    <3> HIDE DEF pos, price
    <3>1. LowestPrice \in Nat
      BY LowestPriceType
    <3> QED BY <2>2, <2>3, <2>4, <2>5, <3>1, ExecutionKeepsFloor
  <2>7. position'[u][c] = IF owner = u /\ k = c THEN new ELSE position[u][c]
    <3> HIDE DEF new, owner, k
    <3> QED BY <2>1, <2>2
  <2> QED BY <1>1, <2>6, <2>7 DEF Floor
<1> QED BY <1>2, <1>3

LEMMA ShortsInit == Init => ShortsCollateralised
<1> SUFFICES ASSUME Init, NEW u \in Users, NEW c \in Contracts
             PROVE  Backed(position[u][c], Floor)
  BY ShortsAreBacked
<1>1. position[u][c].lots = 0 /\ position[u][c].collateral = 0
  BY DEF Init, FlatPosition
<1> QED BY <1>1, FloorNat DEF Backed

\* However many rounded pro-rata releases, flips and partial covers a short
\* goes through, what is left of it stays backed at the lowest price, and a
\* position that is not short holds nothing.
THEOREM ShortsCollateralisedHolds == Spec => []ShortsCollateralised
<1>1. Init => ShortsInv
  BY InitType, FateInit, MemoryInit, ShortsInit DEF ShortsInv
<1>2. ShortsInv /\ [Next]_vars => ShortsInv'
  <2> SUFFICES ASSUME ShortsInv, [Next]_vars PROVE ShortsInv'
    OBVIOUS
  <2>1. TypeOK' /\ Unborn' /\ MemoryInv' /\ ShortsCollateralised'
    BY NextType, UnbornStep, MemoryStep, ShortsStep DEF ShortsInv
  <2> QED BY <2>1 DEF ShortsInv
<1>3. ShortsInv => ShortsCollateralised
  BY DEF ShortsInv
<1> QED BY <1>1, <1>2, <1>3, PTL DEF Spec

-----------------------------------------------------------------------------
(* The lock and the intent.  The mutex is of one process: what follows     *)
(* holds when one process serves all requests.                             *)

SingleReplica == \A r, s \in Replicas : r = s

\* Two handlers under the lock serve different users or contracts.
LockHeld ==
  \A o, p \in OrderIds :
    /\ request[o].stage \in LockStages /\ request[p].stage \in LockStages /\ o # p
    => \/ request[o].in.user # request[p].in.user
       \/ request[o].in.contract # request[p].in.contract

\* Under the lock nobody else moves the position that was read.
PlanFresh ==
  \A o \in OrderIds :
    request[o].stage \in LockStages =>
      request[o].plan.lots = position[request[o].in.user][request[o].in.contract].lots

LockInv == LockHeld /\ PlanFresh

LEMMA PlanMemory ==
  ASSUME TypeOK, NEW o \in OrderIds, Plan(o)
  PROVE  /\ request[o] \in ActiveRequest /\ request'[o].in = request[o].in
         /\ request'[o].plan.lots = position[request[o].in.user][request[o].in.contract].lots
         /\ UNCHANGED position
<1>1. request[o] \in ActiveRequest
  BY ActiveRequestType DEF Plan, Stages
<1>2. request \in [OrderIds -> ActiveRequest \cup GoneRequest]
  BY TypeSplit DEF TypeParts, RequestTypeOK
<1>3. PICK q : request' = [request EXCEPT
         ![o].stage = "planned",
         ![o].plan = [lots |-> position[request[o].in.user][request[o].in.contract].lots,
                      price |-> q.price, fill |-> q.fill, version |-> gate.version]]
  BY DEF Plan
<1> QED BY <1>1, <1>2, <1>3 DEF ActiveRequest, Plan, ledgerVars

LEMMA RereadMemory ==
  ASSUME TypeOK, NEW o \in OrderIds, Reread(o)
  PROVE  /\ request[o].stage \in LockStages /\ request'[o].in = request[o].in
         /\ request'[o].plan.lots = request[o].plan.lots
<1>1. request[o] \in ActiveRequest
  BY ActiveRequestType DEF Reread, Stages
<1>2. request \in [OrderIds -> ActiveRequest \cup GoneRequest]
  BY TypeSplit DEF TypeParts, RequestTypeOK
<1>3. PICK q : request' = [request EXCEPT
         ![o].stage = "planned",
         ![o].plan = [lots |-> @.lots, price |-> q.price, fill |-> q.fill,
                      version |-> gate.version]]
  BY DEF Reread
<1> QED BY <1>1, <1>2, <1>3 DEF ActiveRequest, Reread, LockStages

\* Who is under the lock came in with Plan, or was there and keeps its request
\* and the lots it read.
LEMMA LockMoves ==
  ASSUME TypeOK, [Next]_vars, NEW o \in OrderIds, request'[o].stage \in LockStages
  PROVE  /\ request'[o].in = request[o].in
         /\ Plan(o) \/ /\ request[o].stage \in LockStages
                       /\ request'[o].plan.lots = request[o].plan.lots
<1>1. Create(o) => request[o].stage \in LockStages
  BY DEF Create, LockStages
<1> QED BY <1>1, HandlerMoves, PlanMemory, RereadMemory DEF SameMemory

LEMMA LockHeldStep ==
  ASSUME SingleReplica, TypeOK, LockHeld, [Next]_vars
  PROVE  LockHeld'
<1> SUFFICES ASSUME NEW o \in OrderIds, NEW p \in OrderIds, o # p,
                    request'[o].stage \in LockStages, request'[p].stage \in LockStages,
                    request'[o].in.user = request'[p].in.user,
                    request'[o].in.contract = request'[p].in.contract
             PROVE  FALSE
  BY DEF LockHeld
<1>1. /\ request[o].in.user = request[p].in.user
      /\ request[o].in.contract = request[p].in.contract
  BY LockMoves
<1>2. ASSUME NEW x \in OrderIds, NEW y \in OrderIds, x # y, Plan(x),
             request'[y].stage \in LockStages,
             request[x].in.user = request[y].in.user,
             request[x].in.contract = request[y].in.contract
      PROVE  FALSE
  <2>1. request'[y] = request[y]
    <3>1. request \in [OrderIds -> ActiveRequest \cup GoneRequest]
      BY TypeSplit DEF TypeParts, RequestTypeOK
    <3>2. \E r : request' = [request EXCEPT ![x].stage = "planned", ![x].plan = r]
      BY <1>2 DEF Plan
    <3> QED BY <1>2, <3>1, <3>2
  <2>2. request[x] \in ActiveRequest /\ request[y] \in ActiveRequest
    BY <1>2, <2>1, ActiveRequestType, PlanMemory DEF LockStages, Stages
  <2>3. request[x].in.replica = request[y].in.replica
    BY <2>2, RequestType DEF SingleReplica, ActiveRequest
  <2> QED BY <1>2, <2>1, <2>3 DEF Plan, LockFree, Active, LockStages, Stages
<1>3. CASE Plan(o)
  BY <1>1, <1>2, <1>3
<1>4. CASE Plan(p)
  BY <1>1, <1>2, <1>4
<1>5. CASE request[o].stage \in LockStages /\ request[p].stage \in LockStages
  BY <1>1, <1>5 DEF LockHeld
<1> QED BY <1>3, <1>4, <1>5, LockMoves

LEMMA PlanFreshStep ==
  ASSUME TypeOK, OrderOfRequest, LockHeld, PlanFresh, [Next]_vars
  PROVE  PlanFresh'
<1> SUFFICES ASSUME NEW o \in OrderIds, request'[o].stage \in LockStages
             PROVE  request'[o].plan.lots
                      = position'[request'[o].in.user][request'[o].in.contract].lots
  BY DEF PlanFresh
<1>1. CASE Plan(o)
  BY <1>1, PlanMemory
<1>2. CASE /\ request[o].stage \in LockStages /\ request'[o].in = request[o].in
           /\ request'[o].plan.lots = request[o].plan.lots
  <2>1. CASE \A p \in OrderIds : ~Fill(p)
    <3>1. UNCHANGED position
      BY <2>1, StepCases DEF ledgerVars, AdminStep, AdminCredit, AdminDebit, Create, CancelDoc
    <3> QED BY <1>2, <3>1 DEF PlanFresh
  <2>2. ASSUME NEW p \in OrderIds, Fill(p)
        PROVE  position'[request[o].in.user][request[o].in.contract]
                 = position[request[o].in.user][request[o].in.contract]
    <3>1. p # o
      <4>1. request'[p].stage = "returned"
        BY <2>2, TypeSplit DEF Fill, Leave, TypeParts, RequestTypeOK
      <4> QED BY <4>1 DEF LockStages
    <3>2. /\ request[p].stage \in LockStages
          /\ order[p].user = request[p].in.user /\ order[p].contract = request[p].in.contract
      BY <2>2 DEF Fill, OrderOfRequest, LateStages, LockStages
    <3>3. order[p].user # request[o].in.user \/ order[p].contract # request[o].in.contract
      BY <1>2, <3>1, <3>2 DEF LockHeld
    <3>4. order[p].user \in Users /\ order[p].contract \in Contracts
          /\ request[o].in.user \in Users /\ request[o].in.contract \in Contracts
      BY <1>2, <2>2, FillInputs, ActiveRequestType, RequestType
      DEF ActiveRequest, LockStages, Stages
    <3>5. \E new : position' = [position EXCEPT ![order[p].user][order[p].contract] = new]
      BY <2>2 DEF Fill, ApplyFill
    <3> QED BY <3>3, <3>4, <3>5, TypeSplit DEF TypeParts, PositionTypeOK
  <2> QED BY <1>2, <2>1, <2>2 DEF PlanFresh
<1> QED BY <1>1, <1>2, LockMoves

IntentInv ==
  TypeOK /\ Unborn /\ OneFate /\ MemoryInv /\ LockInv /\ IntentHonoured

LEMMA IntentStep ==
  ASSUME TypeOK, Unborn, OneFate, MemoryInv, PlanFresh, IntentHonoured, [Next]_vars
  PROVE  IntentHonoured'
<1> SUFFICES ASSUME NEW o \in OrderIds, executions'[o] # <<>>
             PROVE  order'[o].intent
                      = Intent(order'[o].side, order'[o].qty, executions'[o][1].met)
  BY DEF IntentHonoured, Fills, Intent
<1>1. CASE executions'[o] = executions[o]
  <2>1. order[o].status = "executed"
    BY <1>1, BookedType
  <2>2. order'[o] = order[o]
    BY <2>1, FinishedStep
  <2> QED BY <1>1, <2>2 DEF IntentHonoured, Fills
<1>2. CASE Fill(o) /\ executions'[o] = <<Booked(o)>>
  <2>1. request[o].stage \in LateStages /\ request[o].stage \in LockStages
    BY <1>2 DEF Fill, LateStages, LockStages
  <2>2. /\ order[o] \in OrderDoc /\ order[o].side = request[o].in.side
        /\ order[o].qty = request[o].in.qty /\ order[o].user = request[o].in.user
        /\ order[o].contract = request[o].in.contract
        /\ order[o].intent = Intent(order[o].side, order[o].qty, request[o].plan.lots)
    BY <2>1 DEF MemoryInv, OrderOfRequest
  <2>3. request[o].plan.lots = MetPosition(o).lots
    BY <2>1, <2>2 DEF PlanFresh, MetPosition
  <2>4. /\ order'[o].side = order[o].side /\ order'[o].qty = order[o].qty
        /\ order'[o].intent = order[o].intent
    BY <1>2, <2>2, TypeSplit DEF Fill, ApplyFill, TypeParts, OrderTypeOK, OrderDoc
  <2>5. executions'[o][1].met = MetPosition(o).lots
    BY <1>2 DEF Booked
  <2> QED BY <2>2, <2>3, <2>4, <2>5
<1> QED BY <1>1, <1>2, ExecutionStep

LEMMA IntentInit == Init => LockInv /\ IntentHonoured
BY DEF Init, LockInv, LockHeld, PlanFresh, IntentHonoured, Fills, NoRequest, LockStages

\* With one API process an executed order always did to the position what it
\* was planned to do: whatever is retried, cancelled, fenced or lost in a crash
\* meanwhile, and for any number of orders.
THEOREM IntentHonouredHolds ==
  ASSUME SingleReplica
  PROVE  Spec => []IntentHonoured
<1>1. Init => IntentInv
  BY InitType, FateInit, MemoryInit, IntentInit DEF IntentInv
<1>2. IntentInv /\ [Next]_vars => IntentInv'
  <2> SUFFICES ASSUME IntentInv, [Next]_vars PROVE IntentInv'
    OBVIOUS
  <2>1. TypeOK' /\ Unborn' /\ OneFate' /\ MemoryInv'
    BY NextType, UnbornStep, OneFateStep, MemoryStep DEF IntentInv
  <2>2. LockHeld' /\ PlanFresh'
    BY LockHeldStep, PlanFreshStep DEF IntentInv, LockInv, MemoryInv
  <2>3. IntentHonoured'
    BY IntentStep DEF IntentInv, LockInv
  <2> QED BY <2>1, <2>2, <2>3 DEF IntentInv, LockInv
<1>3. IntentInv => IntentHonoured
  BY DEF IntentInv
<1> QED BY <1>1, <1>2, <1>3, PTL DEF Spec

-----------------------------------------------------------------------------
(* What a handler leaves behind.                                           *)

\* An order is known to be marketable only once its fill is under way.
MarkedLate ==
  \A o \in OrderIds : Early(o) => ~marketable[o]

TidyInv == BackedInv /\ MarkedLate /\ NothingLeftBehind

LEMMA MarkedStep ==
  ASSUME TypeOK, MarkedLate, [Next]_vars
  PROVE  MarkedLate'
<1> SUFFICES ASSUME NEW o \in OrderIds, request'[o].stage \in EarlyStages
             PROVE  ~marketable'[o]
  BY DEF MarkedLate, Early
<1>1. Early(o) /\ ~marketable[o]
  BY StagesAdvance DEF MarkedLate
<1>2. CASE UNCHANGED marketable
  BY <1>1, <1>2
<1>3. ASSUME NEW p \in OrderIds, Create(p) PROVE ~marketable'[o]
  <2>1. p # o
    BY <1>3, TypeSplit
    DEF Create, Leave, EarlyStages, TypeParts, RequestTypeOK, ActiveRequest, GoneRequest
  <2> QED BY <1>1, <1>3, <2>1, TypeSplit DEF Create, TypeParts, MarkTypeOK
<1>4. \/ UNCHANGED marketable \/ \E p \in OrderIds : Create(p)
  BY StepCases DEF ledgerVars, AdminStep, AdminCredit, AdminDebit, Fill, CancelDoc
<1> QED BY <1>2, <1>3, <1>4

\* The only ways to an answer while nobody hangs up.
LEMMA Answers ==
  ASSUME ~Disconnects, TypeOK, [Next]_vars, NEW o \in OrderIds,
         request'[o].stage = "returned", request[o].stage # "returned"
  PROVE  \/ Early(o) /\ UNCHANGED ledgerVars
         \/ Create(o) /\ request[o].plan.fill = 0
         \/ Fill(o) \/ FillStale(o) \/ Undo(o)
<1> DEFINE Goal == \/ Early(o) /\ UNCHANGED ledgerVars
                   \/ Create(o) /\ request[o].plan.fill = 0
                   \/ Fill(o) \/ FillStale(o) \/ Undo(o)
<1>1. request \in [OrderIds -> ActiveRequest \cup GoneRequest]
  BY TypeSplit DEF TypeParts, RequestTypeOK
<1>2. UNCHANGED request => FALSE
  OBVIOUS
<1>3. ASSUME NEW p \in OrderIds, Handler(p) PROVE Goal
  <2>1. CASE p # o
    <3>1. request'[o] = request[o]
      <4>1. CASE Plan(p) \/ PlanRefused(p) \/ Reread(p) \/ RereadRefused(p)
        BY <1>1, <2>1, <4>1 DEF Plan, PlanRefused, Reread, RereadRefused, Leave
      <4>2. CASE Create(p) \/ CreateRefused(p) \/ CreateFenced(p)
        BY <1>1, <2>1, <4>2 DEF Create, CreateRefused, CreateFenced, Leave
      <4>3. CASE Fill(p) \/ FillStale(p) \/ Undo(p) \/ FillFenced(p) \/ FillDenied(p)
        BY <1>1, <2>1, <4>3 DEF Fill, FillStale, Undo, FillFenced, FillDenied, Leave, Goto
      <4> QED BY <1>3, <4>1, <4>2, <4>3 DEF Handler
    <3> QED BY <3>1
  <2>2. CASE p = o
    <3>1. CASE Plan(o) \/ Reread(o)
      <4>1. request[o] \in ActiveRequest
        BY <3>1, ActiveRequestType DEF Plan, Reread, Stages
      <4>2. \E r : request' = [request EXCEPT ![o].stage = "planned", ![o].plan = r]
        <5>1. Plan(o) => \E r : request' = [request EXCEPT ![o].stage = "planned", ![o].plan = r]
          BY DEF Plan
        <5>2. ASSUME Reread(o)
              PROVE  \E r : request' = [request EXCEPT ![o].stage = "planned", ![o].plan = r]
          <6>1. PICK q : request' = [request EXCEPT
                   ![o].stage = "planned",
                   ![o].plan = [lots |-> @.lots, price |-> q.price, fill |-> q.fill,
                                version |-> gate.version]]
            BY <5>2 DEF Reread
          <6> DEFINE r == [lots |-> request[o].plan.lots, price |-> q.price,
                           fill |-> q.fill, version |-> gate.version]
          <6>2. request' = [request EXCEPT ![o].stage = "planned", ![o].plan = r]
            BY <1>1, <4>1, <6>1 DEF ActiveRequest
          <6> QED BY <6>2
        <5> QED BY <3>1, <5>1, <5>2
      <4>3. request'[o].stage = "planned"
        BY <1>1, <4>1, <4>2 DEF ActiveRequest
      <4> QED BY <4>3
    <3>2. CASE PlanRefused(o) \/ RereadRefused(o) \/ CreateRefused(o) \/ CreateFenced(o)
      BY <3>2 DEF PlanRefused, RereadRefused, CreateRefused, CreateFenced, Early, EarlyStages
    <3>3. CASE Create(o)
      <4>1. request[o] \in ActiveRequest
        BY <3>3, ActiveRequestType DEF Create, Stages
      <4>2. request[o].plan.fill # 0 => request'[o].stage = "filling"
        BY <1>1, <3>3, <4>1 DEF Create, ActiveRequest
      <4> QED BY <3>3, <4>2
    <3>4. CASE FillFenced(o) \/ FillDenied(o)
      <4>1. request[o] \in ActiveRequest
        BY <3>4, ActiveRequestType DEF FillFenced, FillDenied, Stages
      <4>2. request'[o].stage \in {"filling", "undoing"}
        BY <1>1, <3>4, <4>1 DEF FillFenced, FillDenied, Goto, ActiveRequest
      <4> QED BY <4>2
    <3> QED BY <1>3, <2>2, <3>1, <3>2, <3>3, <3>4 DEF Handler
  <2> QED BY <2>1, <2>2
<1>4. ASSUME NEW p \in OrderIds, NEW in \in Requests, Receive(p, in) PROVE FALSE
  BY <1>1, <1>4 DEF Receive
<1>5. ASSUME NEW p \in OrderIds, UserCancel(p) \/ GateCancel(p) \/ Disconnect(p)
      PROVE  FALSE
  BY <1>2, <1>5 DEF UserCancel, GateCancel, Disconnect
<1>6. ASSUME NEW r \in Replicas, Crash(r) PROVE FALSE
  BY <1>1, <1>6 DEF Crash
<1>7. ASSUME NEW u \in Users, NEW a \in Amounts, AdminCredit(u, a) \/ AdminDebit(u, a)
      PROVE  FALSE
  BY <1>2, <1>7 DEF AdminCredit, AdminDebit
<1>8. CASE CloseGate \/ ReopenGate \/ UNCHANGED vars
  BY <1>2, <1>8 DEF CloseGate, ReopenGate, vars
<1> QED BY <1>3, <1>4, <1>5, <1>6, <1>7, <1>8 DEF Next, Environment

LEMMA LeftBehindStep ==
  ASSUME ~Disconnects, BackedInv, MarkedLate, NothingLeftBehind, [Next]_vars
  PROVE  NothingLeftBehind'
<1> SUFFICES ASSUME NEW o \in OrderIds, request'[o].stage = "returned",
                    marketable'[o], order'[o].status = "open"
             PROVE  FALSE
  BY DEF NothingLeftBehind, Working
<1>1. TypeOK /\ Unborn /\ TypeParts
  BY TypeSplit DEF BackedInv
<1>2. CASE request[o].stage = "returned"
  <2>1. ASSUME NEW p \in OrderIds, Create(p)
        PROVE  order'[o] = order[o] /\ marketable'[o] = marketable[o]
    <3>1. p # o
      BY <1>2, <2>1 DEF Create
    <3> QED BY <1>1, <2>1, <3>1 DEF Create, TypeParts, OrderTypeOK, MarkTypeOK
  <2>2. CASE \A p \in OrderIds : ~Create(p)
    <3>1. UNCHANGED marketable
      BY <1>1, <2>2, StepCases
      DEF ledgerVars, AdminStep, AdminCredit, AdminDebit, Fill, CancelDoc
    <3>2. order[o].status = "open"
      BY <1>1, <2>2, DocumentStep DEF Working
    <3> QED BY <1>2, <3>1, <3>2 DEF NothingLeftBehind, Working
  <2> QED BY <1>2, <2>1, <2>2 DEF NothingLeftBehind, Working
<1>3. CASE request[o].stage # "returned"
  <2>1. CASE Early(o) /\ UNCHANGED ledgerVars
    BY <2>1 DEF MarkedLate, ledgerVars
  <2>2. CASE Create(o) /\ request[o].plan.fill = 0
    BY <1>1, <2>2 DEF Create, TypeParts, MarkTypeOK
  <2>3. CASE Fill(o)
    <3>1. order'[o].status = "executed"
      BY <1>1, <2>3, FillInputs DEF Fill, ApplyFill, TypeParts, OrderTypeOK, OrderDoc
    <3> QED BY <3>1
  <2>4. CASE FillStale(o)
    BY <2>4 DEF FillStale, ledgerVars, Working
  <2>5. CASE Undo(o)
    <3>1. CASE Cancellable(o)
      <4>1. order[o] \in OrderDoc
        BY <1>1, <3>1, ExistingOrderType DEF Cancellable, Working
      <4>2. order'[o].status = "cancelled"
        BY <1>1, <2>5, <3>1, <4>1 DEF Undo, CancelDoc, TypeParts, OrderTypeOK, OrderDoc
      <4> QED BY <4>2
    <3>2. CASE ~Cancellable(o)
      <4>1. UNCHANGED order
        BY <2>5, <3>2 DEF Undo, ledgerVars
      <4>2. Working(o)
        BY <4>1 DEF Working
      <4>3. CanRelease(wallet[order[o].user], Held(o))
        BY <4>2, BackedReturnable DEF MarginReturnable
      <4> QED BY <3>2, <4>2, <4>3 DEF Cancellable
    <3> QED BY <3>1, <3>2
  <2> QED BY <1>1, <1>3, <2>1, <2>2, <2>3, <2>4, <2>5, Answers
<1> QED BY <1>2, <1>3

LEMMA TidyInit == Init => MarkedLate /\ NothingLeftBehind
BY DEF Init, MarkedLate, NothingLeftBehind, NoRequest, Early, EarlyStages

\* While no client hangs up, a handler that returns leaves no marketable order
\* working, in every instance: a failed fill is always undone, because the
\* wallet can always give the margin back.
THEOREM NothingLeftBehindHolds ==
  ASSUME ~Disconnects
  PROVE  Spec => []NothingLeftBehind
<1>1. Init => TidyInv
  BY InitType, FateInit, BackedInit, TidyInit DEF TidyInv, BackedInv
<1>2. TidyInv /\ [Next]_vars => TidyInv'
  <2> SUFFICES ASSUME TidyInv, [Next]_vars PROVE TidyInv'
    OBVIOUS
  <2>1. BackedInv'
    BY NextType, UnbornStep, BackedStep DEF TidyInv, BackedInv
  <2>2. MarkedLate' /\ NothingLeftBehind'
    BY MarkedStep, LeftBehindStep DEF TidyInv, BackedInv
  <2> QED BY <2>1, <2>2 DEF TidyInv
<1>3. TidyInv => NothingLeftBehind
  BY DEF TidyInv
<1> QED BY <1>1, <1>2, <1>3, PTL DEF Spec
=============================================================================
