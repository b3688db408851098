----------------------------- MODULE OrderMath -----------------------------
(***************************************************************************)
(* The arithmetic of the order engine: how an order is split by the net    *)
(* lots it meets, what margin it reserves, and how a fill moves a position *)
(* projection and a wallet account.  Money is a whole number of paise: the *)
(* code rounds every amount with round2 before it stores it, so the only   *)
(* place where a rounding decision is left is the pro-rata release of      *)
(* short collateral.  Every operator is pure.                              *)
(***************************************************************************)
EXTENDS Integers

CONSTANT LotSize               \* units per lot (lotsize.Size)

ASSUME LotSizeAssumption == LotSize \in Nat \ {0}

MarginRate == 2                \* ShortInitialMarginRate

Sides   == {"buy", "sell"}
Effects == {"AUTO", "OPEN", "CLOSE"}

Least(a, b) == IF a <= b THEN a ELSE b
Excess(a, b) == IF a > b THEN a - b ELSE 0     \* round2(a - b) when positive

-----------------------------------------------------------------------------
(* Position plan.                                                          *)

\* Mutant: a sell closes all the longs it meets, however few lots it asks for.
UncappedCloseLongQty(qty, lots) == IF lots > 0 THEN lots ELSE 0

\* Lots of the order that reduce the position met (lots), and lots that open.
CoverQty(qty, lots)      == IF lots < 0 THEN Least(qty, -lots) ELSE 0
CloseLongQty(qty, lots)  == IF lots > 0 THEN Least(qty, lots) ELSE 0
OpenLongQty(qty, lots)   == qty - CoverQty(qty, lots)
OpenShortQty(qty, lots)  == qty - CloseLongQty(qty, lots)

OpenQty(side, qty, lots) ==
  IF side = "buy" THEN OpenLongQty(qty, lots) ELSE OpenShortQty(qty, lots)

\* buildPositionPlan refuses an order whose positionEffect contradicts lots.
PlanAllowed(side, qty, effect, lots) ==
  /\ effect = "CLOSE" /\ side = "buy"  => lots < 0 /\ qty <= -lots
  /\ effect = "CLOSE" /\ side = "sell" => lots > 0 /\ qty <= lots
  /\ effect = "OPEN"  /\ side = "buy"  => lots >= 0
  /\ effect = "OPEN"  /\ side = "sell" => lots <= 0

\* The constraint Service.ApplyExecution hands to the position projection.
ConstraintAccepts(side, qty, effect, lots) ==
  /\ effect = "CLOSE" /\ side = "buy"  => lots <= -qty
  /\ effect = "CLOSE" /\ side = "sell" => lots >= qty
  /\ effect = "OPEN"  /\ side = "buy"  => lots >= 0
  /\ effect = "OPEN"  /\ side = "sell" => lots <= 0

SideRate(side) == IF side = "buy" THEN 1 ELSE MarginRate

\* Margin the plan reserves: full price of opened longs, twice that of shorts.
PlanReserve(side, qty, lots, price) ==
  price * OpenQty(side, qty, lots) * LotSize * SideRate(side)

-----------------------------------------------------------------------------
(* Position projection.  A position is [lots, collateral].                 *)

FlatPosition == [lots |-> 0, collateral |-> 0]

\* Mutant: a partial cover releases everything.
FullRelease(collateral, cover, short) == collateral

\* round2(collateral * cover / short), round half up, whole when all is covered.
ProRata(collateral, cover, short) ==
  IF cover >= short THEN collateral
  ELSE (2 * collateral * cover + short) \div (2 * short)

CollateralRelease(pos, side, qty) ==
  LET cover == CoverQty(qty, pos.lots)
  IN  IF side = "buy" /\ cover > 0
      THEN ProRata(pos.collateral, cover, -pos.lots)
      ELSE 0

\* Sale proceeds plus initial margin locked behind newly opened short lots.
CollateralAdded(pos, side, qty, price) ==
  IF side = "sell"
  THEN price * OpenShortQty(qty, pos.lots) * LotSize * (1 + MarginRate)
  ELSE 0

SignedQty(side, qty) == IF side = "buy" THEN qty ELSE -qty

ApplyExecution(pos, side, qty, price) ==
  [lots       |-> pos.lots + SignedQty(side, qty),
   collateral |-> pos.collateral - CollateralRelease(pos, side, qty)
                    + CollateralAdded(pos, side, qty, price)]

-----------------------------------------------------------------------------
(* Wallet account: [cash, reserved, available], each stored and updated    *)
(* separately.  An operation is refused (ErrInsufficientFunds) when its    *)
(* precondition fails; a zero amount is never sent to the wallet.          *)

EmptyAccount == [cash |-> 0, reserved |-> 0, available |-> 0]

Mutate(w, cash, reserved) ==
  [cash      |-> w.cash + cash,
   reserved  |-> w.reserved + reserved,
   available |-> w.available + cash - reserved]

Covers(balance, amount) == amount > 0 => balance >= amount

CanReserve(w, amount) == Covers(w.available, amount)
Reserve(w, amount)    == Mutate(w, 0, amount)

CanRelease(w, amount) == Covers(w.reserved, amount)
Release(w, amount)    == Mutate(w, 0, -amount)

CanSettleBuy(w, cost, release) ==
  Covers(w.available, Excess(cost, release)) /\ Covers(w.reserved, release)
CanSettleForcedBuy(w, release) == Covers(w.reserved, release)
SettleBuy(w, cost, release)    == Mutate(w, -cost, -release)

\* Mutant: the proceeds of a short sale are locked but never credited.
UncreditedShortOpen(w, proceeds) == Mutate(w, 0, proceeds)

SettleSell(w, proceeds)      == Mutate(w, proceeds, 0)
SettleShortOpen(w, proceeds) == Mutate(w, proceeds, proceeds)

-----------------------------------------------------------------------------
(* The wallet half of a fill: price and qty are the fill's, held is the    *)
(* margin the order still holds and pos the position the fill met.         *)

BuyTopUp(pos, qty, price, held) ==
  Excess(price * OpenLongQty(qty, pos.lots) * LotSize, held)

\* The account after the cover release and the top-up, before the purchase.
BuyReleased(w, pos, qty) == Release(w, CollateralRelease(pos, "buy", qty))
BuyPrepared(w, pos, qty, price, held) ==
  Reserve(BuyReleased(w, pos, qty), BuyTopUp(pos, qty, price, held))

CanBuyFill(w, pos, qty, price, held) ==
  LET topUp == BuyTopUp(pos, qty, price, held)
  IN  /\ CanRelease(w, CollateralRelease(pos, "buy", qty))
      /\ CanReserve(BuyReleased(w, pos, qty), topUp)
      /\ CanSettleBuy(BuyPrepared(w, pos, qty, price, held),
                      price * qty * LotSize, held + topUp)

BuyFill(w, pos, qty, price, held) ==
  SettleBuy(BuyPrepared(w, pos, qty, price, held), price * qty * LotSize,
            held + BuyTopUp(pos, qty, price, held))

ShortMargin(pos, qty, price) ==
  price * OpenShortQty(qty, pos.lots) * LotSize * MarginRate

\* Mutant: margin held beyond what the fill needs is kept.
UntrimmedSellPrepared(w, pos, qty, price, held) ==
  Reserve(w, Excess(ShortMargin(pos, qty, price), held))

\* Held margin is first cut down or topped up to what the short needs.
SellPrepared(w, pos, qty, price, held) ==
  LET margin == ShortMargin(pos, qty, price)
  IN  Reserve(Release(w, Excess(held, margin)), Excess(margin, held))

CanSellFill(w, pos, qty, price, held) ==
  LET margin == ShortMargin(pos, qty, price)
  IN  /\ CanRelease(w, Excess(held, margin))
      /\ CanReserve(Release(w, Excess(held, margin)), Excess(margin, held))

SellFill(w, pos, qty, price, held) ==
  SettleShortOpen(
    SettleSell(SellPrepared(w, pos, qty, price, held),
               price * CloseLongQty(qty, pos.lots) * LotSize),
    price * OpenShortQty(qty, pos.lots) * LotSize)

CanFill(w, pos, side, qty, price, held) ==
  IF side = "buy" THEN CanBuyFill(w, pos, qty, price, held)
                  ELSE CanSellFill(w, pos, qty, price, held)

FillAccount(w, pos, side, qty, price, held) ==
  IF side = "buy" THEN BuyFill(w, pos, qty, price, held)
                  ELSE SellFill(w, pos, qty, price, held)
=============================================================================
