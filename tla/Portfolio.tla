----------------------------- MODULE Portfolio -----------------------------
(***************************************************************************)
(* What a user is shown of his trading: position documents kept by each    *)
(* fill (positions/projection.go), positions replayed from the list of     *)
(* executions (positions/service.go), the portfolio's totals               *)
(* (portfolio/service.go) and his line of the leaderboard.                 *)
(*                                                                         *)
(* One user, whose fills come one at a time (Trading has them race); the   *)
(* wallet is moved by OrderMath, so that profit can be held against the    *)
(* money.  Amounts are paise, rounded half away from zero like round2.     *)
(***************************************************************************)
EXTENDS OrderMath, Sequences, SequencesExt, FiniteSetsExt

CONSTANTS Contracts,   \* a market and a strike each
          Prices,      \* of fills; 0 is a settlement price
          Marks,       \* quotes: they price open positions and new orders
          Quantities,
          Capital,     \* the wallet before the first fill
          HistoryLimit, \* executions read for a replay, 1000
          SummaryLimit, \* executions of a market read for a quote, 500
          MaxFills, MaxDays

ASSUME PortfolioAssumption ==
  /\ Prices \cup Marks \subseteq Nat /\ Quantities \subseteq Nat \ {0}
  /\ {Capital, HistoryLimit, SummaryLimit, MaxFills, MaxDays} \subseteq Nat

VARIABLES fills,   \* executions, oldest first: [contract, side, qty, price]
          docs,    \* position documents in the order of their first fill
          wallet,  \* the balances
          date     \* the trading day
portfolioVars == <<fills, docs, wallet, date>>

PortfolioInit ==
  /\ fills = <<>> /\ docs = <<>> /\ date = 1
  /\ wallet = [cash |-> Capital, reserved |-> 0, available |-> Capital]
-----------------------------------------------------------------------------
(***************************************************************************)
(* A position, as a document or as replayed, counts what was bought and    *)
(* sold: [buyLots, buyNotional, sellLots, sellNotional].                   *)
(***************************************************************************)
Rounded(n, d) == IF n >= 0 THEN (2 * n + d) \div (2 * d) ELSE -((2 * d - 1 - 2 * n) \div (2 * d))
Abs(n) == IF n >= 0 THEN n ELSE -n

Empty == [buyLots |-> 0, buyNotional |-> 0, sellLots |-> 0, sellNotional |-> 0]
Lots(p) == p.buyLots - p.sellLots
Matched(p) == Least(p.buyLots, p.sellLots)
Add(p, fill) ==
  IF fill.side = "buy"
  THEN [p EXCEPT !.buyLots = @ + fill.qty, !.buyNotional = @ + fill.price * fill.qty]
  ELSE [p EXCEPT !.sellLots = @ + fill.qty, !.sellNotional = @ + fill.price * fill.qty]

\* Average price of a side.
Average(notional, lots) == IF lots = 0 THEN 0 ELSE Rounded(notional, lots)

\* Mutant: all that was sold, whether it was bought or not, is realized.
RealizedOnSale(p) ==
  IF Matched(p) = 0 \/ p.buyNotional = 0 THEN 0
  ELSE Rounded((p.sellNotional * p.buyLots - p.buyNotional * p.sellLots) * LotSize, p.buyLots)

\* computeRealized, and the same in apply: nothing without a price paid.
Realized(p) ==
  IF Matched(p) = 0 \/ p.buyNotional = 0 THEN 0
  ELSE Rounded((p.sellNotional * p.buyLots - p.buyNotional * p.sellLots) * Matched(p) * LotSize,
               p.buyLots * p.sellLots)

\* computePnL.
MarkToMarket(lots, buyPrice, sellPrice, mark) ==
  CASE lots > 0 /\ buyPrice > 0 -> (mark - buyPrice) * lots * LotSize
    [] lots < 0 /\ sellPrice > 0 -> (sellPrice - mark) * (-lots) * LotSize
    [] OTHER -> 0
-----------------------------------------------------------------------------
(***************************************************************************)
(* Position documents.                                                     *)
(***************************************************************************)
OpenDocs(c) == {i \in DOMAIN docs : docs[i].contract = c /\ docs[i].open}
NewDoc(fill) ==
  [contract |-> fill.contract, sums |-> Empty, collateral |-> 0, open |-> TRUE,
   first |-> Len(fills) + 1, opened |-> date, updated |-> date, reshorted |-> FALSE]
Held(c) ==
  IF OpenDocs(c) = {} THEN FlatPosition
  ELSE LET d == docs[CHOOSE i \in OpenDocs(c) : TRUE] IN [lots |-> Lots(d.sums), collateral |-> d.collateral]

\* apply.  A document that is flat is closed, and the next fill opens another.
\* reshorted is history: lots were sold short after others had been bought.
Applied(d, fill) ==
  LET sums == Add(d.sums, fill)
      lots == Lots(d.sums)
      after == ApplyExecution([lots |-> lots, collateral |-> d.collateral], fill.side, fill.qty, fill.price)
  IN [d EXCEPT !.sums = sums, !.collateral = after.collateral, !.open = Lots(sums) # 0, !.updated = date,
               !.reshorted = @ \/ (fill.side = "sell" /\ OpenShortQty(fill.qty, lots) > 0 /\ d.sums.buyLots > 0)]

\* Service.ApplyExecution, with the wallet operations of the fill.
Fill(fill) ==
  LET pos == Held(fill.contract) IN
  /\ Len(fills) < MaxFills
  /\ fill.price = 0 => fill.qty = Abs(pos.lots) /\ SignedQty(fill.side, fill.qty) = -pos.lots
  /\ CanFill(wallet, pos, fill.side, fill.qty, fill.price, 0)
  /\ wallet' = FillAccount(wallet, pos, fill.side, fill.qty, fill.price, 0)
  /\ fills' = Append(fills, fill)
  /\ docs' = IF OpenDocs(fill.contract) = {} THEN Append(docs, Applied(NewDoc(fill), fill))
             ELSE [i \in DOMAIN docs |-> IF i \in OpenDocs(fill.contract) THEN Applied(docs[i], fill) ELSE docs[i]]
  /\ UNCHANGED date

NextDay == date < MaxDays /\ date' = date + 1 /\ UNCHANGED <<fills, docs, wallet>>

PortfolioNext ==
  \/ \E c \in Contracts, side \in Sides, qty \in Quantities, price \in Prices :
       Fill([contract |-> c, side |-> side, qty |-> qty, price |-> price])
  \/ NextDay
-----------------------------------------------------------------------------
(***************************************************************************)
(* Positions as they are shown.                                            *)
(***************************************************************************)
\* ToPosition.  The sale price of a short is that of the lots still short,
\* from the collateral behind them.
ToPosition(d, mark) ==
  LET lots == Lots(d.sums)
      buyPrice == Average(d.sums.buyNotional, d.sums.buyLots)
      sellPrice == IF lots < 0 /\ d.collateral > 0 THEN Average(d.collateral, (1 + MarginRate) * (-lots) * LotSize)
                   ELSE Average(d.sums.sellNotional, d.sums.sellLots)
  IN [contract |-> d.contract, open |-> d.open, lots |-> lots, matched |-> Matched(d.sums),
      realized |-> Realized(d.sums), pnl |-> MarkToMarket(lots, buyPrice, sellPrice, mark),
      opened |-> d.opened, updated |-> d.updated]
Shown(marks) == [i \in DOMAIN docs |-> ToPosition(docs[i], marks[docs[i].contract])]

\* Mutant: a position that is flat goes on with the next fill.
NeverSealed(buckets, fill) ==
  LET same == {i \in DOMAIN buckets : buckets[i].contract = fill.contract} IN
  IF same = {} THEN Append(buckets, [contract |-> fill.contract, sums |-> Add(Empty, fill)])
  ELSE [i \in DOMAIN buckets |-> IF i \in same THEN [buckets[i] EXCEPT !.sums = Add(@, fill)] ELSE buckets[i]]

\* aggregate: a bucket is sealed when it is flat.
Bucketed(buckets, fill) ==
  LET active == {i \in DOMAIN buckets : buckets[i].contract = fill.contract /\ Lots(buckets[i].sums) # 0} IN
  IF active = {} THEN Append(buckets, [contract |-> fill.contract, sums |-> Add(Empty, fill)])
  ELSE [i \in DOMAIN buckets |-> IF i \in active THEN [buckets[i] EXCEPT !.sums = Add(@, fill)] ELSE buckets[i]]
History == SubSeq(fills, Len(fills) - Least(HistoryLimit, Len(fills)) + 1, Len(fills))
Replayed == FoldLeft(Bucketed, <<>>, History)
Summed(p) ==
  [contract |-> p.contract, lots |-> Lots(p.sums), matched |-> Matched(p.sums), realized |-> Realized(p.sums)]

\* PositionFor: the open document, or else the replayed position.
PositionFor(c) ==
  IF OpenDocs(c) # {} THEN Held(c).lots
  ELSE LET latest == SelectLastInSeq(Replayed, LAMBDA b : b.contract = c)
       IN IF latest = 0 THEN 0 ELSE Lots(Replayed[latest].sums)
-----------------------------------------------------------------------------
(***************************************************************************)
(* The portfolio's totals, from the positions shown.                       *)
(***************************************************************************)
SumOf(shown, test(_), amount(_)) ==
  FoldLeft(LAMBDA sum, p : sum + (IF test(p) THEN amount(p) ELSE 0), 0, shown)
ByStatusOpen(p) == p.open /\ p.lots # 0
Closed(p) == ~p.open

RealizedPnL(p) == p.realized
TotalUnrealized(shown) == SumOf(shown, ByStatusOpen, LAMBDA p : p.pnl)
TotalRealized(shown) ==
  SumOf(shown, Closed, RealizedPnL) + SumOf(shown, ByStatusOpen, RealizedPnL)
TotalPnL(shown) == TotalUnrealized(shown) + TotalRealized(shown)

\* computeDailyPnL: positions opened today, trades closed today.
DailyPnL(shown) ==
  SumOf(shown, LAMBDA p : ByStatusOpen(p) /\ p.opened = date, LAMBDA p : p.pnl + p.realized)
    + SumOf(shown, LAMBDA p : Closed(p) /\ p.updated = date, RealizedPnL)

\* buildEquityCurve: the profit after each closed trade.
EquityCurve(shown) ==
  FoldLeft(LAMBDA curve, p : Append(curve, (IF curve = <<>> THEN 0 ELSE Last(curve)) + p.realized),
           <<>>, SelectSeq(shown, Closed))

\* buildLeaderboardFromPositions.
LeaderboardPnL(shown) ==
  FoldLeft(LAMBDA pnl, p : pnl + (IF p.open THEN p.pnl + p.realized ELSE RealizedPnL(p)), 0, shown)
-----------------------------------------------------------------------------
(***************************************************************************)
(* Quotes and exits (orders/service.go), at prices taken as given.  A book *)
(* is [wallet, held]: the balances and the position of each contract.      *)
(***************************************************************************)
\* summarizePosition over the latest executions of the market.
PositionSummary(c) ==
  LET all == SelectSeq(fills, LAMBDA fill : fill.contract = c)
      read == SubSeq(all, Len(all) - Least(SummaryLimit, Len(all)) + 1, Len(all))
  IN FoldLeft(LAMBDA lots, fill : lots + SignedQty(fill.side, fill.qty), 0, read)

\* PreviewOrder: the plan of the order and whether its margin is there.
PreviewOrder(c, side, qty, effect, price) ==
  LET lots == PositionSummary(c) margin == PlanReserve(side, qty, lots, price) IN
  [allowed |-> PlanAllowed(side, qty, effect, lots), marginRequired |-> margin,
   projectedLots |-> lots + SignedQty(side, qty), sufficient |-> wallet.available >= margin]

\* CreateOrder with nobody else about: the margin is reserved, then filled.
Book == [wallet |-> wallet, held |-> [c \in Contracts |-> Held(c)]]
Accepts(book, c, side, qty, effect, price) ==
  LET pos == book.held[c] margin == PlanReserve(side, qty, pos.lots, price) IN
  /\ PlanAllowed(side, qty, effect, pos.lots) /\ CanReserve(book.wallet, margin)
  /\ CanFill(Reserve(book.wallet, margin), pos, side, qty, price, margin)
Executed(book, c, side, qty, price) ==
  LET pos == book.held[c] margin == PlanReserve(side, qty, pos.lots, price) IN
  [wallet |-> FillAccount(Reserve(book.wallet, margin), pos, side, qty, price, margin),
   held |-> [book.held EXCEPT ![c] = ApplyExecution(pos, side, qty, price)]]

\* ClosePosition: the opposite side, so many lots or all of them.
ClosePosition(book, c, quantity, price) ==
  LET lots == book.held[c].lots
      qty == IF quantity = 0 THEN Abs(lots) ELSE quantity
      side == IF lots < 0 THEN "buy" ELSE "sell"
  IN [done |-> lots # 0 /\ qty <= Abs(lots) /\ Accepts(book, c, side, qty, "CLOSE", price),
      book |-> Executed(book, c, side, qty, price)]

\* CloseAllPositions: each in turn; one that fails does not stop the others.
CloseAllPositions(prices) ==
  LET open == SelectSeq(docs, LAMBDA d : d.open /\ Lots(d.sums) # 0)
      exit(result, d) ==
        LET one == ClosePosition(result.book, d.contract, 0, prices[d.contract]) IN
        IF one.done THEN [result EXCEPT !.book = one.book] ELSE [result EXCEPT !.failures = @ \cup {d.contract}]
  IN FoldLeft(exit, [book |-> Book, failures |-> {}], open)
-----------------------------------------------------------------------------
\* What the portfolio calls profit is the money the wallet took and paid plus
\* the worth of the open lots, up to the rounding of averages, after any
\* buying, shorting, covering and flipping: unless lots were sold short after
\* others were bought, or shorts were closed for nothing.
Faithful(d) ==
  /\ d.open /\ Lots(d.sums) < 0 => ~d.reshorted
  /\ d.sums.buyLots > 0 => d.sums.buyNotional > 0
Tolerance(d) == IF d.open THEN 1 + Abs(Lots(d.sums)) * LotSize ELSE 0
TotalsAreMoney ==
  (\A i \in DOMAIN docs : Faithful(docs[i])) =>
    \A marks \in [Contracts -> Marks] :
      LET worth == FoldLeft(LAMBDA sum, d : sum + Lots(d.sums) * marks[d.contract] * LotSize, 0, docs)
          slack == FoldLeft(LAMBDA sum, d : sum + Tolerance(d), 0, docs)
      IN Abs(TotalPnL(Shown(marks)) - (wallet.cash - Capital + worth)) <= slack

\* A cover that costs no more than the collateral it frees.
Funded(pos, side, qty, price) ==
  side = "buy" /\ pos.lots < 0 => price * CoverQty(qty, pos.lots) * LotSize <= CollateralRelease(pos, side, qty)

\* An order quoted as allowed and sufficient is taken, unless it covers at a
\* price above the collateral, and leaves the lots that were quoted; one quoted
\* as insufficient is refused.  This while the quote reads the whole history.
QuotesHonoured ==
  LET book == Book IN
  \A c \in Contracts : Len(SelectSeq(fills, LAMBDA fill : fill.contract = c)) <= SummaryLimit =>
    \A side \in Sides, qty \in Quantities, price \in Marks :
      LET quote == PreviewOrder(c, side, qty, "AUTO", price)
          taken == Accepts(book, c, side, qty, "AUTO", price)
      IN /\ quote.allowed /\ quote.sufficient /\ Funded(book.held[c], side, qty, price) =>
              /\ taken
              /\ book.held[c].lots + SignedQty(side, qty) = quote.projectedLots
         /\ taken => quote.allowed /\ quote.sufficient

\* Leaving everything fails only for shorts that cost more than their
\* collateral, and when nothing fails it leaves no lots and no reserve.
ExitsComplete ==
  \A prices \in [Contracts -> Marks] :
    LET exit == CloseAllPositions(prices) IN
    /\ \A c \in exit.failures : ~Funded(Held(c), "buy", Abs(Held(c).lots), prices[c])
    /\ exit.failures = {} =>
         /\ \A c \in Contracts : exit.book.held[c].lots = 0
         /\ exit.book.wallet.reserved = 0 /\ exit.book.wallet.available = exit.book.wallet.cash

\* All views tell the same: quotes and exits do what they say; the replay of executions shows the lots and the
\* realized profit of the documents, as far back as it reads from the start of
\* a position; the leaderboard ranks by the total of the dashboard; the day's
\* profit is all of it while everything was opened today; and the equity curve
\* ends at it when everything is closed.
ViewsAgree == fills # <<>> =>
  /\ QuotesHonoured /\ ExitsComplete
  /\ \A c \in Contracts :
       LET kept == {i \in DOMAIN fills : i > Len(fills) - HistoryLimit /\ fills[i].contract = c}
           begins == {docs[i].first : i \in DOMAIN docs}
           since == SelectSeq(docs, LAMBDA d : d.contract = c /\ d.first \in kept)
       IN kept # {} /\ Min(kept) \in begins =>
            /\ SelectSeq([i \in DOMAIN Replayed |-> Summed(Replayed[i])], LAMBDA p : p.contract = c)
                 = [i \in DOMAIN since |-> Summed(since[i])]
            /\ PositionFor(c) = Held(c).lots
  /\ \A marks \in [Contracts -> Marks] :
       LET shown == Shown(marks) IN
       /\ LeaderboardPnL(shown) = TotalPnL(shown)
       /\ (\A i \in DOMAIN docs : docs[i].opened = date) => DailyPnL(shown) = TotalPnL(shown)
       /\ ~(\E p \in ToSet(shown) : p.open) /\ docs # <<>> => Last(EquityCurve(shown)) = TotalPnL(shown)
=============================================================================
