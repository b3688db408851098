------------------------------ MODULE Trading ------------------------------
(***************************************************************************)
(* The life of an order on a provider-backed match: the HTTP handler that  *)
(* plans it from unlocked reads, the transaction that creates it and       *)
(* reserves margin, the second transaction that fills it against the       *)
(* system market maker, the compensating cancellation, user cancels, the   *)
(* cancellations of a gate job, and the wallet and position documents all  *)
(* of them share.                                                          *)
(*                                                                         *)
(* One action is one MongoDB transaction (snapshot reads, majority writes, *)
(* write conflicts on the documents it touches) or one read outside a      *)
(* transaction.  Handlers of several API replicas interleave freely; the   *)
(* mutex of lockFor only serialises the handlers of one replica.           *)
(***************************************************************************)
EXTENDS OrderMath, Totals, Sequences

CONSTANTS
  Users,           \* account holders
  NContracts,      \* (market, strike) pairs are numbered 1 .. NContracts
  MaxOrders,       \* bound: requests ever received
  Prices,          \* quotes and limit prices, in paise per unit
  Quantities,      \* lots an order may ask for
  Clients,         \* client order ids the front end may send
  Replicas,        \* API processes
  Requests,        \* bound: the validated CreateOrderRequests users may send
  GateAttempts,    \* gateAttempts: tries of each fenced transaction
  Amounts,         \* bound: sizes of one admin credit or debit
  MaxFunded,       \* bound: net credit per user
  MaxVersion,      \* bound: trading version of the match
  Crashes,         \* may a replica die with a request in flight?
  Disconnects      \* may a client hang up on a request in flight?

NoClient == "none"             \* clientOrderId omitted

Contracts == 1 .. NContracts
OrderIds  == 1 .. MaxOrders

\* A validated CreateOrderRequest and the replica that serves it; limit 0 asks
\* for a MARKET order.
RequestSpace ==
  [user : Users, contract : Contracts, side : Sides, effect : Effects,
   qty : Quantities, limit : Prices \cup {0},
   client : Clients \cup {NoClient}, replica : Replicas]

ASSUME TradingAssumption ==
  /\ NContracts \in Nat \ {0} /\ MaxOrders \in Nat \ {0}
  /\ Prices \subseteq Nat \ {0} /\ Prices # {}
  /\ Quantities \subseteq Nat \ {0} /\ Amounts \subseteq Nat \ {0}
  /\ GateAttempts \in Nat \ {0} /\ MaxVersion \in Nat /\ MaxFunded \in Nat
  /\ NoClient \notin Clients /\ Requests \subseteq RequestSpace
  /\ Crashes \in BOOLEAN /\ Disconnects \in BOOLEAN

VARIABLES
  wallet,        \* wallet_accounts: user -> [cash, reserved, available]
  position,      \* open projections: user -> contract -> [lots, collateral]
  order,         \* orders: id -> document (status "absent" before the insert)
  executions,    \* executions of an order: id -> sequence of fills
  request,       \* handlers in flight: id -> locals of CreateOrder
  gate,          \* the match's trading gate
  funded,        \* history: net admin credit per user
  marketable     \* history: did the handler find the order marketable?

vars == <<wallet, position, order, executions, request, gate, funded, marketable>>

-----------------------------------------------------------------------------
(* Documents and handler records.                                          *)

NoOrder == [status |-> "absent"]
NoRequest == [stage |-> "idle"]

Stages == {"received", "planned", "retrying", "filling", "undoing"}

Intents == {"open", "close", "flip"}

\* PositionIntent: does the order only open, only close, or both?
Intent(side, qty, lots) ==
  IF OpenQty(side, qty, lots) = qty THEN "open"
  ELSE IF OpenQty(side, qty, lots) = 0 THEN "close" ELSE "flip"

OrderDoc ==
  [status : {"open", "executed", "cancelled"}, user : Users,
   contract : Contracts, side : Sides, effect : Effects, intent : Intents,
   qty : Quantities, price : Prices \cup {0}, reserved : Nat, version : Nat,
   client : Clients \cup {NoClient}]

Plans ==         \* what the handler remembers: lots read, prices, gate version
  [lots : Int, price : Prices \cup {0}, fill : Prices \cup {0}, version : Nat]

NoPlan == [lots |-> 0, price |-> 0, fill |-> 0, version |-> 0]

Active(o)  == request[o].stage \in Stages
Exists(o)  == order[o].status # "absent"
Working(o) == order[o].status = "open"

\* Order.RemainingReservedAmount: fills are always whole, so all or nothing.
Held(o) == IF Working(o) THEN order[o].reserved ELSE 0

\* The quotes a request can meet: a MARKET order takes the quote as its price,
\* a LIMIT order fills at a marketable quote or rests (fill 0).
Quotes(in) ==
  IF in.limit = 0
  THEN {[price |-> p, fill |-> p] : p \in Prices}
  ELSE {[price |-> in.limit, fill |-> f] :
          f \in {0} \cup {p \in Prices : IF in.side = "buy" THEN p <= in.limit
                                                            ELSE p >= in.limit}}

ClientTaken(in) ==
  /\ in.client # NoClient
  /\ \E p \in OrderIds : /\ Exists(p)
                         /\ order[p].client = in.client
                         /\ order[p].user = in.user

\* Mutant: no mutex.
NoLock(in) == TRUE

\* The per-process mutex of lockFor(user, market, strike).
LockFree(in) ==
  \A p \in OrderIds :
    Active(p) /\ request[p].stage # "received" =>
      \/ request[p].in.replica # in.replica
      \/ request[p].in.user # in.user
      \/ request[p].in.contract # in.contract

-----------------------------------------------------------------------------
Init ==
  /\ wallet = [u \in Users |-> EmptyAccount]
  /\ position = [u \in Users |-> [c \in Contracts |-> FlatPosition]]
  /\ order = [o \in OrderIds |-> NoOrder]
  /\ executions = [o \in OrderIds |-> <<>>]
  /\ request = [o \in OrderIds |-> NoRequest]
  /\ gate = [open |-> TRUE, version |-> 1, closedAt |-> 0]
  /\ funded = [u \in Users |-> 0]
  /\ marketable = [o \in OrderIds |-> FALSE]

ledgerVars == <<wallet, position, order, executions, funded, marketable>>

Goto(o, stage) == request' = [request EXCEPT ![o].stage = stage]

\* The handler is gone and its locals with it.
Leave(o, stage) == request' = [request EXCEPT ![o] = [stage |-> stage]]

-----------------------------------------------------------------------------
(* Admin credits and debits.                                               *)

AdminCredit(u, a) ==
  /\ funded[u] + a <= MaxFunded
  /\ wallet' = [wallet EXCEPT ![u] = Mutate(@, a, 0)]
  /\ funded' = [funded EXCEPT ![u] = @ + a]
  /\ UNCHANGED <<position, order, executions, request, gate, marketable>>

AdminDebit(u, a) ==
  /\ wallet[u].available >= a
  /\ wallet' = [wallet EXCEPT ![u] = Mutate(@, -a, 0)]
  /\ funded' = [funded EXCEPT ![u] = @ - a]
  /\ UNCHANGED <<position, order, executions, request, gate, marketable>>

-----------------------------------------------------------------------------
(* CreateOrder, step by step.                                              *)

\* The client-order-id lookup, made before the lock is taken.
Receive(o, in) ==
  /\ request[o].stage = "idle"
  /\ \A p \in 1 .. o - 1 : request[p].stage # "idle"
  /\ ~ClientTaken(in)
  /\ request' = [request EXCEPT ![o] =
       [stage |-> "received", in |-> in, plan |-> NoPlan, tries |-> 0]]
  /\ UNCHANGED <<ledgerVars, gate>>

\* Under the lock: read match, market, quote and position; build the plan.
Plan(o) ==
  LET in == request[o].in
      lots == position[in.user][in.contract].lots
  IN  /\ request[o].stage = "received"
      /\ LockFree(in)
      /\ gate.open
      /\ PlanAllowed(in.side, in.qty, in.effect, lots)
      /\ \E q \in Quotes(in) :
           request' = [request EXCEPT
             ![o].stage = "planned",
             ![o].plan = [lots |-> lots, price |-> q.price, fill |-> q.fill,
                          version |-> gate.version]]
      /\ UNCHANGED <<ledgerVars, gate>>

PlanRefused(o) ==
  LET in == request[o].in
  IN  /\ request[o].stage = "received"
      /\ LockFree(in)
      /\ \/ ~gate.open
         \/ ~PlanAllowed(in.side, in.qty, in.effect,
                         position[in.user][in.contract].lots)
      /\ Leave(o, "returned")
      /\ UNCHANGED <<ledgerVars, gate>>

PlannedReserve(o) ==
  LET in == request[o].in
      plan == request[o].plan
  IN  PlanReserve(in.side, in.qty, plan.lots, plan.price)

\* Mutant: only the lookup before the lock looks for a client order id.
UnindexedCreateAllowed(o) ==
  CanReserve(wallet[request[o].in.user], PlannedReserve(o))

\* Mutant: the order is inserted whatever the wallet answers.
UnfundedCreateAllowed(o) == ~ClientTaken(request[o].in)

\* First transaction: gate check, insert, margin reservation.
CreateAllowed(o) ==
  /\ ~ClientTaken(request[o].in)
  /\ CanReserve(wallet[request[o].in.user], PlannedReserve(o))

Create(o) ==
  LET in == request[o].in
      plan == request[o].plan
  IN  /\ request[o].stage = "planned"
      /\ gate.open
      /\ CreateAllowed(o)
      /\ order' = [order EXCEPT ![o] =
           [status |-> "open", user |-> in.user, contract |-> in.contract,
            side |-> in.side, effect |-> in.effect,
            intent |-> Intent(in.side, in.qty, plan.lots), qty |-> in.qty,
            price |-> plan.price, reserved |-> PlannedReserve(o),
            version |-> plan.version, client |-> in.client]]
      /\ wallet' = [wallet EXCEPT ![in.user] = Reserve(@, PlannedReserve(o))]
      /\ marketable' = [marketable EXCEPT ![o] = plan.fill # 0]
      /\ IF plan.fill = 0 THEN Leave(o, "returned")
         ELSE request' = [request EXCEPT ![o].stage = "filling", ![o].tries = 0]
      /\ UNCHANGED <<position, executions, gate, funded>>

\* Duplicate client order id, or not enough available balance.
CreateRefused(o) ==
  /\ request[o].stage = "planned"
  /\ gate.open
  /\ ~CreateAllowed(o)
  /\ Leave(o, "returned")
  /\ UNCHANGED <<ledgerVars, gate>>

\* The gate was closed inside the transaction: back off, or give up.
CreateFenced(o) ==
  /\ request[o].stage = "planned"
  /\ ~gate.open
  /\ IF request[o].tries + 1 < GateAttempts
     THEN request' = [request EXCEPT ![o].stage = "retrying", ![o].tries = @ + 1]
     ELSE Leave(o, "returned")
  /\ UNCHANGED <<ledgerVars, gate>>

\* Mutant: the quote of a LIMIT order is refreshed without matching it again.
UnmatchedReread(o) ==
  /\ request[o].stage = "retrying"
  /\ gate.open
  /\ \E p \in Prices :
       request' = [request EXCEPT
         ![o].stage = "planned",
         ![o].plan = [@ EXCEPT !.fill = p, !.version = gate.version]]
  /\ UNCHANGED <<ledgerVars, gate>>

\* After the back-off the match is read again; only a MARKET order is priced
\* again, and the position is not.
Reread(o) ==
  LET in == request[o].in
  IN  /\ request[o].stage = "retrying"
      /\ gate.open
      /\ \E q \in IF in.limit = 0 THEN Quotes(in)
                  ELSE {[price |-> request[o].plan.price,
                         fill |-> request[o].plan.fill]} :
           request' = [request EXCEPT
             ![o].stage = "planned",
             ![o].plan = [lots |-> @.lots, price |-> q.price, fill |-> q.fill,
                          version |-> gate.version]]
      /\ UNCHANGED <<ledgerVars, gate>>

RereadRefused(o) ==
  /\ request[o].stage = "retrying"
  /\ ~gate.open
  /\ Leave(o, "returned")
  /\ UNCHANGED <<ledgerVars, gate>>

-----------------------------------------------------------------------------
(* applyFill: the second transaction.                                      *)

MetPosition(o) == position[order[o].user][order[o].contract]

ConstraintMet(o) ==
  ConstraintAccepts(order[o].side, order[o].qty, order[o].effect,
                    MetPosition(o).lots)

FundsSuffice(o) ==
  CanFill(wallet[order[o].user], MetPosition(o), order[o].side, order[o].qty,
          request[o].plan.fill, Held(o))

\* Mutant: the projection is written from the position the plan read.
LostUpdateFill(o, price) ==
  LET u == order[o].user
      c == order[o].contract
      d == order[o]
  IN  /\ position' = [position EXCEPT ![u][c] =
           ApplyExecution([@ EXCEPT !.lots = request[o].plan.lots],
                          d.side, d.qty, price)]
      /\ order' = [order EXCEPT ![o].status = "executed"]
      /\ wallet' = [wallet EXCEPT ![u] =
                      FillAccount(@, position[u][c], d.side, d.qty, price, Held(o))]
      /\ executions' = [executions EXCEPT ![o] =
           Append(@, [price |-> price, met |-> position[u][c].lots])]

\* Everything a fill writes: projection, order, wallet, execution.
ApplyFill(o, price) ==
  LET u == order[o].user
      c == order[o].contract
      d == order[o]
  IN  /\ position' = [position EXCEPT ![u][c] =
                        ApplyExecution(@, d.side, d.qty, price)]
      /\ order' = [order EXCEPT ![o].status = "executed"]
      /\ wallet' = [wallet EXCEPT ![u] =
                      FillAccount(@, position[u][c], d.side, d.qty, price, Held(o))]
      /\ executions' = [executions EXCEPT ![o] =
           Append(@, [price |-> price, met |-> position[u][c].lots])]

\* Mutant: the order is updated without the filter on its status.
UnfilteredFill(o) ==
  /\ request[o].stage = "filling"
  /\ gate.open
  /\ ConstraintMet(o)
  /\ FundsSuffice(o)
  /\ ApplyFill(o, request[o].plan.fill)
  /\ Leave(o, "returned")
  /\ UNCHANGED <<gate, funded, marketable>>

Fill(o) ==
  /\ request[o].stage = "filling"
  /\ gate.open
  /\ ConstraintMet(o)
  /\ Working(o)
  /\ FundsSuffice(o)
  /\ ApplyFill(o, request[o].plan.fill)
  /\ Leave(o, "returned")
  /\ UNCHANGED <<gate, funded, marketable>>

\* Mutant: the attempts are not counted.
UncountedFillFenced(o) ==
  /\ request[o].stage = "filling"
  /\ ~gate.open
  /\ request' = [request EXCEPT ![o].tries = @]
  /\ UNCHANGED <<ledgerVars, gate>>

\* The gate is closed: retry, and after the last try cancel the order.
FillFenced(o) ==
  /\ request[o].stage = "filling"
  /\ ~gate.open
  /\ request' = [request EXCEPT
       ![o].stage = IF request[o].tries + 1 < GateAttempts THEN @ ELSE "undoing",
       ![o].tries = @ + 1]
  /\ UNCHANGED <<ledgerVars, gate>>

\* Mutant: the error is returned, the order stays.
AbandonedFillDenied(o) ==
  /\ request[o].stage = "filling"
  /\ gate.open
  /\ ~ConstraintMet(o) \/ (Working(o) /\ ~FundsSuffice(o))
  /\ Leave(o, "returned")
  /\ UNCHANGED <<ledgerVars, gate>>

\* Position or funds no longer allow the fill: cancel the order.
FillDenied(o) ==
  /\ request[o].stage = "filling"
  /\ gate.open
  /\ ~ConstraintMet(o) \/ (Working(o) /\ ~FundsSuffice(o))
  /\ Goto(o, "undoing")
  /\ UNCHANGED <<ledgerVars, gate>>

\* UpdateFill matched nothing: somebody cancelled the order meanwhile.
FillStale(o) ==
  /\ request[o].stage = "filling"
  /\ gate.open
  /\ ConstraintMet(o)
  /\ ~Working(o)
  /\ Leave(o, "returned")
  /\ UNCHANGED <<ledgerVars, gate>>

-----------------------------------------------------------------------------
(* Cancellation: repo.Cancel and the margin release in one transaction.    *)

\* Mutant: the cancel has no filter on the status.
UnfilteredCancellable(o) ==
  Exists(o) /\ CanRelease(wallet[order[o].user], Held(o))

Cancellable(o) ==
  Working(o) /\ CanRelease(wallet[order[o].user], Held(o))

CancelDoc(o) ==
  /\ Cancellable(o)
  /\ order' = [order EXCEPT ![o].status = "cancelled"]
  /\ wallet' = [wallet EXCEPT ![order[o].user] = Release(@, Held(o))]
  /\ UNCHANGED <<position, executions, gate, funded, marketable>>

\* The handler's own compensation after a failed immediate fill.
Undo(o) ==
  /\ request[o].stage = "undoing"
  /\ IF Cancellable(o) THEN CancelDoc(o) ELSE UNCHANGED <<ledgerVars, gate>>
  /\ Leave(o, "returned")

UserCancel(o) == CancelDoc(o) /\ UNCHANGED request

\* The durable gate job of the last closure, whenever a worker gets to it.
GateCancel(o) ==
  /\ Working(o)
  /\ order[o].version < gate.closedAt
  /\ CancelDoc(o)
  /\ UNCHANGED request

-----------------------------------------------------------------------------
(* The gate, and what may stop a handler half-way.                         *)

CloseGate ==
  /\ gate.open
  /\ gate.version < MaxVersion
  /\ gate' = [open |-> FALSE, version |-> gate.version + 1,
              closedAt |-> gate.version + 1]
  /\ UNCHANGED <<ledgerVars, request>>

\* A live tick bumps the version; a reconciling poll reopens without a bump.
ReopenGate ==
  /\ ~gate.open
  /\ \E v \in {gate.version, gate.version + 1} :
       /\ v <= MaxVersion
       /\ gate' = [gate EXCEPT !.open = TRUE, !.version = v]
  /\ UNCHANGED <<ledgerVars, request>>

\* The client hangs up: the request context ends, the next database call or
\* back-off fails with the context's error and the handler returns it.
Disconnect(o) ==
  /\ Disconnects
  /\ Active(o)
  /\ Leave(o, "returned")
  /\ UNCHANGED <<ledgerVars, gate>>

Crash(r) ==
  /\ Crashes
  /\ \E o \in OrderIds : Active(o) /\ request[o].in.replica = r
  /\ request' = [o \in OrderIds |->
       IF Active(o) /\ request[o].in.replica = r
       THEN [stage |-> "lost"] ELSE request[o]]
  /\ UNCHANGED <<ledgerVars, gate>>

-----------------------------------------------------------------------------
Handler(o) ==
  \/ Plan(o) \/ PlanRefused(o)
  \/ Create(o) \/ CreateRefused(o) \/ CreateFenced(o)
  \/ Reread(o) \/ RereadRefused(o)
  \/ Fill(o) \/ FillFenced(o) \/ FillDenied(o) \/ FillStale(o)
  \/ Undo(o)

Environment ==
  \/ \E u \in Users, a \in Amounts : AdminCredit(u, a) \/ AdminDebit(u, a)
  \/ \E o \in OrderIds, in \in Requests : Receive(o, in)
  \/ \E o \in OrderIds : UserCancel(o) \/ GateCancel(o) \/ Disconnect(o)
  \/ \E r \in Replicas : Crash(r)
  \/ CloseGate \/ ReopenGate

Next == Environment \/ \E o \in OrderIds : Handler(o)

Spec == Init /\ [][Next]_vars

\* A handler goroutine runs until it returns.
FairSpec == Spec /\ \A o \in OrderIds : WF_vars(Handler(o))

-----------------------------------------------------------------------------
(* Properties.                                                             *)

\* Every document and handler record keeps its shape.
TypeOK ==
  /\ wallet \in [Users -> [cash : Int, reserved : Int, available : Int]]
  /\ position \in [Users -> [Contracts -> [lots : Int, collateral : Nat]]]
  /\ order \in [OrderIds -> OrderDoc \cup {NoOrder}]
  /\ executions \in [OrderIds -> Seq([price : Prices \cup {0}, met : Int])]
  /\ request \in [OrderIds ->
       [stage : Stages, in : Requests, plan : Plans, tries : Nat]
         \cup [stage : {"idle", "returned", "lost"}]]
  /\ gate \in [open : BOOLEAN, version : Nat, closedAt : Nat]
  /\ funded \in [Users -> Int]
  /\ marketable \in [OrderIds -> BOOLEAN]

\* Margin held by the working orders of u, and collateral behind its shorts.
HeldBy(u) ==
  [o \in OrderIds |-> IF Working(o) /\ order[o].user = u
                      THEN order[o].reserved ELSE 0]
CollateralOf(u) == [c \in Contracts |-> position[u][c].collateral]

\* The reserved balance of a wallet is, at every instant, exactly the margin
\* of the user's working orders plus the collateral of its open shorts: no
\* interleaving of fills, cancels, fences and crashes strands or double-frees
\* a paisa (CreateOrder, applyFill, CancelOrder, cancelWorkingOrder).
ReserveBacked ==
  \A u \in Users :
    wallet[u].reserved = Total(HeldBy(u), MaxOrders)
                           + Total(CollateralOf(u), NContracts)

Fills(o) == executions[o]
FillFlow(u) ==
  [o \in OrderIds |->
     IF Fills(o) # <<>> /\ order[o].user = u
     THEN -SignedQty(order[o].side, order[o].qty) * Fills(o)[1].price * LotSize
     ELSE 0]

\* Cash is what admins credited plus the signed value of the executions: a
\* fill moves money exactly once, in full, and nothing else moves it.
CashReconciles ==
  \A u \in Users : wallet[u].cash = funded[u] + Total(FillFlow(u), MaxOrders)

LotFlow(u, c) ==
  [o \in OrderIds |->
     IF Fills(o) # <<>> /\ order[o].user = u /\ order[o].contract = c
     THEN SignedQty(order[o].side, order[o].qty) ELSE 0]

\* The projection's net lots are the sum of the user's executions, whatever
\* the order in which concurrent fills reached the projection.
LotsReconcile ==
  \A u \in Users, c \in Contracts :
    position[u][c].lots = Total(LotFlow(u, c), MaxOrders)

\* The three stored balances agree and none is ever overdrawn, although each
\* wallet operation only checks the balance it takes from.
Solvent ==
  \A u \in Users :
    /\ wallet[u].available = wallet[u].cash - wallet[u].reserved
    /\ wallet[u].available >= 0
    /\ wallet[u].reserved >= 0

LowestPrice == CHOOSE p \in Prices : \A q \in Prices : p <= q

\* A flat or long position holds no collateral; a short one holds at least
\* three times its lots at the lowest quote, through any sequence of rounded
\* pro-rata releases.
ShortsCollateralised ==
  \A u \in Users, c \in Contracts :
    LET p == position[u][c]
    IN  /\ p.lots >= 0 => p.collateral = 0
        /\ p.collateral >= (-p.lots) * (LowestPrice * LotSize * (1 + MarginRate))

\* The margin of a working order can always be given back: no fill, cover or
\* debit of another order has eaten the balance it is reserved in, so a cancel
\* (user, gate job or handler) is never refused by the wallet.
MarginReturnable ==
  \A o \in OrderIds : Working(o) => CanRelease(wallet[order[o].user], Held(o))

\* An order has one execution if it is executed and none otherwise: a fill
\* racing a cancel, a retry or a gate job never leaves both or neither.
OneFate ==
  \A o \in OrderIds :
    Len(Fills(o)) = IF order[o].status = "executed" THEN 1 ELSE 0

\* An execution is never worse than the limit, though the quote it uses was
\* read before the gate was checked and may have been kept over retries.
LimitRespected ==
  \A o \in OrderIds :
    Fills(o) # <<>> =>
      IF order[o].side = "buy" THEN Fills(o)[1].price <= order[o].price
                               ELSE Fills(o)[1].price >= order[o].price

\* With a client order id, a user has at most one order, however often and
\* wherever the request is retried.
OneOrderPerClientId ==
  \A o, p \in OrderIds :
    /\ Exists(o) /\ Exists(p) /\ o # p
    /\ order[o].user = order[p].user
    => order[o].client = NoClient \/ order[o].client # order[p].client

\* When a handler returns, an order it found marketable is executed or
\* cancelled: the failure paths leave nothing behind (service.go:781-783).
NothingLeftBehind ==
  \A o \in OrderIds :
    request[o].stage = "returned" /\ marketable[o] => ~Working(o)

\* An executed order did to the position what its intent announced; under
\* lockFor two concurrent sells cannot oversell a position.
IntentHonoured ==
  \A o \in OrderIds :
    Fills(o) # <<>> =>
      order[o].intent = Intent(order[o].side, order[o].qty, Fills(o)[1].met)

\* A finished order never changes again, nor do its executions.
FinishedOrdersStay ==
  [][\A o \in OrderIds :
       order[o].status \in {"executed", "cancelled"} =>
         order'[o] = order[o] /\ executions'[o] = executions[o]]_vars

\* A request that was received comes to an answer.
RequestsReturn ==
  \A o \in OrderIds :
    request[o].stage = "received" ~> request[o].stage \in {"returned", "lost"}
=============================================================================
