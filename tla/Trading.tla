-------------------------------- MODULE Trading --------------------------------
(***************************************************************************)
(* The trading routes (routes/trading.py): orders, cancellations, closing  *)
(* of a position and leverage, for one user and one symbol.  Each request  *)
(* is a chain of calls to the exchange; a call may be executed although    *)
(* its answer is lost, and other clients trade on the same account.        *)
(*                                                                         *)
(* The exchange is external: it keeps one signed position per symbol, an   *)
(* order that only reduces never turns the position, and a call is         *)
(* executed, executed with its answer lost, refused or not delivered.      *)
(***************************************************************************)
EXTENDS Integers, Sequences, FiniteSets

CONSTANTS
    OrderRequest,       \* requests to place an order
    CloseRequest,       \* requests to close the position of a side
    CancelRequest,      \* requests to cancel an order
    LeverageRequest,
    StartPosition,      \* contracts held at the start
    MaxPosition,        \* bounds of the model: size of the position,
    MaxOtherTrades,     \* trades of other clients
    MaxLost             \* calls whose answer is lost or that are not delivered

TradeRequest == OrderRequest \cup CloseRequest \cup CancelRequest \cup LeverageRequest
Ids(requests) == {r.id : r \in requests}

ASSUME TradingAssumption ==
    /\ MaxPosition \in Nat
    /\ StartPosition \subseteq -MaxPosition..MaxPosition
    /\ OrderRequest \subseteq [id: STRING, type: {"limit", "market"}, side: {"buy", "sell"}, amount: Nat \ {0},
                               priced: BOOLEAN, reduce_only: BOOLEAN, leverage: Nat]
    /\ CloseRequest \subseteq [id: STRING, side: {"long", "short"}]
    /\ CancelRequest \subseteq [id: STRING, order: STRING, symbol: BOOLEAN]
    /\ LeverageRequest \subseteq [id: STRING, leverage: Nat \ {0}]
    /\ \A q, r \in TradeRequest : q.id = r.id => q = r
    /\ "other" \notin Ids(TradeRequest)

VARIABLES
    tradingEnabled,     \* MIRAJ_TRADING_ENABLED, read once at the start
    apiKeys,            \* the user has keys for the exchange
    position,           \* on the exchange: contracts, negative when short
    leverage,
    resting,            \* limit orders that wait, by the request that placed them
    trades,             \* what changed the position, in order: by whom, how, from and to
    asks,               \* per request: the call it makes next and what it has read
    answers,            \* per request: the answer
    otherTrades, lost

tradingVars ==
    <<tradingEnabled, apiKeys, position, leverage, resting, trades, asks, answers, otherTrades, lost>>

NoAnswer == 0

-----------------------------------------------------------------------------
(***************************************************************************)
(* The exchange.                                                           *)
(***************************************************************************)
Signed(side, amount) == IF side \in {"buy", "long"} THEN amount ELSE -amount
Opposed(a, b) == a * b < 0
AbsOf(n) == IF n < 0 THEN -n ELSE n

\* The position after an order; one that only reduces stops at zero, and is refused when there is
\* nothing on the other side.
After(side, amount, reduceOnly) ==
    IF reduceOnly /\ amount > AbsOf(position) THEN 0 ELSE position + Signed(side, amount)

Acceptable(side, amount, reduceOnly) ==
    /\ reduceOnly => Opposed(position, Signed(side, amount))
    /\ AbsOf(After(side, amount, reduceOnly)) <= MaxPosition

MovePosition(by, how, to) ==
    /\ position' = to
    /\ trades' = Append(trades, [by |-> by, how |-> how, from |-> position, to |-> to])

NoTrade == UNCHANGED <<position, trades>>

Lose == lost < MaxLost /\ lost' = lost + 1

\* The status codes of _map_exchange_error: the classes of ccxt it wants to tell apart have been
\* translated before, so that a refusal is a bad gateway as well.
ErrorStatus(error) == IF error = "rate limit" THEN 429 ELSE 502

-----------------------------------------------------------------------------
Go(id, ask) == asks' = [asks EXCEPT ![id] = ask] /\ UNCHANGED answers
Answer(id, status) ==
    answers' = [answers EXCEPT ![id] = status] /\ asks' = [asks EXCEPT ![id] = [at |-> "done"]]

At(id, step) == asks[id].at = step

Unanswered == <<tradingEnabled, apiKeys, otherTrades>>

TradingInit ==
    /\ tradingEnabled \in BOOLEAN
    /\ apiKeys \in BOOLEAN
    /\ position \in StartPosition
    /\ leverage = 1
    /\ resting = {}
    /\ trades = <<>>
    /\ asks = [id \in Ids(TradeRequest) |-> [at |-> "idle"]]
    /\ answers = [id \in Ids(TradeRequest) |-> NoAnswer]
    /\ otherTrades = 0
    /\ lost = 0

\* What every route checks first, and the two checks of their own.
Arrive(r, valid, first) ==
    /\ At(r.id, "idle")
    /\ CASE ~tradingEnabled -> Answer(r.id, 503)
         [] tradingEnabled /\ ~valid -> Answer(r.id, 400)
         [] tradingEnabled /\ valid /\ ~apiKeys -> Answer(r.id, 404)
         [] OTHER -> Go(r.id, [at |-> first])
    /\ NoTrade
    /\ UNCHANGED <<Unanswered, leverage, resting, lost>>

place_order(r) ==
    Arrive(r, r.type = "limit" => r.priced, IF r.leverage > 0 THEN "leverage" ELSE "order")

cancel_order(r) == Arrive(r, r.symbol, "cancel")
close_position(r) == Arrive(r, TRUE, "close")
set_leverage(r) == Arrive(r, TRUE, "leverage")

\* An order is placed whether or not its leverage could be set; whether the client of this
\* exchange knows the parameter "mode" of the call is open.
LeverageBeforeOrder(r) ==
    /\ At(r.id, "leverage")
    /\ Go(r.id, [at |-> "order"])
    /\ \/ leverage' = r.leverage /\ UNCHANGED lost
       \/ leverage' = r.leverage /\ Lose
       \/ UNCHANGED <<leverage, lost>>
    /\ NoTrade
    /\ UNCHANGED <<Unanswered, resting>>

SetLeverage(r) ==
    /\ At(r.id, "leverage")
    /\ \/ leverage' = r.leverage /\ Answer(r.id, 200) /\ UNCHANGED lost
       \/ leverage' = r.leverage /\ Answer(r.id, ErrorStatus("timeout")) /\ Lose
       \/ \E error \in {"refused", "rate limit"} :
              Answer(r.id, ErrorStatus(error)) /\ UNCHANGED <<leverage, lost>>
    /\ NoTrade
    /\ UNCHANGED <<Unanswered, resting>>

\* The order is executed or rests.
Execute(r) ==
    IF r.type = "market"
    THEN /\ Acceptable(r.side, r.amount, r.reduce_only)
         /\ MovePosition(r.id, "order", After(r.side, r.amount, r.reduce_only))
         /\ UNCHANGED resting
    ELSE resting' = resting \cup {r} /\ NoTrade

CreateOrder(r) ==
    /\ At(r.id, "order")
    /\ \/ Execute(r) /\ Answer(r.id, 200) /\ UNCHANGED lost
       \/ Execute(r) /\ Answer(r.id, ErrorStatus("timeout")) /\ Lose
       \/ /\ \E error \in {"refused", "rate limit"} : Answer(r.id, ErrorStatus(error))
          /\ NoTrade
          /\ UNCHANGED <<resting, lost>>
    /\ UNCHANGED <<Unanswered, leverage>>

\* An order that rests is executed when the market comes to its price.
RestingFills(r) ==
    /\ r \in resting
    /\ resting' = resting \ {r}
    /\ IF Acceptable(r.side, r.amount, r.reduce_only)
       THEN MovePosition(r.id, "order", After(r.side, r.amount, r.reduce_only))
       ELSE NoTrade
    /\ UNCHANGED <<Unanswered, leverage, asks, answers, lost>>

CancelOrder(r) ==
    /\ At(r.id, "cancel")
    /\ LET found == {o \in resting : o.id = r.order}
       IN  \/ found # {} /\ resting' = resting \ found /\ Answer(r.id, 200) /\ UNCHANGED lost
           \/ found # {} /\ resting' = resting \ found /\ Answer(r.id, ErrorStatus("timeout")) /\ Lose
           \/ \E error \in {"refused", "rate limit"} :
                  Answer(r.id, ErrorStatus(error)) /\ UNCHANGED <<resting, lost>>
    /\ NoTrade
    /\ UNCHANGED <<Unanswered, leverage>>

-----------------------------------------------------------------------------
(***************************************************************************)
(* Closing a position.                                                     *)
(***************************************************************************)
Held(side) == IF side = "long" THEN position > 0 ELSE position < 0
ClosingSide(side) == IF side = "long" THEN "sell" ELSE "buy"

\* closePosition of the exchange.  Whatever goes wrong, the request goes on with its own order.
ClosePosition(r) ==
    /\ At(r.id, "close")
    /\ \/ Held(r.side) /\ MovePosition(r.id, "close", 0) /\ Answer(r.id, 200) /\ UNCHANGED lost
       \/ Held(r.side) /\ MovePosition(r.id, "close", 0) /\ Go(r.id, [at |-> "positions"]) /\ Lose
       \/ NoTrade /\ Go(r.id, [at |-> "positions"]) /\ UNCHANGED lost
    /\ UNCHANGED <<Unanswered, leverage, resting>>

\* The size of the position that is found: of the side asked for, or of a row that names no side.
FetchPositions(r) ==
    /\ At(r.id, "positions")
    /\ \/ position # 0 /\ Go(r.id, [at |-> "reduce", contracts |-> AbsOf(position)]) /\ UNCHANGED lost
       \/ ~Held(r.side) /\ Answer(r.id, 404) /\ UNCHANGED lost
       \/ \E error \in {"timeout", "rate limit"} : Answer(r.id, ErrorStatus(error)) /\ UNCHANGED lost
    /\ NoTrade
    /\ UNCHANGED <<Unanswered, leverage, resting>>

\* Mutant of ReduceOrder: the order of the fallback is not marked as one that only reduces.
ReduceOrderPlain(r) ==
    /\ At(r.id, "reduce")
    /\ MovePosition(r.id, "reduce", After(ClosingSide(r.side), asks[r.id].contracts, FALSE))
    /\ AbsOf(position') <= MaxPosition
    /\ Answer(r.id, 200)
    /\ UNCHANGED <<Unanswered, leverage, resting, lost>>

ReduceOrder(r) ==
    /\ At(r.id, "reduce")
    /\ LET side == ClosingSide(r.side)
           amount == asks[r.id].contracts
           to == After(side, amount, TRUE)
       IN  \/ /\ Acceptable(side, amount, TRUE)
              /\ MovePosition(r.id, "reduce", to) /\ Answer(r.id, 200) /\ UNCHANGED lost
           \/ /\ Acceptable(side, amount, TRUE)
              /\ MovePosition(r.id, "reduce", to) /\ Answer(r.id, ErrorStatus("timeout")) /\ Lose
           \/ \E error \in {"refused", "rate limit"} :
                  Answer(r.id, ErrorStatus(error)) /\ NoTrade /\ UNCHANGED lost
    /\ UNCHANGED <<Unanswered, leverage, resting>>

\* Another client of the account trades.
OtherTrade(to) ==
    /\ otherTrades < MaxOtherTrades
    /\ to # position
    /\ MovePosition("other", "order", to)
    /\ otherTrades' = otherTrades + 1
    /\ UNCHANGED <<tradingEnabled, apiKeys, leverage, resting, asks, answers, lost>>

TradingNext ==
    \/ \E r \in OrderRequest : place_order(r) \/ LeverageBeforeOrder(r) \/ CreateOrder(r) \/ RestingFills(r)
    \/ \E r \in CancelRequest : cancel_order(r) \/ CancelOrder(r)
    \/ \E r \in CloseRequest : close_position(r) \/ ClosePosition(r) \/ FetchPositions(r) \/ ReduceOrder(r)
    \/ \E r \in LeverageRequest : set_leverage(r) \/ SetLeverage(r)
    \/ \E to \in (-MaxPosition)..MaxPosition : OtherTrade(to)

TradingSpec == TradingInit /\ [][TradingNext]_tradingVars

-----------------------------------------------------------------------------
(***************************************************************************)
(* Properties.                                                             *)
(***************************************************************************)
TradesOf(id) == {i \in DOMAIN trades : trades[i].by = id}
Shrinks(t) == AbsOf(t.to) < AbsOf(t.from) /\ ~Opposed(t.from, t.to)

\* Closing a position never opens one, neither by turning it nor by closing what another client has turned
\* meanwhile: each trade of a close reduces the position of the side asked for (close_position).
CloseOnlyReduces ==
    \A r \in CloseRequest : \A i \in TradesOf(r.id) :
        Shrinks(trades[i]) /\ Opposed(trades[i].from, Signed(ClosingSide(r.side), 1))

\* A close trades twice only when its first answer was lost and the position has been opened again since.
SecondCloseIsOfAnother ==
    \A r \in CloseRequest : \A i, j \in TradesOf(r.id) : i < j =>
        /\ TradesOf(r.id) = {i, j} /\ lost > 0
        /\ \E k \in (i + 1)..(j - 1) : trades[k].by # r.id /\ ~Shrinks(trades[k])

\* A success is backed by the exchange, and only an answer that says so (502) leaves open whether an order
\* was placed; an order is placed once (place_order, _map_exchange_error).
AnswersAreTrue ==
    /\ \A r \in OrderRequest :
           /\ Cardinality(TradesOf(r.id)) <= 1
           /\ TradesOf(r.id) # {} \/ r \in resting => answers[r.id] \in {200, 502}
           /\ answers[r.id] = 200 /\ r.type = "market" => TradesOf(r.id) # {}
    /\ \A r \in CloseRequest :
           /\ answers[r.id] = 200 => TradesOf(r.id) # {}
           /\ TradesOf(r.id) # {} => answers[r.id] = 200 \/ lost > 0
    /\ \A r \in CancelRequest : answers[r.id] = 200 => r.order \notin {o.id : o \in resting}
    /\ ~tradingEnabled \/ ~apiKeys => \A i \in DOMAIN trades : trades[i].by = "other"

\* What the trading routes do to an account: the three properties above.
TradingInv == CloseOnlyReduces /\ SecondCloseIsOfAnother /\ AnswersAreTrue
================================================================================
