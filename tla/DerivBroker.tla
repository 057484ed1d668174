----------------------------- MODULE DerivBroker -----------------------------
(***************************************************************************)
(* DerivDemoAdapter over its two transports, with the ConnectionMonitor    *)
(* that keeps its link up (deriv_adapter.py, deriv_transport.py,           *)
(* connection_monitor.py).                                                 *)
(*                                                                         *)
(* Two threads may use one adapter: "main" starts the monitor and places   *)
(* orders; "monitor" is the background loop of the monitor.  Without it    *)
(* the main thread calls heartbeat() itself.  An operation is a series of  *)
(* requests; each is sent (Call) and, in a later step,      *)
(* answered or given up (a Returns action), so that the threads interleave *)
(* between the two.  The broker acts on a request when it is sent: over    *)
(* one connection it takes the requests in order.                          *)
(***************************************************************************)
EXTENDS Integers, Sequences, FiniteSets, Functions

CONSTANTS Main, Other,          \* two symbols; Main is the adapter's own
          Placed,               \* the orders placed, as <<side, symbol>>
          MaxOrders,            \* orders placed without a background loop
          MaxOrdersBeside,      \* orders placed beside one
          MaxFaults,            \* faults injected at once
          MaxReconnectAttempts, \* max_reconnect_attempts of the monitor
          Stake, Partial        \* amount of an order, and of a partial fill

ASSUME OrderAssumption == /\ Main # Other
                          /\ Placed \subseteq {"BUY", "SELL"} \X {Main, Other}
ASSUME BoundAssumption == /\ {MaxOrders, MaxOrdersBeside, MaxFaults} \subseteq Nat
                          /\ MaxReconnectAttempts \in Nat \ {0}
ASSUME StakeAssumption == Stake \in Nat /\ Partial \in Nat

VARIABLES
    transport,      \* "sim" or "websocket": which transport the adapter was given
    background,     \* run_background() was called
    account,        \* "virtual" or "real": the account of its token
    linkUp,         \* is_open(): the link, as the transport knows it
    authorized,     \* the broker has authorized this web socket; the simulated
                    \* transport notes it too, and never looks
    faults,         \* the one-shot faults of the simulated transport
    contracts,      \* the contracts the broker booked, in order
    position,       \* quantity of the simulated position
    isVirtual,      \* _is_virtual: "unset", "yes" or "no"
    tracked,        \* _open_contracts: symbol -> number of a contract, 0 if none
    safety,         \* state of the adapter's ConnectionSafety
    orders,         \* the orders placed, each as its caller sees it
    monitor,        \* the monitor: its state, and whether its loop runs
    job             \* what each thread is doing

vars == <<transport, background, account, linkUp, authorized, faults, contracts, position,
          isVirtual, tracked, safety, orders, monitor, job>>

Thread == {"main", "monitor"}
Symbol == {Main, Other}
Side == {"BUY", "SELL"}
Fault == {"timeout_next", "reject_next", "disconnect_during_next", "partial_fill_next"}
Request == {"authorize", "ping", "ask", "stream", "proposal", "buy", "sell"}

\* op: the operation; next: the request it makes now, or "dial" for
\* transport.connect(); wire: what became of the request; order: the order it
\* is for, 0 if none; contract: the contract it books or sells; attempt: of
\* reconnect()
Job == [op : {"none", "start", "reconnect", "heartbeat", "ask", "order", "close"},
        next : Request \cup {"none", "dial"},
        wire : {"unsent", "ok", "error", "timeout", "down", "lost"},
        order : Nat,
        contract : Nat,
        attempt : 0..MaxReconnectAttempts]

Doing(op, next, order, contract) ==
    [op |-> op, next |-> next, wire |-> "unsent", order |-> order,
     contract |-> contract, attempt |-> 0]
Idle == Doing("none", "none", 0, 0)

TransportInit ==
    /\ transport \in {"sim", "websocket"}
    /\ account \in {"virtual", "real"}
    /\ linkUp = (transport = "sim")     \* _dropped is False, _ws is None
    /\ authorized = FALSE
    /\ faults = {}
    /\ contracts = <<>>
    /\ position = 0

AdapterInit ==
    /\ isVirtual = "unset"
    /\ tracked = [s \in Symbol |-> 0]
    /\ safety = "DISCONNECTED"
    /\ orders = <<>>

MonitorInit ==
    /\ background \in BOOLEAN
    /\ monitor = [state |-> "DISCONNECTED", alive |-> background]

Init == TransportInit /\ AdapterInit /\ MonitorInit /\ job = [t \in Thread |-> Idle]

Sim == transport = "sim"
Signed(side, amount) == IF side = "BUY" THEN amount ELSE -amount
Opposite(side) == IF side = "BUY" THEN "SELL" ELSE "BUY"

broker == <<transport, background, account, linkUp, authorized, faults, contracts, position>>
adapter == <<isVirtual, tracked, safety, orders>>

-----------------------------------------------------------------------------
(* The operations of the main thread.                                      *)

Begins(j) == /\ job["main"] = Idle
             /\ job' = [job EXCEPT !["main"] = j]

\* ConnectionMonitor.start(): connect() of the adapter
Start == /\ Begins(Doing("start", "dial", 0, 0))
         /\ monitor' = [monitor EXCEPT !.state = "CONNECTING"]
         /\ UNCHANGED <<broker, adapter>>

\* getBalance, getOrderStatus, contracts_for, confirm_contract, get_quote,
\* current_mid and stream_ticks read, and change no more than the link's state
Ask(request) ==
    /\ request \in {"ask", "stream"}
    /\ Begins(Doing("ask", request, 0, 0))
    /\ UNCHANGED <<broker, adapter, monitor>>

NewOrder(side, symbol) == [side |-> side, symbol |-> symbol, status |-> "SUBMITTED"]

\* submitOrder(): a SELL while a contract of the adapter's own symbol is
\* tracked sells that contract, whatever the symbol of the order
SubmitOrder(side, symbol) ==
    /\ Len(orders) < (IF background THEN MaxOrdersBeside ELSE MaxOrders)
    /\ isVirtual # "no"                                 \* _require_virtual
    /\ Begins(IF side = "SELL" /\ tracked[Main] # 0
                THEN Doing("order", "sell", Len(orders) + 1, tracked[Main])
                ELSE Doing("order", "proposal", Len(orders) + 1, 0))
    /\ orders' = Append(orders, NewOrder(side, symbol))
    /\ UNCHANGED <<broker, isVirtual, tracked, safety, monitor>>

\* submit_intent(): always opens a contract
SubmitIntent(side, symbol) ==
    /\ Len(orders) < (IF background THEN MaxOrdersBeside ELSE MaxOrders)
    /\ isVirtual # "no"
    /\ Begins(Doing("order", "proposal", Len(orders) + 1, 0))
    /\ orders' = Append(orders, NewOrder(side, symbol))
    /\ UNCHANGED <<broker, isVirtual, tracked, safety, monitor>>

ClosePosition(symbol) ==
    /\ isVirtual # "no"
    /\ tracked[symbol] # 0
    /\ Begins(Doing("close", "sell", 0, tracked[symbol]))
    /\ UNCHANGED <<broker, adapter, monitor>>

Disconnect ==
    /\ Begins(Idle)
    /\ linkUp' = (linkUp /\ Sim)        \* the simulator's close() does not drop
    /\ authorized' = FALSE
    /\ safety' = "DISCONNECTED"
    /\ UNCHANGED <<transport, background, account, faults, contracts, position,
                   isVirtual, tracked, orders, monitor>>

-----------------------------------------------------------------------------
(* What happens to the transport.                                          *)

\* a test sets a fault of the simulated transport
Inject(f) == /\ Sim
             /\ f \notin faults /\ Cardinality(faults) < MaxFaults
             /\ faults' = faults \cup {f}
             /\ UNCHANGED <<transport, background, account, linkUp, authorized, contracts,
                            position, adapter, monitor, job>>

\* force_drop() of the adapter
ForceDrop == /\ Begins(Idle)
             /\ linkUp' = (linkUp /\ ~Sim)
             /\ safety' = "DISCONNECTED"
             /\ UNCHANGED <<transport, background, account, authorized, faults, contracts,
                            position, isVirtual, tracked, orders, monitor>>

\* the connection of the web socket is lost
LinkLost == /\ ~Sim
            /\ linkUp
            /\ linkUp' = FALSE
            /\ authorized' = FALSE
            /\ UNCHANGED <<transport, background, account, faults, contracts, position,
                           adapter, monitor, job>>

Wire(t, w) == job' = [job EXCEPT ![t].wire = w]

\* a caller whose answer does not come runs out of time or finds the link gone;
\* reading a stream takes the two alike
Lost(t) == IF job[t].next = "stream" THEN "timeout" ELSE "lost"

\* an answer never reaches its caller: the connection is gone, the answer is
\* late, or the other thread read it from the socket and skipped it because
\* its req_id is not its own
AnswerLost(t) ==
    /\ ~Sim
    /\ job[t].wire \in {"ok", "error"}
    /\ Wire(t, Lost(t))
    /\ UNCHANGED <<broker, adapter, monitor>>

-----------------------------------------------------------------------------
(* Requests: Call(t) sends the request thread t has come to.               *)

\* A fault: the position moves by the whole stake of a partial fill.
BookWhole(t, amount) ==
    LET o == orders[job[t].order] IN
    /\ contracts' = Append(contracts,
           [side |-> o.side, symbol |-> o.symbol, amount |-> amount,
            order |-> job[t].order, sold |-> FALSE, seller |-> 0])
    /\ position' = IF Sim THEN position + Signed(o.side, Stake) ELSE position
    /\ job' = [job EXCEPT ![t].wire = "ok", ![t].contract = Len(contracts) + 1]

\* the broker books a contract for the order of thread t
Book(t, amount) ==
    LET o == orders[job[t].order] IN
    /\ contracts' = Append(contracts,
           [side |-> o.side, symbol |-> o.symbol, amount |-> amount,
            order |-> job[t].order, sold |-> FALSE, seller |-> 0])
    /\ position' = IF Sim THEN position + Signed(o.side, amount) ELSE position
    /\ job' = [job EXCEPT ![t].wire = "ok", ![t].contract = Len(contracts) + 1]

\* the broker sells the contract of thread t
SellContract(t) ==
    LET c == job[t].contract
        k == contracts[c]
    IN  /\ ~k.sold
        /\ contracts' = [contracts EXCEPT ![c].sold = TRUE, ![c].seller = job[t].order]
        /\ position' = IF Sim THEN position + Signed(Opposite(k.side), k.amount)
                              ELSE position
        /\ Wire(t, "ok")

\* the simulated buy: the faults come before the booking
SimBuy(t) ==
    LET Uses(f) == faults' = faults \ {f} IN
    \/ /\ "timeout_next" \in faults
       /\ Uses("timeout_next") /\ Wire(t, "timeout")
       /\ UNCHANGED <<linkUp, contracts, position>>
    \/ /\ "timeout_next" \notin faults /\ "reject_next" \in faults
       /\ Uses("reject_next") /\ Wire(t, "error")
       /\ UNCHANGED <<linkUp, contracts, position>>
    \/ /\ faults \cap {"timeout_next", "reject_next"} = {}
       /\ "disconnect_during_next" \in faults
       /\ Uses("disconnect_during_next") /\ Wire(t, "down")
       /\ linkUp' = FALSE
       /\ UNCHANGED <<contracts, position>>
    \/ /\ faults \subseteq {"partial_fill_next"}
       /\ Book(t, IF faults = {} THEN Stake ELSE Partial)
       /\ faults' = {}
       /\ UNCHANGED linkUp

\* the handlers that only answer, and the ticks of a subscription
SimAnswers(t) == /\ job[t].next \in {"authorize", "ping", "ask", "proposal"}
                 /\ Wire(t, "ok")
                 /\ UNCHANGED <<linkUp, faults, contracts, position>>

SimStreams(t) == /\ job[t].next = "stream"
                 /\ Wire(t, "ok")
                 /\ UNCHANGED <<linkUp, faults, contracts, position>>

\* call() of the simulated transport, which answers within the call
SimCall(t) ==
    LET r == job[t].next IN
    /\ Sim /\ linkUp
    /\ \/ SimAnswers(t)
       \/ SimStreams(t)
       \/ r = "buy" /\ SimBuy(t)
       \/ r = "sell" /\ SellContract(t) /\ UNCHANGED <<linkUp, faults>>
       \/ r = "sell" /\ contracts[job[t].contract].sold /\ Wire(t, "error")
          /\ UNCHANGED <<linkUp, faults, contracts, position>>
    /\ UNCHANGED authorized

\* call() of the web socket: the broker acts, or refuses, or never sees the
\* request; what needs a login is refused on a connection without one
SocketCall(t) ==
    LET r == job[t].next IN
    /\ ~Sim /\ linkUp
    /\ \/ Wire(t, Lost(t)) /\ UNCHANGED <<authorized, contracts, position>>
       \/ r # "stream" /\ Wire(t, "error") /\ UNCHANGED <<authorized, contracts, position>>
       \/ r \in {"ping", "ask", "stream", "proposal"} /\ Wire(t, "ok")
          /\ UNCHANGED <<authorized, contracts, position>>
       \/ r = "authorize" /\ Wire(t, "ok") /\ authorized' = TRUE
          /\ UNCHANGED <<contracts, position>>
       \/ r = "buy" /\ authorized /\ Book(t, Stake) /\ UNCHANGED authorized
       \/ r = "sell" /\ authorized /\ SellContract(t) /\ UNCHANGED authorized
    /\ UNCHANGED <<linkUp, faults>>

CallDown(t) == /\ ~linkUp
               /\ Wire(t, "down")
               /\ UNCHANGED <<linkUp, authorized, faults, contracts, position>>

Call(t) == /\ job[t].next \in Request
           /\ job[t].wire = "unsent"
           /\ SimCall(t) \/ SocketCall(t) \/ CallDown(t)
           /\ UNCHANGED <<transport, background, account, adapter, monitor>>

-----------------------------------------------------------------------------
(* Answers.  _call() marks the link up on any answer and down on a         *)
(* connection error; a time limit leaves it as it was.                     *)

\* the request thread t made is r, and call() ends with outcome w
Comes(t, r, w) ==
    /\ job[t].next = r
    /\ \/ job[t].wire = w
       \/ job[t].wire = "lost" /\ w \in {"timeout", "down"}

AfterCall(w) == IF w \in {"ok", "error"} THEN "CONNECTED"
                ELSE IF w = "down" THEN "DISCONNECTED" ELSE safety

Continues(t, next) ==
    job' = [job EXCEPT ![t].next = next, ![t].wire = "unsent"]

Ends(t) == job' = [job EXCEPT ![t] = Idle]

\* connect() returned or raised in start() or reconnect()
Connected(t) ==
    /\ Ends(t)
    /\ monitor' = [monitor EXCEPT !.state = "CONNECTED"]

\* A fault: one attempt more than max_reconnect_attempts.
NotConnectedOnceMore(t) ==
    IF job[t].op = "reconnect" /\ job[t].attempt <= MaxReconnectAttempts
      THEN /\ job' = [job EXCEPT ![t] = [Doing("reconnect", "dial", 0, 0)
                                           EXCEPT !.attempt = job[t].attempt + 1]]
           /\ UNCHANGED monitor
      ELSE /\ Ends(t)
           /\ monitor' = [monitor EXCEPT !.state = "FAILED"]

\* A fault: an attempt that failed is not counted.
NotConnectedUncounted(t) ==
    IF job[t].op = "reconnect" /\ job[t].attempt < MaxReconnectAttempts
      THEN /\ job' = [job EXCEPT ![t] = [Doing("reconnect", "dial", 0, 0)
                                           EXCEPT !.attempt = job[t].attempt]]
           /\ UNCHANGED monitor
      ELSE /\ Ends(t)
           /\ monitor' = [monitor EXCEPT !.state = "FAILED"]

NotConnected(t) ==
    IF job[t].op = "reconnect" /\ job[t].attempt < MaxReconnectAttempts
      THEN /\ job' = [job EXCEPT ![t] = [Doing("reconnect", "dial", 0, 0)
                                           EXCEPT !.attempt = job[t].attempt + 1]]
           /\ UNCHANGED monitor
      ELSE /\ Ends(t)
           /\ monitor' = [monitor EXCEPT !.state = "FAILED"]

\* transport.connect().  A new web socket is not authorized, and replaces the
\* one the other thread may be waiting on.
Dial(t) ==
    /\ job[t].next = "dial"
    /\ \/ /\ linkUp' = TRUE
          /\ authorized' = FALSE
          /\ Continues(t, "authorize")
          /\ UNCHANGED <<safety, monitor>>
       \/ /\ ~Sim
          /\ safety' = "DISCONNECTED"
          /\ NotConnected(t)
          /\ UNCHANGED <<linkUp, authorized>>
    /\ UNCHANGED <<transport, background, account, faults, contracts, position,
                   isVirtual, tracked, orders>>

AuthorizeReturns(t, w) ==
    /\ Comes(t, "authorize", w)
    /\ isVirtual' = IF w # "ok" THEN isVirtual
                    ELSE IF account = "virtual" THEN "yes" ELSE "no"
    /\ IF w = "ok" /\ account = "virtual"
         THEN /\ safety' = "CONNECTED"
              /\ Continues(t, "ping")
              /\ UNCHANGED monitor
         ELSE /\ safety' = IF w = "timeout" THEN safety ELSE "DISCONNECTED"
              /\ NotConnected(t)
    /\ UNCHANGED <<broker, tracked, orders>>

\* the heartbeat at the end of connect()
ConnectPingReturns(t, w) ==
    /\ job[t].op \in {"start", "reconnect"}
    /\ Comes(t, "ping", w)
    /\ safety' = AfterCall(w)
    /\ IF w = "ok" THEN Connected(t) ELSE NotConnected(t)
    /\ UNCHANGED <<broker, isVirtual, tracked, orders>>

\* a request that only reads; stream_ticks marks the link down when no tick
\* comes, and not when it could not subscribe
AskReturns(t, w) ==
    /\ job[t].op = "ask"
    /\ Comes(t, job[t].next, w)
    /\ safety' = IF job[t].next # "stream" \/ w = "ok" THEN AfterCall(w)
                 ELSE IF w = "timeout" THEN "DISCONNECTED" ELSE safety
    /\ Ends(t)
    /\ UNCHANGED <<broker, isVirtual, tracked, orders, monitor>>

\* The order of thread t gets status s and its operation ends.
Settle(t, s) == /\ orders' = [orders EXCEPT ![job[t].order].status = s]
                /\ Ends(t)

\* A fault: a time limit is reported as a rejection.
UnansweredIsRejected(w) == CASE w \in {"error", "timeout"} -> "REJECTED"
                             [] w = "down"                 -> "SUBMITTED"

\* the status of an order whose proposal or buy was not answered
Unanswered(w) == CASE w = "error"   -> "REJECTED"
                   [] w = "timeout" -> "TIMED_OUT"
                   [] w = "down"    -> "SUBMITTED"

ProposalReturns(t, w) ==
    /\ Comes(t, "proposal", w)
    /\ safety' = AfterCall(w)
    /\ IF w = "ok" THEN Continues(t, "buy") /\ UNCHANGED orders
                   ELSE Settle(t, Unanswered(w))
    /\ UNCHANGED <<broker, isVirtual, tracked, monitor>>

\* a later contract takes the place of an earlier one of its symbol
Tracks(t) ==
    LET c == job[t].contract IN
    /\ tracked' = [tracked EXCEPT ![orders[job[t].order].symbol] = c]
    /\ Settle(t, IF contracts[c].amount = Stake THEN "FILLED" ELSE "PARTIALLY_FILLED")

BuyReturns(t, w) ==
    /\ Comes(t, "buy", w)
    /\ safety' = AfterCall(w)
    /\ \/ w = "ok" /\ Tracks(t)
       \/ w # "ok" /\ Settle(t, Unanswered(w)) /\ UNCHANGED tracked
    /\ UNCHANGED <<broker, isVirtual, monitor>>

\* _close_contract(): neither a time limit nor a lost link is caught, so the
\* order stays SUBMITTED and the contract stays tracked
SellOrderReturns(t, w) ==
    /\ job[t].op = "order"
    /\ Comes(t, "sell", w)
    /\ safety' = AfterCall(w)
    /\ tracked' = IF w = "ok" THEN [tracked EXCEPT ![Main] = 0] ELSE tracked
    /\ Settle(t, CASE w = "ok" -> "FILLED" [] w = "error" -> "REJECTED"
                   [] OTHER -> "SUBMITTED")
    /\ UNCHANGED <<broker, isVirtual, monitor>>

\* A fault: the contract is forgotten before the answer is looked at.
CloseForgets(t, w) ==
    /\ job[t].op = "close"
    /\ Comes(t, "sell", w)
    /\ safety' = AfterCall(w)
    /\ tracked' = [tracked EXCEPT ![contracts[job[t].contract].symbol] = 0]
    /\ Ends(t)
    /\ UNCHANGED <<broker, isVirtual, orders, monitor>>

\* closePosition()
CloseReturns(t, w) ==
    /\ job[t].op = "close"
    /\ Comes(t, "sell", w)
    /\ safety' = AfterCall(w)
    /\ tracked' = IF w = "ok" THEN [tracked EXCEPT ![contracts[job[t].contract].symbol] = 0] ELSE tracked
    /\ Ends(t)
    /\ UNCHANGED <<broker, isVirtual, orders, monitor>>

-----------------------------------------------------------------------------
(* The monitor.                                                            *)

\* heartbeat(), of the background loop or of the main thread
Heartbeat(t) == /\ t = IF background THEN "monitor" ELSE "main"
                /\ t = "monitor" => monitor.alive
                /\ job[t] = Idle
                /\ job' = [job EXCEPT ![t] = Doing("heartbeat", "ping", 0, 0)]
                /\ UNCHANGED <<broker, adapter, monitor>>

\* heartbeat(): a link that is down starts reconnect(); a time limit is a
\* BrokerTimeout, which heartbeat() does not catch, and ends the loop
HeartbeatReturns(t, w) ==
    /\ job[t].op = "heartbeat"
    /\ Comes(t, "ping", w)
    /\ safety' = AfterCall(w)
    /\ CASE w = "ok" ->
              /\ monitor' = [monitor EXCEPT !.state = "CONNECTED"]
              /\ Ends(t)
         [] w \in {"error", "down"} ->
              /\ monitor' = [monitor EXCEPT !.state = "RECONNECTING"]
              /\ job' = [job EXCEPT ![t] = [Doing("reconnect", "dial", 0, 0)
                                              EXCEPT !.attempt = 1]]
         [] w = "timeout" ->
              /\ monitor' = [monitor EXCEPT !.alive = FALSE]
              /\ Ends(t)
    /\ UNCHANGED <<broker, isVirtual, tracked, orders>>

\* stop_background() ends the loop between two heartbeats
StopBackground == /\ monitor.alive
                  /\ job["monitor"] = Idle
                  /\ Begins(Idle)
                  /\ monitor' = [monitor EXCEPT !.alive = FALSE]
                  /\ UNCHANGED <<broker, adapter>>

-----------------------------------------------------------------------------
(* The next-state relation.                                                *)

Returns(t, w) == \/ AuthorizeReturns(t, w) \/ ConnectPingReturns(t, w)
                 \/ AskReturns(t, w) \/ ProposalReturns(t, w) \/ BuyReturns(t, w)
                 \/ SellOrderReturns(t, w) \/ CloseReturns(t, w)
                 \/ HeartbeatReturns(t, w)

Outcome == {"ok", "error", "timeout", "down"}

Step(t) == Dial(t) \/ Call(t) \/ \E w \in Outcome : Returns(t, w)

Next ==
    \/ Start \/ Disconnect \/ ForceDrop \/ LinkLost \/ StopBackground
    \/ \E r \in {"ask", "stream"} : Ask(r)
    \/ \E p \in Placed : SubmitOrder(p[1], p[2]) \/ SubmitIntent(p[1], p[2])
    \/ \E s \in Symbol : ClosePosition(s)
    \/ \E f \in Fault : Inject(f)
    \/ \E t \in Thread : Heartbeat(t) \/ Step(t) \/ AnswerLost(t)

Spec == Init /\ [][Next]_vars

\* a call to the transport ends: the socket has a time limit, and the backoff
\* of reconnect() is a sleep
FairSpec == Spec /\ \A t \in Thread : WF_vars(Step(t))

-----------------------------------------------------------------------------
(* Properties.                                                             *)

Contract == [side : Side, symbol : Symbol, amount : {Stake, Partial},
             order : Nat, sold : BOOLEAN, seller : Nat]

\* either bound is at most their sum
OrderNumber == 1..(MaxOrders + MaxOrdersBeside)

Order == [side : Side, symbol : Symbol,
          status : {"SUBMITTED", "PARTIALLY_FILLED", "FILLED", "REJECTED", "TIMED_OUT"}]

\* Every variable has the values its code gives it, and what a thread or the
\* adapter refers to (an order, a contract) exists.
TypeOK ==
    /\ transport \in {"sim", "websocket"} /\ account \in {"virtual", "real"}
    /\ linkUp \in BOOLEAN /\ authorized \in BOOLEAN
    /\ faults \subseteq Fault
    /\ contracts \in Seq(Contract)
    /\ position \in Int
    /\ isVirtual \in {"unset", "yes", "no"}
    /\ tracked \in [Symbol -> 0..Len(contracts)]
    /\ safety \in {"DISCONNECTED", "CONNECTED"}
    /\ orders \in Seq(Order) /\ Len(orders) \in OrderNumber \cup {0}
    /\ monitor \in [state : {"DISCONNECTED", "CONNECTING", "CONNECTED",
                              "RECONNECTING", "FAILED"},
                     alive : BOOLEAN]
    /\ job \in [Thread -> Job]
    /\ \A t \in Thread : /\ job[t].order \in 0..Len(orders)
                         /\ job[t].contract \in 0..Len(contracts)

\* The broker has carried out order o: a contract was booked for it, or sold by it.
Executed == { contracts[c].order : c \in DOMAIN contracts }
            \cup { contracts[c].seller : c \in DOMAIN contracts }

\* The life of every order, over either transport and with the monitor at work
\* beside it, is one BrokerOrders allows (submitOrder, submit_intent and
\* _close_contract): what the caller is told agrees with what the broker did.
StatusOf(o) == IF o \in DOMAIN orders THEN orders[o].status ELSE "PENDING"
Ledger == INSTANCE BrokerOrders WITH
    Orders <- OrderNumber,
    status <- [o \in OrderNumber |-> StatusOf(o)],
    executed <- Executed \ {0}
ImplementsOrders == Ledger!Spec

\* what each contract is in the position
Amounts == [c \in DOMAIN contracts |-> Signed(contracts[c].side, contracts[c].amount)]

\* The simulated position is the sum of the contracts still open, whatever was
\* partially filled, rejected, dropped or sold (_buy, _sell and _apply).
PositionIsOpenContracts ==
    LET open == { c \in DOMAIN contracts : ~contracts[c].sold }
    IN  Sim => position = SumFunctionOnSet(Amounts, open)

\* A contract the caller was told of is not forgotten while it is open: it is
\* tracked, or a later contract of its symbol that was reported too took its
\* place (_open_contracts).
OpenContractsKept ==
    \A c \in DOMAIN contracts :
        /\ ~contracts[c].sold
        /\ orders[contracts[c].order].status \in {"FILLED", "PARTIALLY_FILLED"}
        => \E d \in c..Len(contracts) :
              /\ contracts[d].symbol = contracts[c].symbol
              /\ orders[contracts[d].order].status \in {"FILLED", "PARTIALLY_FILLED"}
              /\ d = c => tracked[contracts[c].symbol] = c

\* Every operation ends, reconnect() with its attempts too: no thread waits for
\* an answer, or tries to connect, for ever.
OperationsEnd == \A t \in Thread : (job[t].op # "none") ~> (job[t].op = "none")

\* "Real (non-virtual) accounts are blocked outright" (deriv_adapter.py:19): no
\* contract is ever booked on a real account of the web socket.
RealNeverTraded == (account = "real" /\ ~Sim) => contracts = <<>>
=============================================================================
