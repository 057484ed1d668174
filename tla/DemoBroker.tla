----------------------------- MODULE DemoBroker -----------------------------
(***************************************************************************)
(* The generic brokers behind the BrokerConnection contract: the           *)
(* DemoBrokerAdapter over its in-process simulator ("sim") or over HTTP    *)
(* ("http"), and the MockBroker ("mock").  One thread uses them.  An order *)
(* takes three steps, so that what the broker did and what the caller is   *)
(* told can differ: it is submitted, the broker handles it, the answer     *)
(* comes.                                                                  *)
(***************************************************************************)
EXTENDS Integers, Sequences, FiniteSets, Functions

CONSTANTS MaxDemoOrders,    \* orders placed
          Qty, PartQty      \* quantity of an order, and of a partial fill

ASSUME DemoAssumption == {MaxDemoOrders, Qty, PartQty} \subseteq Nat

VARIABLES
    kind,           \* "sim", "http" or "mock"
    liveEndpoint,   \* endpoint_looks_live(base_url); ALLOW_LIVE let it through
    dropped,        \* the link of the simulator is down
    state,          \* the adapter's ConnectionSafety, or the mock's _state
    demoFaults,     \* the one-shot faults of FaultConfig
    demoOrders,     \* the orders placed: [side, status]
    fills,          \* what the broker did, in order: [side, qty, order]
    pos,            \* the simulated position: [qty, basis], basis being the
                    \* fills whose prices are blended in avg_price
    reply           \* what became of the order being placed

demoVars == <<kind, liveEndpoint, dropped, state, demoFaults, demoOrders, fills, pos, reply>>

DemoFault == {"timeout_next", "reject_next", "disconnect_during_next",
              "partial_fill_next", "drop_on_next_ping"}
Replies == {"none", "pending", "filled", "partial", "rejected", "timeout", "down", "escapes"}

\* assert_demo_endpoint(): ALLOW_LIVE may let a live endpoint through, and only
\* over HTTP is there one
EndpointAllowed == liveEndpoint => kind = "http"

LinkInit == /\ kind \in {"sim", "http", "mock"}
            /\ liveEndpoint \in BOOLEAN /\ EndpointAllowed
            /\ state = "DISCONNECTED"
            /\ demoOrders = <<>> /\ reply = "none"

BooksInit == /\ dropped = FALSE
             /\ demoFaults = {}
             /\ fills = <<>>
             /\ pos = [qty |-> 0, basis |-> {}]

DemoInit == LinkInit /\ BooksInit

Quiet == reply = "none"
Last == Len(demoOrders)
link == <<dropped, state>>
config == <<kind, liveEndpoint>>
books == <<demoOrders, fills, pos>>

-----------------------------------------------------------------------------
(* The link.                                                               *)

\* connect(): the simulator is restored first; over HTTP the heartbeat may
\* fail or be refused
DemoConnect ==
    /\ Quiet /\ kind # "mock"
    /\ dropped' = FALSE
    /\ \/ state' = "CONNECTED"
       \/ kind = "http" /\ state' = "DISCONNECTED"
    /\ UNCHANGED <<config, demoFaults, books, reply>>

MockConnect ==
    /\ Quiet /\ kind = "mock"
    /\ state' = "CONNECTED"
    /\ UNCHANGED <<config, dropped, demoFaults, books, reply>>

DemoDisconnect ==
    /\ Quiet
    /\ state' = "DISCONNECTED"
    /\ UNCHANGED <<config, dropped, demoFaults, books, reply>>

\* force_drop()
DemoForceDrop ==
    /\ Quiet
    /\ dropped' = (kind = "sim")
    /\ state' = "DISCONNECTED"
    /\ UNCHANGED <<config, demoFaults, books, reply>>

\* heartbeat() of the adapter, which takes any answer of the broker, an error
\* too, for a heartbeat
DemoHeartbeat ==
    /\ Quiet /\ kind # "mock"
    /\ state' \in IF kind = "http" THEN {"DISCONNECTED", "CONNECTED"}
                  ELSE IF dropped THEN {"DISCONNECTED"} ELSE {"CONNECTED"}
    /\ UNCHANGED <<config, dropped, demoFaults, books, reply>>

\* ping() of the mock, which may find the link dropped
MockPing ==
    /\ Quiet /\ kind = "mock"
    /\ state' = IF "drop_on_next_ping" \in demoFaults THEN "DISCONNECTED" ELSE state
    /\ demoFaults' = demoFaults \ {"drop_on_next_ping"}
    /\ UNCHANGED <<config, dropped, books, reply>>

\* getBalance, getPositions, getOrderStatus, get_quote, get_position and
\* current_mid of the adapter: a read, whose answer marks the link up and whose
\* time limit leaves it alone; closePosition() of a simulator that is down too
DemoRead ==
    /\ Quiet /\ kind # "mock"
    /\ state' \in IF kind = "http" THEN {state, "CONNECTED", "DISCONNECTED"}
                  ELSE IF dropped THEN {"DISCONNECTED"} ELSE {"CONNECTED"}
    /\ UNCHANGED <<config, dropped, demoFaults, books, reply>>

DemoInject(f) ==
    /\ kind # "http" /\ demoFaults = {}
    /\ demoFaults' = {f}
    /\ UNCHANGED <<config, link, books, reply>>

-----------------------------------------------------------------------------
(* Orders.                                                                 *)

SignedQty(side, q) == IF side = "BUY" THEN q ELSE -q

\* a fill that opens a position or adds to it
Blends(signed) == pos.qty = 0 \/ ((pos.qty > 0) <=> (signed > 0))

\* A fault: the average price is not reset when the position is flat.
AppliedWithoutReset(side, q, fill) ==
    LET signed == SignedQty(side, q)
    IN  [qty |-> pos.qty + signed,
         basis |-> IF Blends(signed) THEN pos.basis \cup {fill} ELSE pos.basis]

\* _apply_fill(): a fill on the position's side, or from flat, is blended into
\* the average price; any other fill keeps the average, until the position is
\* flat
Applied(side, q, fill) ==
    LET signed == SignedQty(side, q)
        new == pos.qty + signed
    IN  [qty |-> new,
         basis |-> IF new = 0 THEN {} ELSE IF Blends(signed) THEN pos.basis \cup {fill} ELSE pos.basis]

Fills(side, q, order) ==
    /\ fills' = Append(fills, [side |-> side, qty |-> q, order |-> order])
    /\ pos' = IF kind = "http" THEN pos ELSE Applied(side, q, Len(fills) + 1)

\* no order is placed at a live endpoint (_require_demo), and the mock refuses
\* one while it is not connected
MayTrade == ~liveEndpoint /\ (kind = "mock" => state = "CONNECTED")

DemoSubmit(side) ==
    /\ Quiet /\ Last < MaxDemoOrders /\ MayTrade
    /\ demoOrders' = Append(demoOrders, [side |-> side, status |-> "SUBMITTED"])
    /\ reply' = "pending"
    /\ UNCHANGED <<config, link, demoFaults, fills, pos>>

\* the faults of an order, in the order they are looked at
FaultReply(f) ==
    CASE f = "timeout_next"           -> "timeout"
      [] f = "reject_next"            -> "rejected"
      [] f = "disconnect_during_next" -> "down"

\* A fault: the order is booked before the faults are looked at.
SimBooksFirst ==
    /\ kind # "http" /\ ~dropped
    /\ demoFaults' = demoFaults \cap {"drop_on_next_ping"}
    /\ Fills(demoOrders[Last].side, Qty, Last)
    /\ \/ \E f \in demoFaults \cap {"timeout_next", "reject_next", "disconnect_during_next"} :
            /\ reply' = FaultReply(f)
            /\ dropped' = (kind = "sim" /\ reply' = "down")
       \/ /\ demoFaults \subseteq {"partial_fill_next", "drop_on_next_ping"}
          /\ reply' = "filled"
          /\ UNCHANGED dropped

\* submit_order() of the mock and _handle_submit() of the simulator: the
\* faults come before anything is booked
SimHandles ==
    /\ kind # "http" /\ ~dropped
    /\ demoFaults' = demoFaults \cap {"drop_on_next_ping"}
    /\ \/ \E f \in demoFaults \cap {"timeout_next", "reject_next", "disconnect_during_next"} :
            /\ reply' = FaultReply(f)
            /\ dropped' = (kind = "sim" /\ reply' = "down")
            /\ UNCHANGED <<fills, pos>>
       \/ /\ demoFaults \subseteq {"partial_fill_next", "drop_on_next_ping"}
          /\ reply' = IF "partial_fill_next" \in demoFaults THEN "partial" ELSE "filled"
          /\ Fills(demoOrders[Last].side, IF reply' = "partial" THEN PartQty ELSE Qty, Last)
          /\ UNCHANGED dropped

SimIsDown == /\ dropped
             /\ reply' = "down"
             /\ UNCHANGED <<dropped, demoFaults, fills, pos>>

\* request() over HTTP.  The broker may have taken the order whatever the
\* caller gets: an answer of 400 and above is returned as an answer, whoever
\* on the way gave it; an error urllib does not wrap escapes the adapter.
HttpHandles ==
    /\ kind = "http"
    /\ \/ /\ reply' \in {"filled", "partial", "rejected", "timeout", "down", "escapes"}
          /\ Fills(demoOrders[Last].side, IF reply' = "partial" THEN PartQty ELSE Qty, Last)
       \/ /\ reply' \in {"rejected", "timeout", "down", "escapes"}
          /\ UNCHANGED <<fills, pos>>
    /\ UNCHANGED <<dropped, demoFaults>>

DemoHandle == /\ reply = "pending"
              /\ SimHandles \/ SimIsDown \/ HttpHandles
              /\ UNCHANGED <<config, state, demoOrders>>

\* submitOrder() after its call
Reported == CASE reply = "filled"   -> "FILLED"
              [] reply = "partial"  -> "PARTIALLY_FILLED"
              [] reply = "rejected" -> "REJECTED"
              [] reply = "timeout"  -> "TIMED_OUT"
              [] reply \in {"down", "escapes"} -> "SUBMITTED"

\* _call() marks the link down on a connection error and up on an answer; the
\* mock drops its own link
DemoAnswer ==
    /\ reply \notin {"none", "pending"}
    /\ demoOrders' = [demoOrders EXCEPT ![Last].status = Reported]
    /\ state' = IF reply = "down" THEN "DISCONNECTED"
                ELSE IF reply \in {"timeout", "escapes"} THEN state ELSE "CONNECTED"
    /\ reply' = "none"
    /\ UNCHANGED <<config, dropped, demoFaults, fills, pos>>

\* what each fill moves the position by, and the position they make
Moved == [f \in DOMAIN fills |-> SignedQty(fills[f].side, fills[f].qty)]
Held == SumFunction(Moved)

\* the whole of a position is traded away
TradesAway(held) ==
    IF held = 0 THEN UNCHANGED <<fills, pos>>
    ELSE Fills(IF held > 0 THEN "SELL" ELSE "BUY", IF held > 0 THEN held ELSE -held, 0)

\* closePosition() over the simulator
DemoClose ==
    /\ Quiet /\ kind = "sim" /\ ~dropped
    /\ TradesAway(pos.qty)
    /\ state' = "CONNECTED"
    /\ Len(fills) <= MaxDemoOrders      \* bound: one close more than orders
    /\ UNCHANGED <<config, dropped, demoFaults, demoOrders, reply>>

\* closePosition() over HTTP: whatever the caller gets, the broker may have
\* closed the position; no position is closed at a live endpoint
DemoCloseHttp ==
    /\ Quiet /\ kind = "http" /\ ~liveEndpoint
    /\ TradesAway(Held) \/ UNCHANGED <<fills, pos>>
    /\ state' \in {state, "CONNECTED", "DISCONNECTED"}
    /\ Len(fills) <= MaxDemoOrders
    /\ UNCHANGED <<config, dropped, demoFaults, demoOrders, reply>>

DemoNext ==
    \/ DemoConnect \/ MockConnect \/ DemoDisconnect \/ DemoForceDrop \/ DemoHeartbeat
    \/ MockPing \/ DemoRead
    \/ \E f \in DemoFault : DemoInject(f)
    \/ \E side \in {"BUY", "SELL"} : DemoSubmit(side)
    \/ DemoHandle \/ DemoAnswer \/ DemoClose \/ DemoCloseHttp

DemoSpec == DemoInit /\ [][DemoNext]_demoVars

-----------------------------------------------------------------------------
(* Properties.                                                             *)

\* Every variable has the values its code gives it, and a fill is of an order
\* that was placed.
DemoTypeOK ==
    /\ kind \in {"sim", "http", "mock"} /\ liveEndpoint \in BOOLEAN
    /\ dropped \in BOOLEAN /\ state \in {"DISCONNECTED", "CONNECTED"}
    /\ demoFaults \subseteq DemoFault
    /\ demoOrders \in Seq([side : {"BUY", "SELL"},
                           status : {"SUBMITTED", "PARTIALLY_FILLED", "FILLED",
                                     "REJECTED", "TIMED_OUT"}])
    /\ fills \in Seq([side : {"BUY", "SELL"}, qty : Nat, order : 0..Last])
    /\ pos.qty \in Int /\ pos.basis \subseteq DOMAIN fills
    /\ reply \in Replies

\* What the caller of an order is told agrees with what the broker did, as
\* BrokerOrders has it; over HTTP a rejection is no more than an unknown outcome
\* (submitOrder, _handle_submit, MockBroker.submit_order).
DemoOrderNumber == 1..MaxDemoOrders
Told(o) == IF o \notin DOMAIN demoOrders THEN "PENDING"
           ELSE IF kind = "http" /\ demoOrders[o].status = "REJECTED" THEN "TIMED_OUT"
           ELSE demoOrders[o].status
DemoLedger == INSTANCE BrokerOrders WITH
    Orders <- DemoOrderNumber,
    status <- [o \in DemoOrderNumber |-> Told(o)],
    executed <- { fills[f].order : f \in DOMAIN fills } \ {0}
DemoImplementsOrders == DemoLedger!Spec

\* The position is the sum of the fills, an average price is kept exactly while
\* the position is not flat, and it blends the fill that last opened it
\* (_apply_fill), through partial fills, reversals and closes.
PositionIsFills ==
    kind # "http" =>
        /\ pos.qty = Held
        /\ (pos.basis = {}) <=> (pos.qty = 0)
        /\ (pos.qty # 0) => \E f \in pos.basis : SumFunctionOnSet(Moved, 1..(f - 1)) = 0
=============================================================================
