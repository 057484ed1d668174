-------------------------- MODULE DerivBroker_proofs --------------------------
(***************************************************************************)
(* Machine-checked proofs about DerivBroker, for any number of orders,     *)
(* faults and attempts to reconnect: its types, that the life of every     *)
(* order is one BrokerOrders allows, that no contract the caller knows of  *)
(* is forgotten, and that the position is the sum of the open contracts.   *)
(***************************************************************************)
EXTENDS DerivBroker, FoldLemmas

-----------------------------------------------------------------------------
(* What the threads do.                                                    *)

\* The requests an operation makes, and which of them are for an order or sell
\* a contract.
Follows(j) ==
    /\ j.op = "none" => j.next = "none"
    /\ j.op \in {"start", "reconnect"} => j.next \in {"dial", "authorize", "ping"}
    /\ j.op = "heartbeat" => j.next = "ping"
    /\ j.op = "ask" => j.next \in {"ask", "stream"}
    /\ j.op = "order" => j.next \in {"proposal", "buy", "sell"} /\ j.order # 0
    /\ j.op = "close" => j.next = "sell"
    /\ j.op # "order" => j.order = 0
    /\ j.next = "sell" => j.contract # 0
    /\ (j.next = "buy" /\ j.wire = "ok") => j.contract # 0

\* Only the main thread has anything to do with orders.
Threads == /\ \A t \in Thread : Follows(job[t])
           /\ job["monitor"].op \in {"none", "heartbeat", "reconnect"}

TypeInv == TypeOK /\ Threads

\* What a thread refers to exists.
Refers(j) == j.order \in 0..Len(orders) /\ j.contract \in 0..Len(contracts)

JobsOK == job \in [Thread -> Job] /\ Threads /\ \A t \in Thread : Refers(job[t])

\* Neither an order nor a contract is ever removed.
Grows == /\ orders' \in Seq(Order) /\ Len(orders) <= Len(orders')
         /\ contracts' \in Seq(Contract) /\ Len(contracts) <= Len(contracts')

\* One thread goes on to what is well formed.
LEMMA JobStep ==
  ASSUME TypeInv, Grows, NEW t \in Thread, NEW j \in Job, Follows(j),
         t = "monitor" => j.op \in {"none", "heartbeat", "reconnect"},
         j.order \in 0..Len(orders'), j.contract \in 0..Len(contracts'),
         job' = [job EXCEPT ![t] = j]
  PROVE  JobsOK'
<1>1. /\ job' \in [Thread -> Job]
      /\ \A u \in Thread : job'[u] = IF u = t THEN j ELSE job[u]
  BY DEF TypeInv, TypeOK
<1>2. /\ "monitor" \in Thread
      /\ \A u \in Thread : Follows(job'[u])
  BY <1>1 DEF TypeInv, Threads, Thread
<1>3. job'["monitor"].op \in {"none", "heartbeat", "reconnect"}
  BY <1>1, <1>2 DEF TypeInv, Threads
<1>4. \A u \in Thread : /\ job[u].order \in 0..Len(orders)
                          /\ job[u].contract \in 0..Len(contracts)
  BY DEF TypeInv, TypeOK
<1>5. /\ Len(orders) \in Nat /\ Len(orders') \in Nat
      /\ Len(contracts) \in Nat /\ Len(contracts') \in Nat
  BY DEF TypeInv, TypeOK, Grows
<1>6. \A u \in Thread : /\ job'[u].order \in 0..Len(orders')
                          /\ job'[u].contract \in 0..Len(contracts')
  BY <1>1, <1>4, <1>5 DEF Grows
<1> QED
  BY <1>1, <1>2, <1>3, <1>6 DEF JobsOK, Threads, Follows, Refers

\* A thread is idle between two operations.
LEMMA IdleJob == Idle \in Job /\ Follows(Idle)
  BY BoundAssumption DEF Idle, Doing, Job, Follows

\* An operation starts with one of its requests.
LEMMA DoingJob ==
  ASSUME NEW op \in {"start", "reconnect", "heartbeat", "ask", "order", "close"},
         NEW next \in Request \cup {"none", "dial"},
         NEW order \in Nat, NEW contract \in Nat
  PROVE  Doing(op, next, order, contract) \in Job
<1>1. 0 \in 0..MaxReconnectAttempts
  BY BoundAssumption
<1> QED
  BY <1>1 DEF Doing, Job

LEMMA ThreadStarts ==
  ASSUME TypeInv, Grows, NEW t \in Thread,
         NEW op \in {"start", "heartbeat", "reconnect", "ask", "order", "close"},
         NEW next \in Request \cup {"dial"},
         NEW order \in 0..Len(orders'), NEW contract \in 0..Len(contracts'),
         t = "monitor" => op \in {"heartbeat", "reconnect"},
         Follows(Doing(op, next, order, contract)),
         job' = [job EXCEPT ![t] = Doing(op, next, order, contract)]
  PROVE  JobsOK'
<1> DEFINE j == Doing(op, next, order, contract)
<1>1. Len(orders') \in Nat /\ Len(contracts') \in Nat
  BY DEF Grows
<1>2. order \in Nat /\ contract \in Nat
  BY <1>1
<1>3. j \in Job
  BY <1>2, DoingJob
<1>4. j.op = op /\ j.order = order /\ j.contract = contract
  BY DEF Doing
<1> HIDE DEF j
<1> QED
  BY <1>3, <1>4, JobStep DEF j

LEMMA ReferenceKept ==
  ASSUME TypeInv, Grows, NEW t \in Thread
  PROVE  job[t].order \in 0..Len(orders') /\ job[t].contract \in 0..Len(contracts')
<1>1. /\ Len(orders) \in Nat /\ Len(orders') \in Nat
      /\ Len(contracts) \in Nat /\ Len(contracts') \in Nat
  BY DEF TypeInv, TypeOK, Grows
<1>2. job[t].order \in 0..Len(orders) /\ job[t].contract \in 0..Len(contracts)
  BY DEF TypeInv, TypeOK
<1> QED
  BY <1>1, <1>2 DEF Grows

\* The steps of a thread that go on, that end, or that tell of an answer, keep
\* its type.
LEMMA ThreadEnds ==
  ASSUME TypeInv, Grows, NEW t \in Thread, Ends(t)
  PROVE  JobsOK'
<1>1. /\ Idle.op = "none" /\ Idle.order = 0 /\ Idle.contract = 0
      /\ 0 \in 0..Len(orders') /\ 0 \in 0..Len(contracts')
  BY DEF Idle, Doing, Grows
<1> QED
  BY <1>1, JobStep, IdleJob DEF Ends

LEMMA ThreadContinues ==
  ASSUME TypeInv, Grows, NEW t \in Thread,
         NEW next \in {"authorize", "ping", "buy"}, Continues(t, next),
         next = "buy" => job[t].op = "order",
         next # "buy" => job[t].op \in {"start", "reconnect"}
  PROVE  JobsOK'
<1> DEFINE j == [job[t] EXCEPT !.next = next, !.wire = "unsent"]
<1>1. job[t] \in Job /\ Follows(job[t])
  BY DEF TypeInv, TypeOK, Threads
<1>2. /\ j \in Job /\ j.op = job[t].op /\ j.order = job[t].order
      /\ j.next = next /\ j.wire = "unsent" /\ j.contract = job[t].contract
  BY <1>1 DEF Job, Request
<1>3. Follows(j)
  BY <1>1, <1>2 DEF Follows
<1>4. t = "monitor" => j.op \in {"none", "heartbeat", "reconnect"}
  BY <1>2 DEF TypeInv, Threads
<1>5. job' = [job EXCEPT ![t] = j]
  BY DEF Continues, TypeInv, TypeOK
<1>6. j.order \in 0..Len(orders') /\ j.contract \in 0..Len(contracts')
  BY <1>2, ReferenceKept
<1> QED
  BY <1>2, <1>3, <1>4, <1>5, <1>6, JobStep

LEMMA ThreadAnswered ==
  ASSUME TypeInv, Grows, NEW t \in Thread, NEW w \in {"ok", "error", "timeout", "down", "lost"},
         Wire(t, w), job[t].next = "buy" => w # "ok"
  PROVE  JobsOK'
<1> DEFINE j == [job[t] EXCEPT !.wire = w]
<1>1. job[t] \in Job /\ Follows(job[t])
  BY DEF TypeInv, TypeOK, Threads
<1>2. /\ j \in Job /\ j.op = job[t].op /\ j.order = job[t].order
      /\ j.next = job[t].next /\ j.wire = w /\ j.contract = job[t].contract
  BY <1>1 DEF Job
<1>3. Follows(j)
  BY <1>1, <1>2 DEF Follows
<1>4. t = "monitor" => j.op \in {"none", "heartbeat", "reconnect"}
  BY <1>2 DEF TypeInv, Threads
<1>5. job' = [job EXCEPT ![t] = j]
  BY DEF Wire, TypeInv, TypeOK
<1>6. j.order \in 0..Len(orders') /\ j.contract \in 0..Len(contracts')
  BY <1>2, ReferenceKept
<1> QED
  BY <1>2, <1>3, <1>4, <1>5, <1>6, JobStep

\* A connection that failed is tried again, while there are attempts left.
LEMMA ThreadNotConnected ==
  ASSUME TypeInv, Grows, NEW t \in Thread, NotConnected(t),
         job[t].op \in {"start", "reconnect"}
  PROVE  /\ JobsOK'
         /\ job'[t].op \in {"none", "reconnect"}
         /\ \A u \in Thread \ {t} : job'[u] = job[u]
<1>1. job \in [Thread -> Job] /\ job[t].attempt \in 0..MaxReconnectAttempts
  BY DEF TypeInv, TypeOK, Job
<1>2. CASE job[t].op = "reconnect" /\ job[t].attempt < MaxReconnectAttempts
  <2> DEFINE j == [Doing("reconnect", "dial", 0, 0) EXCEPT !.attempt = job[t].attempt + 1]
  <2>1. job[t].attempt + 1 \in 0..MaxReconnectAttempts
    BY <1>1, <1>2, BoundAssumption
  <2>2. /\ j = [op |-> "reconnect", next |-> "dial", wire |-> "unsent", order |-> 0,
                contract |-> 0, attempt |-> job[t].attempt + 1]
        /\ j \in Job
    BY <2>1 DEF Doing, Job
  <2>3. Follows(j)
    BY <2>2 DEF Follows
  <2>4. job' = [job EXCEPT ![t] = j]
    BY <1>2 DEF NotConnected
  <2>5. j.order \in 0..Len(orders') /\ j.contract \in 0..Len(contracts')
    BY <2>2 DEF Grows
  <2> QED
    BY <1>1, <2>2, <2>3, <2>4, <2>5, JobStep
<1>3. CASE ~(job[t].op = "reconnect" /\ job[t].attempt < MaxReconnectAttempts)
  <2>1. Ends(t)
    BY <1>3 DEF NotConnected
  <2> QED
    BY <1>1, <2>1, ThreadEnds DEF Ends, Idle, Doing
<1> QED
  BY <1>2, <1>3

-----------------------------------------------------------------------------
(* The types.                                                              *)

\* What the broker and the adapter keep.
DataOK ==
    /\ transport \in {"sim", "websocket"} /\ account \in {"virtual", "real"}
    /\ linkUp \in BOOLEAN /\ authorized \in BOOLEAN
    /\ faults \subseteq Fault
    /\ contracts \in Seq(Contract)
    /\ position \in Int
    /\ isVirtual \in {"unset", "yes", "no"}
    /\ tracked \in [Symbol -> 0..Len(contracts)]
    /\ safety \in {"DISCONNECTED", "CONNECTED"}
    /\ orders \in Seq(Order) /\ Len(orders) \in OrderNumber \cup {0}
    /\ monitor \in [state : {"DISCONNECTED", "CONNECTING", "CONNECTED",
                              "RECONNECTING", "FAILED"},
                     alive : BOOLEAN]

LEMMA TypeParts == (TypeInv <=> DataOK /\ JobsOK) /\ (TypeInv' <=> DataOK' /\ JobsOK')
  BY DEF TypeInv, TypeOK, DataOK, JobsOK, Refers

\* A step that books nothing and places nothing.
LEMMA Unchanging == ASSUME TypeInv, UNCHANGED <<orders, contracts>> PROVE Grows
  BY DEF TypeInv, TypeOK, Grows

LEMMA SafetyType ==
  ASSUME TypeInv, NEW w PROVE AfterCall(w) \in {"DISCONNECTED", "CONNECTED"}
  BY DEF TypeInv, TypeOK, AfterCall

\* The operations of the main thread.
LEMMA MainTypes ==
  ASSUME TypeInv,
         \/ Start \/ Disconnect \/ ForceDrop \/ StopBackground
         \/ \E r \in {"ask", "stream"} : Ask(r)
         \/ \E p \in Placed : SubmitOrder(p[1], p[2]) \/ SubmitIntent(p[1], p[2])
         \/ \E s \in Symbol : ClosePosition(s)
  PROVE  TypeInv'
<1> "main" \in Thread
  BY DEF Thread
<1>0. DataOK
  BY TypeParts
<1>1. CASE Start
  <2>1. DataOK'
    BY <1>0, <1>1 DEF Start, broker, adapter, DataOK, Contract
  <2>2. Grows
    BY <1>1, Unchanging DEF Start, broker, adapter
  <2>3. Follows(Doing("start", "dial", 0, 0)) /\ 0 \in 0..Len(orders') /\ 0 \in 0..Len(contracts')
    BY <2>2 DEF Doing, Follows, Grows
  <2>4. JobsOK'
    BY <1>1, <2>2, <2>3, ThreadStarts DEF Start, Begins
  <2> QED
    BY <2>1, <2>4, TypeParts
<1>2. CASE Disconnect \/ ForceDrop \/ StopBackground
  <2>1. DataOK'
    BY <1>0, <1>2, ZenonT(30) DEF Disconnect, ForceDrop, StopBackground, broker, adapter, DataOK, Contract
  <2>2. Grows
    BY <1>2, Unchanging DEF Disconnect, ForceDrop, StopBackground, broker, adapter
  <2>3. Ends("main")
    BY <1>2 DEF Disconnect, ForceDrop, StopBackground, Begins, Ends
  <2> QED
    BY <2>1, <2>2, <2>3, ThreadEnds, TypeParts
<1>3. ASSUME NEW r \in {"ask", "stream"}, Ask(r) PROVE TypeInv'
  <2>1. DataOK'
    BY <1>0, <1>3 DEF Ask, broker, adapter, DataOK, Contract
  <2>2. Grows
    BY <1>3, Unchanging DEF Ask, broker, adapter
  <2>3. Follows(Doing("ask", r, 0, 0)) /\ 0 \in 0..Len(orders') /\ 0 \in 0..Len(contracts')
    BY <2>2 DEF Doing, Follows, Grows
  <2>4. JobsOK'
    BY <1>3, <2>2, <2>3, ThreadStarts DEF Ask, Begins, Request
  <2> QED
    BY <2>1, <2>4, TypeParts
<1>4. ASSUME NEW p \in Placed, SubmitOrder(p[1], p[2]) \/ SubmitIntent(p[1], p[2])
      PROVE  TypeInv'
  <2> DEFINE n == Len(orders) + 1
             new == NewOrder(p[1], p[2])
             sell == Doing("order", "sell", n, tracked[Main])
             buy == Doing("order", "proposal", n, 0)
  <2>1. /\ orders' = Append(orders, new)
        /\ UNCHANGED <<broker, isVirtual, tracked, safety, monitor>>
        /\ Len(orders) < (IF background THEN MaxOrdersBeside ELSE MaxOrders)
        /\ \/ job' = [job EXCEPT !["main"] = buy]
           \/ tracked[Main] # 0 /\ job' = [job EXCEPT !["main"] = sell]
    BY <1>4 DEF SubmitOrder, SubmitIntent, Begins
  <2>2. new \in Order
    BY OrderAssumption DEF NewOrder, Order, Side, Symbol
  <2>3. /\ orders \in Seq(Order) /\ orders' \in Seq(Order) /\ Len(orders) \in Nat
        /\ Len(orders') = n
    BY <1>0, <2>1, <2>2 DEF DataOK
  <2>4. n \in OrderNumber
    BY <2>1, <2>3, BoundAssumption DEF OrderNumber
  <2>5. Grows
    BY <1>0, <2>1, <2>3 DEF Grows, DataOK, broker
  <2>6. DataOK'
    BY <1>0, <2>1, <2>3, <2>4 DEF DataOK, broker, OrderNumber, Contract, Order
  <2>7. tracked[Main] \in 0..Len(contracts)
    BY <1>0 DEF DataOK, Symbol
  <2>8. JobsOK'
    <3>0. n \in 0..Len(orders') /\ n # 0 /\ 0 \in 0..Len(contracts')
      BY <2>3, <2>5 DEF Grows
    <3>1. CASE job' = [job EXCEPT !["main"] = buy]
      <4>1. Follows(buy)
        BY <3>0 DEF Doing, Follows
      <4> QED
        BY <3>0, <3>1, <4>1, <2>5, ThreadStarts DEF Request
    <3>2. CASE tracked[Main] # 0 /\ job' = [job EXCEPT !["main"] = sell]
      <4>1. Follows(sell)
        BY <3>0, <3>2 DEF Doing, Follows
      <4>2. tracked[Main] \in 0..Len(contracts')
        BY <2>1, <2>7 DEF broker
      <4> QED
        BY <3>0, <3>2, <4>1, <4>2, <2>5, ThreadStarts DEF Request
    <3> QED
      BY <2>1, <3>1, <3>2
  <2> QED
    BY <2>6, <2>8, TypeParts
<1>5. ASSUME NEW s \in Symbol, ClosePosition(s) PROVE TypeInv'
  <2> DEFINE j == Doing("close", "sell", 0, tracked[s])
  <2>1. DataOK'
    BY <1>0, <1>5 DEF ClosePosition, broker, adapter, DataOK, Contract
  <2>2. Grows
    BY <1>5, Unchanging DEF ClosePosition, broker, adapter
  <2>3. tracked[s] \in 0..Len(contracts) /\ tracked[s] # 0 /\ contracts' = contracts
    BY <1>0, <1>5 DEF DataOK, ClosePosition, broker
  <2>4. /\ Follows(j) /\ 0 \in 0..Len(orders')
        /\ tracked[s] \in 0..Len(contracts')
    BY <2>2, <2>3 DEF Doing, Follows, Grows
  <2>5. JobsOK'
    BY <1>5, <2>2, <2>4, ThreadStarts DEF ClosePosition, Begins, Request
  <2> QED
    BY <2>1, <2>5, TypeParts
<1> QED
  BY <1>1, <1>2, <1>3, <1>4, <1>5

\* What happens to the transport.
LEMMA TransportTypes ==
  ASSUME TypeInv, LinkLost \/ \E f \in Fault : Inject(f)
  PROVE  TypeInv'
<1>0. DataOK /\ JobsOK
  BY TypeParts
<1>1. CASE LinkLost
  <2>1. DataOK'
    BY <1>0, <1>1 DEF LinkLost, adapter, DataOK, Contract
  <2>2. JobsOK'
    BY <1>0, <1>1 DEF LinkLost, adapter, JobsOK, Threads, Follows, Refers
  <2> QED
    BY <2>1, <2>2, TypeParts
<1>2. ASSUME NEW f \in Fault, Inject(f) PROVE TypeInv'
  <2>1. DataOK'
    BY <1>0, <1>2 DEF Inject, adapter, DataOK, Contract
  <2>2. JobsOK'
    BY <1>0, <1>2 DEF Inject, adapter, JobsOK, Threads, Follows, Refers
  <2> QED
    BY <2>1, <2>2, TypeParts
<1> QED
  BY <1>1, <1>2

\* The contract booked, and the one sold.
LEMMA BookTypes ==
  ASSUME TypeInv, NEW t \in Thread, job[t].next = "buy", UNCHANGED orders,
         NEW amount \in {Stake, Partial}, Book(t, amount)
  PROVE  /\ Grows /\ JobsOK' /\ position' \in Int
         /\ Len(contracts') = Len(contracts) + 1
<1> DEFINE o == orders[job[t].order]
           n == Len(contracts) + 1
           k == [side |-> o.side, symbol |-> o.symbol, amount |-> amount,
                 order |-> job[t].order, sold |-> FALSE, seller |-> 0]
           j == [job[t] EXCEPT !.wire = "ok", !.contract = n]
<1>0. DataOK /\ JobsOK
  BY TypeParts
<1>1. job[t] \in Job /\ Follows(job[t]) /\ Refers(job[t])
  BY <1>0 DEF JobsOK, Threads
<1>2. job[t].op = "order" /\ job[t].order \in 1..Len(orders)
  <2>1. job[t].op = "order"
    BY <1>1 DEF Follows, Job
  <2>2. job[t].order # 0 /\ job[t].order \in 0..Len(orders) /\ Len(orders) \in Nat
    BY <1>0, <1>1, <2>1 DEF Follows, Refers, DataOK
  <2> QED
    BY <2>1, <2>2
<1>3. o \in Order
  BY <1>0, <1>2 DEF DataOK
<1>4. k \in Contract
  <2>1. o.side \in Side /\ o.symbol \in Symbol /\ job[t].order \in Nat
    BY <1>1, <1>3 DEF Order, Job
  <2> QED
    BY <2>1 DEF Contract
<1>5. /\ contracts' = Append(contracts, k)
      /\ contracts \in Seq(Contract)
  BY <1>0 DEF Book, DataOK
<1>6. Grows /\ Len(contracts') = n
  <2>1. contracts' \in Seq(Contract) /\ Len(contracts') = n /\ Len(contracts) \in Nat
    BY <1>4, <1>5
  <2> QED
    BY <1>0, <2>1 DEF Grows, DataOK
<1>7. position' \in Int
  BY <1>0, StakeAssumption DEF Book, DataOK, Signed
<1>8. /\ j \in Job /\ j.op = "order" /\ j.order = job[t].order
      /\ j.next = "buy" /\ j.contract = n /\ n # 0
  <2>1. n \in Nat /\ n # 0
    BY <1>0 DEF DataOK
  <2> HIDE DEF n
  <2> QED
    BY <1>1, <1>2, <2>1 DEF Job
<1>9. Follows(j)
  BY <1>1, <1>2, <1>8 DEF Follows
<1>10. t = "main"
  BY <1>0, <1>2 DEF Thread, JobsOK, Threads
<1>11. j.order \in 0..Len(orders') /\ j.contract \in 0..Len(contracts')
  <2>1. n \in 0..n
    BY <1>0 DEF DataOK
  <2> QED
    BY <1>1, <1>6, <1>8, <2>1 DEF Refers
<1>12. job' = [job EXCEPT ![t] = j]
  BY <1>0 DEF Book, JobsOK
<1>13. JobsOK'
  BY <1>6, <1>8, <1>9, <1>10, <1>11, <1>12, JobStep
<1> QED
  BY <1>6, <1>7, <1>13

LEMMA SellTypes ==
  ASSUME TypeInv, NEW t \in Thread, job[t].next = "sell", UNCHANGED orders,
         SellContract(t)
  PROVE  /\ Grows /\ JobsOK' /\ position' \in Int
         /\ Len(contracts') = Len(contracts)
<1> DEFINE c == job[t].contract
           k == contracts[c]
<1>0. DataOK /\ JobsOK
  BY TypeParts
<1>1. job[t] \in Job /\ c \in 1..Len(contracts)
  <2>1. c # 0 /\ c \in 0..Len(contracts) /\ Len(contracts) \in Nat /\ job[t] \in Job
    BY <1>0 DEF JobsOK, Threads, Follows, Refers, DataOK
  <2> QED
    BY <2>1
<1>2. k \in Contract /\ job[t].order \in Nat
  BY <1>0, <1>1 DEF DataOK, Job
<1>3. [k EXCEPT !.sold = TRUE, !.seller = job[t].order] \in Contract
  BY <1>2 DEF Contract
<1>4. contracts' = [contracts EXCEPT ![c] = [k EXCEPT !.sold = TRUE, !.seller = job[t].order]]
  BY <1>0, <1>1 DEF SellContract, DataOK
<1>5. contracts' \in Seq(Contract) /\ Len(contracts') = Len(contracts)
  BY <1>0, <1>1, <1>3, <1>4 DEF DataOK
<1>6. Grows
  BY <1>0, <1>5 DEF Grows, DataOK
<1>7. position' \in Int
  <2>1. k.amount \in Int /\ position \in Int
    <3>1. k.amount \in {Stake, Partial}
      BY <1>2 DEF Contract
    <3> HIDE DEF k
    <3> QED
      BY <1>0, <3>1, StakeAssumption DEF DataOK
  <2>2. position' = position + Signed(Opposite(k.side), k.amount) \/ position' = position
    BY DEF SellContract
  <2> HIDE DEF k
  <2> QED
    BY <2>1, <2>2 DEF Signed
<1>8. JobsOK'
  BY <1>6, ThreadAnswered DEF SellContract
<1> QED
  BY <1>5, <1>6, <1>7, <1>8

\* A request sent, over either transport.
LEMMA CallTypes == ASSUME TypeInv, NEW t \in Thread, Call(t) PROVE TypeInv'
<1>0. DataOK /\ JobsOK
  BY TypeParts
<1> DEFINE Same == UNCHANGED <<transport, background, account, isVirtual, tracked, safety,
                               orders, monitor>>
           Link == linkUp' \in BOOLEAN /\ authorized' \in BOOLEAN /\ faults' \subseteq Fault
<1>1. /\ Same
      /\ SimCall(t) \/ SocketCall(t) \/ CallDown(t)
  BY DEF Call, adapter
<1>2. Link
  BY <1>0, <1>1 DEF SimCall, SimAnswers, SimStreams, SimBuy, SocketCall, CallDown, DataOK
<1>3. \/ /\ UNCHANGED <<contracts, position>>
         /\ \E w \in {"ok", "error", "timeout", "down", "lost"} :
               Wire(t, w) /\ (job[t].next = "buy" => w # "ok")
      \/ /\ job[t].next = "buy"
         /\ \E amount \in {Stake, Partial} : Book(t, amount)
      \/ job[t].next = "sell" /\ SellContract(t)
  <2>1. CASE SimCall(t)
    BY <2>1 DEF SimCall, SimAnswers, SimStreams, SimBuy
  <2>2. CASE SocketCall(t)
    BY <2>2 DEF SocketCall, Lost
  <2>3. CASE CallDown(t)
    BY <2>3 DEF CallDown
  <2> QED
    BY <1>1, <2>1, <2>2, <2>3
<1>4. ASSUME Grows, position' \in Int PROVE DataOK'
  <2>1. tracked \in [Symbol -> 0..Len(contracts')]
    <3>1. Len(contracts) \in Nat /\ Len(contracts') \in Nat
      BY <1>0 DEF DataOK, Grows
    <3> QED
      BY <1>0, <1>4, <3>1 DEF DataOK, Grows
  <2>2. Len(orders') \in OrderNumber \cup {0}
    BY <1>0, <1>1 DEF DataOK
  <2> QED
    BY <1>0, <1>1, <1>2, <1>4, <2>1, <2>2 DEF DataOK, Grows, OrderNumber, Contract, Order
<1>5. ASSUME UNCHANGED <<contracts, position>>,
             NEW w \in {"ok", "error", "timeout", "down", "lost"},
             Wire(t, w), job[t].next = "buy" => w # "ok"
      PROVE  TypeInv'
  <2>1. Grows
    BY <1>1, <1>5, Unchanging
  <2>2. position' \in Int
    BY <1>0, <1>5 DEF DataOK
  <2> QED
    BY <1>4, <1>5, <2>1, <2>2, ThreadAnswered, TypeParts
<1>6. ASSUME job[t].next = "buy", NEW amount \in {Stake, Partial}, Book(t, amount)
      PROVE  TypeInv'
  <2>1. Grows /\ JobsOK' /\ position' \in Int
    BY <1>1, <1>6, BookTypes
  <2> QED
    BY <1>4, <2>1, TypeParts
<1>7. ASSUME job[t].next = "sell", SellContract(t) PROVE TypeInv'
  <2>1. Grows /\ JobsOK' /\ position' \in Int
    BY <1>1, <1>7, SellTypes
  <2> QED
    BY <1>4, <2>1, TypeParts
<1> QED
  BY <1>3, <1>5, <1>6, <1>7

\* A thread that connects, asks or pings keeps the types.
LEMMA LinkTypes ==
  ASSUME TypeInv, NEW t \in Thread,
         \/ Heartbeat(t) \/ Dial(t) \/ AnswerLost(t)
         \/ \E w \in Outcome : \/ AuthorizeReturns(t, w) \/ ConnectPingReturns(t, w)
                               \/ AskReturns(t, w) \/ HeartbeatReturns(t, w)
  PROVE  TypeInv'
<1>0. DataOK /\ JobsOK
  BY TypeParts
<1>1. UNCHANGED <<orders, contracts>>
  BY DEF Heartbeat, Dial, AnswerLost, AuthorizeReturns, ConnectPingReturns, AskReturns,
         HeartbeatReturns, broker, adapter
<1>2. Grows
  BY <1>1, Unchanging
<1>3. ASSUME JobsOK',
             UNCHANGED <<transport, background, account, faults, position, tracked>>,
             linkUp' \in BOOLEAN, authorized' \in BOOLEAN,
             isVirtual' \in {"unset", "yes", "no"},
             safety' \in {"DISCONNECTED", "CONNECTED"},
             monitor' \in [state : {"DISCONNECTED", "CONNECTING", "CONNECTED",
                                    "RECONNECTING", "FAILED"}, alive : BOOLEAN]
      PROVE  TypeInv'
  <2>1. DataOK'
    BY <1>0, <1>1, <1>3 DEF DataOK, Contract, Order, OrderNumber
  <2> QED
    BY <1>3, <2>1, TypeParts
<1>4. /\ linkUp \in BOOLEAN /\ authorized \in BOOLEAN
      /\ isVirtual \in {"unset", "yes", "no"}
      /\ safety \in {"DISCONNECTED", "CONNECTED"}
      /\ monitor \in [state : {"DISCONNECTED", "CONNECTING", "CONNECTED",
                               "RECONNECTING", "FAILED"}, alive : BOOLEAN]
      /\ \A w : AfterCall(w) \in {"DISCONNECTED", "CONNECTED"}
      /\ \A s \in {"CONNECTED", "RECONNECTING", "FAILED"} :
            [monitor EXCEPT !.state = s] \in
              [state : {"DISCONNECTED", "CONNECTING", "CONNECTED", "RECONNECTING", "FAILED"},
               alive : BOOLEAN]
  BY <1>0, SafetyType DEF DataOK
<1>5. /\ job[t] \in Job /\ Follows(job[t])
      /\ t = "monitor" => job[t].op \in {"none", "heartbeat", "reconnect"}
  BY <1>0 DEF JobsOK, Threads
<1>6. ASSUME job[t].next \in {"dial", "authorize"}
      PROVE  job[t].op \in {"start", "reconnect"}
  BY <1>5, <1>6 DEF Follows, Job
<1>7. CASE Heartbeat(t)
  <2>1. Follows(Doing("heartbeat", "ping", 0, 0)) /\ 0 \in 0..Len(orders') /\ 0 \in 0..Len(contracts')
    BY <1>2 DEF Doing, Follows, Grows
  <2>2. JobsOK'
    BY <1>2, <1>7, <2>1, ThreadStarts DEF Heartbeat, Request
  <2> QED
    BY <1>3, <1>4, <1>7, <2>2 DEF Heartbeat, broker, adapter
<1>8. CASE Dial(t)
  <2>1. JobsOK'
    <3>1. job[t].op \in {"start", "reconnect"}
      BY <1>6, <1>8 DEF Dial
    <3> QED
      BY <1>2, <1>8, <3>1, ThreadContinues, ThreadNotConnected DEF Dial
  <2>2. /\ linkUp' \in BOOLEAN /\ authorized' \in BOOLEAN
        /\ safety' \in {"DISCONNECTED", "CONNECTED"}
        /\ \/ UNCHANGED monitor
           \/ monitor' = [monitor EXCEPT !.state = "FAILED"]
    BY <1>4, <1>8 DEF Dial, NotConnected
  <2> QED
    BY <1>3, <1>4, <1>8, <2>1, <2>2 DEF Dial
<1>9. CASE AnswerLost(t)
  <2>1. Lost(t) \in {"timeout", "lost"}
    BY DEF Lost
  <2>2. JobsOK'
    BY <1>2, <1>9, <2>1, ThreadAnswered DEF AnswerLost
  <2> QED
    BY <1>3, <1>4, <1>9, <2>2 DEF AnswerLost, broker, adapter
<1>10. ASSUME NEW w \in Outcome, AuthorizeReturns(t, w) PROVE TypeInv'
  <2>1. job[t].op \in {"start", "reconnect"}
    BY <1>6, <1>10 DEF AuthorizeReturns, Comes
  <2>2. JobsOK'
    BY <1>2, <1>10, <2>1, ThreadContinues, ThreadNotConnected DEF AuthorizeReturns
  <2>3. /\ isVirtual' \in {"unset", "yes", "no"}
        /\ safety' \in {"DISCONNECTED", "CONNECTED"}
        /\ \/ UNCHANGED monitor
           \/ monitor' = [monitor EXCEPT !.state = "FAILED"]
    BY <1>4, <1>10 DEF AuthorizeReturns, NotConnected
  <2> QED
    BY <1>3, <1>4, <1>10, <2>2, <2>3 DEF AuthorizeReturns, broker
<1>11. ASSUME NEW w \in Outcome, ConnectPingReturns(t, w) PROVE TypeInv'
  <2>1. JobsOK'
    BY <1>2, <1>11, ThreadEnds, ThreadNotConnected DEF ConnectPingReturns, Connected
  <2>2. /\ safety' \in {"DISCONNECTED", "CONNECTED"}
        /\ \/ UNCHANGED monitor
           \/ \E s \in {"CONNECTED", "FAILED"} : monitor' = [monitor EXCEPT !.state = s]
    BY <1>4, <1>11 DEF ConnectPingReturns, Connected, NotConnected
  <2> QED
    BY <1>3, <1>4, <1>11, <2>1, <2>2 DEF ConnectPingReturns, broker
<1>12. ASSUME NEW w \in Outcome, AskReturns(t, w) PROVE TypeInv'
  <2>1. JobsOK'
    BY <1>2, <1>12, ThreadEnds DEF AskReturns
  <2>2. safety' \in {"DISCONNECTED", "CONNECTED"}
    BY <1>4, <1>12 DEF AskReturns
  <2> QED
    BY <1>3, <1>4, <1>12, <2>1, <2>2 DEF AskReturns, broker
<1>13. ASSUME NEW w \in Outcome, HeartbeatReturns(t, w) PROVE TypeInv'
  <2>0. safety' \in {"DISCONNECTED", "CONNECTED"}
    BY <1>4, <1>13 DEF HeartbeatReturns
  <2>1. CASE w = "ok"
    <3>1. Ends(t) /\ monitor' = [monitor EXCEPT !.state = "CONNECTED"]
      BY <1>13, <2>1 DEF HeartbeatReturns
    <3> QED
      BY <1>2, <1>3, <1>4, <1>13, <2>0, <3>1, ThreadEnds DEF HeartbeatReturns, broker
  <2>2. CASE w \in {"error", "down"}
    <3> DEFINE j == [Doing("reconnect", "dial", 0, 0) EXCEPT !.attempt = 1]
    <3>1. /\ job' = [job EXCEPT ![t] = j]
          /\ monitor' = [monitor EXCEPT !.state = "RECONNECTING"]
      BY <1>13, <2>2 DEF HeartbeatReturns
    <3>2. j = [op |-> "reconnect", next |-> "dial", wire |-> "unsent", order |-> 0,
               contract |-> 0, attempt |-> 1]
      BY DEF Doing
    <3>3. 1 \in 0..MaxReconnectAttempts
      BY BoundAssumption
    <3>4. j \in Job /\ Follows(j)
      BY <3>2, <3>3 DEF Job, Follows
    <3>5. j.op = "reconnect" /\ j.order \in 0..Len(orders') /\ j.contract \in 0..Len(contracts')
      BY <1>2, <3>2 DEF Grows
    <3> HIDE DEF j
    <3>6. JobsOK'
      BY <1>2, <3>1, <3>4, <3>5, JobStep
    <3> QED
      BY <1>3, <1>4, <1>13, <2>0, <3>1, <3>6 DEF HeartbeatReturns, broker
  <2>3. CASE w = "timeout"
    <3>1. Ends(t) /\ monitor' = [monitor EXCEPT !.alive = FALSE]
      BY <1>13, <2>3 DEF HeartbeatReturns
    <3>2. monitor' \in [state : {"DISCONNECTED", "CONNECTING", "CONNECTED",
                                 "RECONNECTING", "FAILED"}, alive : BOOLEAN]
      BY <1>4, <3>1
    <3> QED
      BY <1>2, <1>3, <1>4, <1>13, <2>0, <3>1, <3>2, ThreadEnds DEF HeartbeatReturns, broker
  <2> QED
    BY <2>1, <2>2, <2>3 DEF Outcome
<1> QED
  BY <1>7, <1>8, <1>9, <1>10, <1>11, <1>12, <1>13

\* The answer an operation on an order or a contract was waiting for.
LEMMA OrderTypes ==
  ASSUME TypeInv, NEW t \in Thread, NEW w \in Outcome,
         \/ ProposalReturns(t, w) \/ BuyReturns(t, w)
         \/ SellOrderReturns(t, w) \/ CloseReturns(t, w)
  PROVE  TypeInv'
<1>0. DataOK /\ JobsOK
  BY TypeParts
<1>1. UNCHANGED <<broker, isVirtual, monitor>> /\ safety' = AfterCall(w)
  BY DEF ProposalReturns, BuyReturns, SellOrderReturns, CloseReturns
<1>2. job[t] \in Job /\ Follows(job[t]) /\ Refers(job[t])
  BY <1>0 DEF JobsOK, Threads
<1>3. ASSUME job[t].op = "order" PROVE job[t].order \in 1..Len(orders)
  <2>1. job[t].order # 0 /\ job[t].order \in 0..Len(orders) /\ Len(orders) \in Nat
    BY <1>0, <1>2, <1>3 DEF Follows, Refers, DataOK
  <2> QED
    BY <2>1
<1>4. \/ UNCHANGED orders
      \/ /\ job[t].op = "order"
         /\ \E s \in {"SUBMITTED", "PARTIALLY_FILLED", "FILLED", "REJECTED", "TIMED_OUT"} :
               Settle(t, s)
  <2>1. ASSUME w # "ok"
        PROVE  Unanswered(w) \in {"SUBMITTED", "PARTIALLY_FILLED", "FILLED", "REJECTED", "TIMED_OUT"}
    BY <2>1 DEF Unanswered, Outcome
  <2>2. CASE ProposalReturns(t, w)
    BY <2>1, <2>2, <1>2 DEF ProposalReturns, Comes, Follows, Job
  <2>3. CASE BuyReturns(t, w)
    BY <2>1, <2>3, <1>2 DEF BuyReturns, Tracks, Comes, Follows, Job
  <2>4. CASE SellOrderReturns(t, w)
    BY <2>4 DEF SellOrderReturns
  <2>5. CASE CloseReturns(t, w)
    BY <2>5 DEF CloseReturns
  <2> QED
    BY <2>2, <2>3, <2>4, <2>5
<1>5. orders' \in Seq(Order) /\ Len(orders') = Len(orders)
  <2>1. ASSUME job[t].op = "order",
               NEW s \in {"SUBMITTED", "PARTIALLY_FILLED", "FILLED", "REJECTED", "TIMED_OUT"},
               Settle(t, s)
        PROVE  orders' \in Seq(Order) /\ Len(orders') = Len(orders)
    <3> DEFINE o == [orders[job[t].order] EXCEPT !.status = s]
    <3>1. orders[job[t].order] \in Order
      BY <1>0, <1>3, <2>1 DEF DataOK
    <3>2. o \in Order
      BY <3>1 DEF Order
    <3>3. orders' = [orders EXCEPT ![job[t].order] = o]
      BY <2>1, <1>0, <1>3 DEF Settle, DataOK
    <3> HIDE DEF o
    <3> QED
      BY <1>0, <1>3, <2>1, <3>2, <3>3 DEF DataOK
  <2> QED
    BY <1>0, <1>4, <2>1 DEF DataOK
<1>6. Grows
  BY <1>0, <1>1, <1>5 DEF Grows, DataOK, broker
<1>7. JobsOK'
  <2>1. Ends(t) \/ (Continues(t, "buy") /\ job[t].op = "order")
    BY <1>2 DEF ProposalReturns, BuyReturns, SellOrderReturns, CloseReturns, Tracks, Settle,
                Comes, Follows, Job
  <2> QED
    BY <1>6, <2>1, ThreadEnds, ThreadContinues
<1>8. tracked' \in [Symbol -> 0..Len(contracts)]
  <2>1. job[t].contract \in 0..Len(contracts) /\ 0 \in 0..Len(contracts)
    BY <1>0, <1>2 DEF Refers, DataOK
  <2>2. tracked \in [Symbol -> 0..Len(contracts)]
    BY <1>0 DEF DataOK
  <2>3. \/ UNCHANGED tracked
        \/ \E s, c : c \in {0, job[t].contract} /\ tracked' = [tracked EXCEPT ![s] = c]
    BY DEF ProposalReturns, BuyReturns, SellOrderReturns, CloseReturns, Tracks
  <2> QED
    BY <2>1, <2>2, <2>3
<1>9. safety' \in {"DISCONNECTED", "CONNECTED"}
  BY <1>1, SafetyType
<1>10. DataOK'
  BY <1>0, <1>1, <1>5, <1>8, <1>9 DEF DataOK, broker, OrderNumber, Contract, Order
<1> QED
  BY <1>7, <1>10, TypeParts

\* The types hold from the start, and every step keeps them.
LEMMA InitTypes == Init => TypeInv
<1> SUFFICES ASSUME Init PROVE TypeInv
  OBVIOUS
<1>1. DataOK
  <2>1. /\ orders \in Seq(Order) /\ Len(orders) = 0
        /\ contracts \in Seq(Contract) /\ Len(contracts) = 0
    BY DEF Init, TransportInit, AdapterInit
  <2>2. tracked \in [Symbol -> 0..Len(contracts)]
    BY <2>1 DEF Init, AdapterInit
  <2>3. faults \subseteq Fault /\ position \in Int
    BY DEF Init, TransportInit
  <2>4. linkUp \in BOOLEAN /\ authorized \in BOOLEAN
    BY DEF Init, TransportInit
  <2> QED
    BY <2>1, <2>2, <2>3, <2>4
       DEF Init, TransportInit, AdapterInit, MonitorInit, DataOK
<1>2. JobsOK
  <2>1. job = [t \in Thread |-> Idle]
    BY DEF Init
  <2>2. /\ Idle.op = "none" /\ Idle.order = 0 /\ Idle.contract = 0
        /\ 0 \in 0..Len(orders) /\ 0 \in 0..Len(contracts)
    BY DEF Idle, Doing, Init, AdapterInit, TransportInit
  <2> QED
    BY <2>1, <2>2, IdleJob DEF JobsOK, Threads, Thread, Refers
<1> QED
  BY <1>1, <1>2, TypeParts

LEMMA NextTypes == TypeInv /\ [Next]_vars => TypeInv'
<1> SUFFICES ASSUME TypeInv, [Next]_vars PROVE TypeInv'
  OBVIOUS
<1>1. CASE UNCHANGED vars
  BY <1>1 DEF vars, TypeInv, TypeOK, Threads, Follows, OrderNumber, Contract, Order
<1>2. CASE Next
  <2>1. ASSUME NEW t \in Thread, Heartbeat(t) \/ Step(t) \/ AnswerLost(t) PROVE TypeInv'
    BY <2>1, LinkTypes, CallTypes, OrderTypes DEF Step, Returns
  <2> QED
    BY <1>2, <2>1, MainTypes, TransportTypes DEF Next
<1> QED
  BY <1>1, <1>2

\* Every variable has the values the code gives it, and what a thread or the
\* adapter refers to exists, whatever the transport, the faults and the threads do.
THEOREM BrokerTypes == Spec => []TypeOK
<1>1. TypeInv => TypeOK
  BY DEF TypeInv
<1> QED
  BY <1>1, InitTypes, NextTypes, PTL DEF Spec

-----------------------------------------------------------------------------
(* What the broker did and what the caller is told.                        *)

\* The orders the broker has carried out.
Done == Executed \ {0}

\* The order in progress is the last one; until its request is sent, and when it
\* was refused, it has not been carried out; once it was answered it has.
Agrees ==
    /\ Done \subseteq 1..Len(orders)
    /\ \A c \in DOMAIN contracts : ~contracts[c].sold => contracts[c].seller = 0
    /\ job["main"].op = "order" =>
          /\ job["main"].order = Len(orders)
          /\ orders[job["main"].order].status = "SUBMITTED"
          /\ (job["main"].next = "proposal" \/ job["main"].wire \in {"unsent", "error"})
                => job["main"].order \notin Done
          /\ (job["main"].next # "proposal" /\ job["main"].wire = "ok")
                => job["main"].order \in Done

OrderInv == TypeInv /\ Agrees

\* The steps of an order or of a close, and those that have nothing to do with
\* either.
OffOrders == /\ UNCHANGED <<orders, contracts, tracked>>
         /\ \/ job'["main"] = job["main"]
            \/ {job["main"].op, job'["main"].op} \cap {"order", "close"} = {}
            \/ /\ job["main"].op \in {"order", "close"} /\ job["main"].wire # "lost"
               /\ \E w \in {"ok", "error", "timeout", "down", "lost"} :
                     /\ Wire("main", w)
                     /\ w = "error" => job["main"].wire = "unsent"
                     /\ w = "ok" => job["main"].next = "proposal"
            \/ /\ job["main"].op = "order" /\ job["main"].next = "proposal"
               /\ Continues("main", "buy")

BeginsClose ==
    /\ UNCHANGED <<orders, contracts, tracked>>
    /\ job["main"].op = "none"
    /\ \E s \in Symbol :
          /\ tracked[s] # 0
          /\ job' = [job EXCEPT !["main"] = Doing("close", "sell", 0, tracked[s])]

EndsClose ==
    /\ UNCHANGED <<orders, contracts>>
    /\ job["main"].op = "close"
    /\ Ends("main")
    /\ \/ UNCHANGED tracked
       \/ /\ job["main"].wire = "ok"
          /\ tracked' = [tracked EXCEPT ![contracts[job["main"].contract].symbol] = 0]

Places == \E p \in Placed :
    /\ job["main"].op = "none"
    /\ orders' = Append(orders, NewOrder(p[1], p[2]))
    /\ Len(orders) < MaxOrders + MaxOrdersBeside
    /\ UNCHANGED <<contracts, tracked>>
    /\ \/ job' = [job EXCEPT !["main"] = Doing("order", "proposal", Len(orders) + 1, 0)]
       \/ /\ tracked[Main] # 0
          /\ job' = [job EXCEPT !["main"] =
                        Doing("order", "sell", Len(orders) + 1, tracked[Main])]

Carries == /\ UNCHANGED <<orders, tracked>>
           /\ job["main"].wire = "unsent"
           /\ job'["main"].wire = "ok"
           /\ \A f \in {"op", "next", "order"} : job'["main"][f] = job["main"][f]
           /\ \/ /\ job["main"].next = "buy"
                 /\ \E amount \in {Stake, Partial} : Book("main", amount)
              \/ job["main"].next = "sell" /\ SellContract("main")

Tells == \E s \in {"SUBMITTED", "PARTIALLY_FILLED", "FILLED", "REJECTED", "TIMED_OUT"} :
    /\ job["main"].op = "order"
    /\ Settle("main", s)
    /\ UNCHANGED contracts
    /\ s = "REJECTED" => job["main"].wire = "error"
    /\ IF s \in {"PARTIALLY_FILLED", "FILLED"}
         THEN /\ job["main"].wire = "ok"
              /\ \/ /\ job["main"].next = "buy"
                    /\ tracked' = [tracked EXCEPT ![orders[job["main"].order].symbol] =
                                                  job["main"].contract]
                 \/ /\ job["main"].next = "sell"
                    /\ tracked' = [tracked EXCEPT ![Main] = 0]
         ELSE UNCHANGED tracked

LEMMA Shapes ==
  ASSUME TypeInv, [Next]_vars
  PROVE  OffOrders \/ BeginsClose \/ EndsClose \/ Places \/ Carries \/ Tells
<1> USE DEF Thread
<1>0. DataOK /\ JobsOK
  BY TypeParts
<1>1. CASE UNCHANGED vars
  BY <1>1 DEF vars, OffOrders
<1>2. CASE Start \/ Disconnect \/ ForceDrop \/ StopBackground
           \/ \E r \in {"ask", "stream"} : Ask(r)
  <2>1. UNCHANGED <<orders, contracts, tracked>>
    BY <1>2 DEF Start, Disconnect, ForceDrop, StopBackground, Ask, broker, adapter
  <2>2. \/ Begins(Idle) \/ Begins(Doing("start", "dial", 0, 0))
        \/ \E r : Begins(Doing("ask", r, 0, 0))
    BY <1>2 DEF Start, Disconnect, ForceDrop, StopBackground, Ask
  <2>3. {job["main"].op, job'["main"].op} \cap {"order", "close"} = {}
    <3>1. job["main"].op = "none"
      BY <2>2 DEF Begins, Idle, Doing
    <3>2. PICK j : job' = [job EXCEPT !["main"] = j] /\ j.op \notin {"order", "close"}
      BY <2>2 DEF Begins, Idle, Doing
    <3> QED
      BY <1>0, <3>1, <3>2 DEF JobsOK
  <2> QED
    BY <2>1, <2>3 DEF OffOrders
<1>3. ASSUME NEW p \in Placed, SubmitOrder(p[1], p[2]) \/ SubmitIntent(p[1], p[2])
      PROVE  Places
  <2>1. Len(orders) < MaxOrders + MaxOrdersBeside
    <3>1. Len(orders) < (IF background THEN MaxOrdersBeside ELSE MaxOrders)
      BY <1>3 DEF SubmitOrder, SubmitIntent
    <3>2. Len(orders) \in Nat
      BY <1>0 DEF DataOK
    <3> QED
      BY <3>1, <3>2, BoundAssumption
  <2>2. job["main"].op = "none"
    BY <1>3 DEF SubmitOrder, SubmitIntent, Begins, Idle, Doing
  <2>3. \/ job' = [job EXCEPT !["main"] = Doing("order", "proposal", Len(orders) + 1, 0)]
        \/ /\ tracked[Main] # 0
           /\ job' = [job EXCEPT !["main"] =
                         Doing("order", "sell", Len(orders) + 1, tracked[Main])]
    BY <1>3 DEF SubmitOrder, SubmitIntent, Begins
  <2> QED
    BY <1>3, <2>1, <2>2, <2>3 DEF Places, SubmitOrder, SubmitIntent, broker
<1>6. ASSUME NEW s \in Symbol, ClosePosition(s) PROVE BeginsClose
  <2>1. job["main"].op = "none"
    BY <1>6 DEF ClosePosition, Begins, Idle, Doing
  <2>2. job' = [job EXCEPT !["main"] = Doing("close", "sell", 0, tracked[s])]
    BY <1>6 DEF ClosePosition, Begins
  <2> QED
    BY <1>6, <2>1, <2>2 DEF ClosePosition, BeginsClose, broker, adapter
<1>4. CASE LinkLost \/ \E f \in Fault : Inject(f)
  BY <1>4 DEF LinkLost, Inject, adapter, OffOrders
<1>5. ASSUME NEW t \in Thread, Heartbeat(t) \/ Step(t) \/ AnswerLost(t)
      PROVE  OffOrders \/ EndsClose \/ Carries \/ Tells
  <2>0. /\ job \in [Thread -> Job] /\ Follows(job[t]) /\ Follows(job["main"])
        /\ t = "monitor" => job[t].op \in {"none", "heartbeat", "reconnect"}
    BY <1>0 DEF JobsOK, Threads
  <2>1. ASSUME UNCHANGED <<orders, contracts, tracked>>,
               {job[t].op, job'[t].op} \cap {"order", "close"} = {}, \A u \in Thread \ {t} : job'[u] = job[u]
        PROVE  OffOrders
    BY <2>1 DEF OffOrders
  <2>2. ASSUME job[t].next \in {"dial", "authorize"} \/ job[t].op \in {"start", "reconnect"},
               NotConnected(t)
        PROVE  job'[t].op \notin {"order", "close"} /\ \A u \in Thread \ {t} : job'[u] = job[u]
    <3>1. job[t].op \in {"start", "reconnect"}
      BY <2>0, <2>2 DEF Follows, Job
    <3>2. CASE job[t].op = "reconnect" /\ job[t].attempt < MaxReconnectAttempts
      BY <2>0, <2>2, <3>2 DEF NotConnected, Doing
    <3>3. CASE ~(job[t].op = "reconnect" /\ job[t].attempt < MaxReconnectAttempts)
      BY <2>0, <2>2, <3>3 DEF NotConnected, Ends, Idle, Doing
    <3> QED
      BY <3>2, <3>3
  <2>3. ASSUME NEW next, Continues(t, next)
        PROVE  job'[t].op = job[t].op /\ \A u \in Thread \ {t} : job'[u] = job[u]
    <3>1. job' = [job EXCEPT ![t] = [job[t] EXCEPT !.next = next, !.wire = "unsent"]]
      BY <2>0, <2>3 DEF Continues
    <3> QED
      BY <2>0, <3>1 DEF Job
  <2>4. ASSUME NEW w, Wire(t, w)
        PROVE  job'[t].op = job[t].op /\ \A u \in Thread \ {t} : job'[u] = job[u]
    <3>1. job' = [job EXCEPT ![t] = [job[t] EXCEPT !.wire = w]]
      BY <2>0, <2>4 DEF Wire
    <3> QED
      BY <2>0, <3>1 DEF Job
  <2>5. ASSUME Ends(t)
        PROVE  job'[t].op \notin {"order", "close"} /\ \A u \in Thread \ {t} : job'[u] = job[u]
    BY <2>0, <2>5 DEF Ends, Idle, Doing
  <2>6. CASE Heartbeat(t)
    <3>1. UNCHANGED <<orders, contracts, tracked>> /\ job[t].op \notin {"order", "close"}
      BY <2>6 DEF Heartbeat, broker, adapter, Idle, Doing
    <3>2. job'[t].op \notin {"order", "close"} /\ \A u \in Thread \ {t} : job'[u] = job[u]
      BY <2>0, <2>6 DEF Heartbeat, Doing
    <3> QED
      BY <2>1, <3>1, <3>2
  <2>7. CASE Dial(t)
    <3>1. UNCHANGED <<orders, contracts, tracked>> /\ job[t].op \notin {"order", "close"}
      BY <2>0, <2>7 DEF Dial, Follows, Job
    <3>2. job'[t].op \notin {"order", "close"} /\ \A u \in Thread \ {t} : job'[u] = job[u]
      BY <2>2, <2>3, <2>7, <3>1 DEF Dial
    <3> QED
      BY <2>1, <3>1, <3>2
  <2>8. CASE AnswerLost(t)
    <3>1. UNCHANGED <<orders, contracts, tracked>>
      BY <2>8 DEF AnswerLost, broker, adapter
    <3>2. PICK w \in {"timeout", "lost"} : Wire(t, w)
      BY <2>8 DEF AnswerLost, Lost
    <3>3. CASE t = "main" /\ job[t].op \in {"order", "close"}
      BY <2>8, <3>1, <3>2, <3>3 DEF AnswerLost, OffOrders
    <3>4. CASE t = "main" /\ job[t].op \notin {"order", "close"}
      BY <2>1, <2>4, <3>1, <3>2, <3>4
    <3>5. CASE t = "monitor"
      BY <2>0, <2>1, <2>4, <3>1, <3>2, <3>5
    <3> QED
      BY <3>3, <3>4, <3>5
  <2>9. CASE Call(t)
    <3>1. UNCHANGED <<orders, tracked>> /\ job[t].wire = "unsent"
      BY <2>9 DEF Call, adapter
    <3>2. \/ /\ UNCHANGED contracts
             /\ \E w \in {"ok", "error", "timeout", "down", "lost"} :
                   Wire(t, w) /\ (w = "ok" => job[t].next \notin {"buy", "sell"})
          \/ /\ job[t].next = "buy"
             /\ \E amount \in {Stake, Partial} : Book(t, amount)
          \/ job[t].next = "sell" /\ SellContract(t)
      <4>1. SimCall(t) \/ SocketCall(t) \/ CallDown(t)
        BY <2>9 DEF Call
      <4>2. CASE SimCall(t)
        BY <4>2 DEF SimCall, SimAnswers, SimStreams, SimBuy
      <4>3. CASE SocketCall(t)
        BY <4>3 DEF SocketCall, Lost
      <4>4. CASE CallDown(t)
        BY <4>4 DEF CallDown
      <4> QED
        BY <4>1, <4>2, <4>3, <4>4
    <3>3. ASSUME UNCHANGED contracts, NEW w \in {"ok", "error", "timeout", "down", "lost"},
                 Wire(t, w), w = "ok" => job[t].next \notin {"buy", "sell"}
          PROVE  OffOrders
      <4>1. CASE t = "main" /\ job[t].op \in {"order", "close"}
        <5>1. w = "ok" => job["main"].next = "proposal"
          BY <2>0, <3>3, <4>1 DEF Follows
        <5> QED
          BY <3>1, <3>3, <4>1, <5>1 DEF OffOrders
      <4>2. CASE t = "main" /\ job[t].op \notin {"order", "close"}
        BY <2>1, <2>4, <3>1, <3>3, <4>2
      <4>3. CASE t = "monitor"
        BY <2>0, <2>1, <2>4, <3>1, <3>3, <4>3
      <4> QED
        BY <4>1, <4>2, <4>3
    <3>4. ASSUME job[t].next = "buy", NEW amount \in {Stake, Partial}, Book(t, amount)
          PROVE  Carries
      <4>1. t = "main"
        BY <2>0, <3>4 DEF Follows, Job
      <4>2. job' = [job EXCEPT ![t] = [job[t] EXCEPT !.wire = "ok", !.contract = Len(contracts) + 1]]
        BY <2>0, <3>4 DEF Book
      <4>3. /\ job'["main"].wire = "ok"
            /\ job'["main"].op = job["main"].op /\ job'["main"].next = job["main"].next
            /\ job'["main"].order = job["main"].order
        BY <2>0, <4>1, <4>2 DEF Job
      <4> QED
        BY <3>1, <3>4, <4>1, <4>3 DEF Carries
    <3>5. ASSUME job[t].next = "sell", SellContract(t) PROVE Carries
      <4>1. t = "main"
        BY <2>0, <3>5 DEF Follows, Job
      <4>2. job' = [job EXCEPT ![t] = [job[t] EXCEPT !.wire = "ok"]]
        BY <2>0, <3>5 DEF SellContract, Wire
      <4>3. /\ job'["main"].wire = "ok"
            /\ job'["main"].op = job["main"].op /\ job'["main"].next = job["main"].next
            /\ job'["main"].order = job["main"].order
        BY <2>0, <4>1, <4>2 DEF Job
      <4> QED
        BY <3>1, <3>5, <4>1, <4>3 DEF Carries
    <3> QED
      BY <3>2, <3>3, <3>4, <3>5
  <2>10. ASSUME NEW w \in Outcome,
                \/ AuthorizeReturns(t, w) \/ ConnectPingReturns(t, w)
                \/ AskReturns(t, w) \/ HeartbeatReturns(t, w)
         PROVE  OffOrders
    <3>1. UNCHANGED <<orders, contracts, tracked>> /\ job[t].op \notin {"order", "close"}
      BY <2>0, <2>10 DEF AuthorizeReturns, ConnectPingReturns, AskReturns, HeartbeatReturns,
                         Comes, Follows, broker
    <3>2. job'[t].op \notin {"order", "close"} /\ \A u \in Thread \ {t} : job'[u] = job[u]
      <4>1. CASE AuthorizeReturns(t, w)
        BY <2>2, <2>3, <3>1, <4>1 DEF AuthorizeReturns, Comes
      <4>2. CASE ConnectPingReturns(t, w)
        BY <2>2, <2>5, <4>2 DEF ConnectPingReturns, Connected
      <4>3. CASE AskReturns(t, w)
        BY <2>5, <4>3 DEF AskReturns
      <4>4. CASE HeartbeatReturns(t, w)
        <5>1. \/ Ends(t)
              \/ job' = [job EXCEPT ![t] = [Doing("reconnect", "dial", 0, 0)
                                              EXCEPT !.attempt = 1]]
          BY <4>4 DEF HeartbeatReturns, Outcome
        <5> QED
          BY <2>0, <2>5, <5>1 DEF Doing
      <4> QED
        BY <2>10, <4>1, <4>2, <4>3, <4>4
    <3> QED
      BY <2>1, <3>1, <3>2
  <2>11. ASSUME NEW w \in Outcome,
                \/ ProposalReturns(t, w) \/ BuyReturns(t, w) \/ SellOrderReturns(t, w)
         PROVE  OffOrders \/ Tells
    <3>1. t = "main" /\ job[t].op = "order" /\ UNCHANGED contracts
      BY <2>0, <2>11 DEF ProposalReturns, BuyReturns, SellOrderReturns, Comes, Follows, Job, broker
    <3>2. w \in {"ok", "error"} => job[t].wire = w
      BY <2>11 DEF ProposalReturns, BuyReturns, SellOrderReturns, Comes
    <3>3. ASSUME w # "ok"
          PROVE  /\ Unanswered(w) \in {"SUBMITTED", "REJECTED", "TIMED_OUT"}
                 /\ Unanswered(w) = "REJECTED" => w = "error"
      BY <3>3 DEF Unanswered, Outcome
    <3>4. CASE ProposalReturns(t, w)
      <4>1. CASE w = "ok"
        BY <3>1, <3>4, <4>1 DEF ProposalReturns, Comes, OffOrders
      <4>2. CASE w # "ok"
        BY <3>1, <3>2, <3>3, <3>4, <4>2 DEF ProposalReturns, Tells
      <4> QED
        BY <4>1, <4>2
    <3>5. CASE BuyReturns(t, w)
      <4>1. CASE w = "ok"
        BY <3>1, <3>2, <3>5, <4>1 DEF BuyReturns, Tracks, Comes, Tells
      <4>2. CASE w # "ok"
        BY <3>1, <3>2, <3>3, <3>5, <4>2 DEF BuyReturns, Tells
      <4> QED
        BY <4>1, <4>2
    <3>6. CASE SellOrderReturns(t, w)
      <4>1. job[t].next = "sell"
        BY <3>6 DEF SellOrderReturns, Comes
      <4>2. CASE w = "ok"
        BY <3>1, <3>2, <3>6, <4>1, <4>2 DEF SellOrderReturns, Tells
      <4>3. CASE w = "error"
        BY <3>1, <3>2, <3>6, <4>3 DEF SellOrderReturns, Tells
      <4>4. CASE w \in {"timeout", "down"}
        BY <3>1, <3>6, <4>4 DEF SellOrderReturns, Tells
      <4> QED
        BY <4>2, <4>3, <4>4 DEF Outcome
    <3> QED
      BY <2>11, <3>4, <3>5, <3>6
  <2>12. ASSUME NEW w \in Outcome, CloseReturns(t, w) PROVE EndsClose
    <3>1. t = "main" /\ job[t].op = "close" /\ Ends(t) /\ UNCHANGED <<orders, contracts>>
      BY <2>0, <2>12 DEF CloseReturns, broker
    <3>2. CASE w = "ok"
      BY <2>12, <3>1, <3>2 DEF CloseReturns, Comes, EndsClose
    <3>3. CASE w # "ok"
      BY <2>12, <3>1, <3>3 DEF CloseReturns, EndsClose
    <3> QED
      BY <3>2, <3>3
  <2> QED
    BY <1>5, <2>6, <2>7, <2>8, <2>9, <2>10, <2>11, <2>12 DEF Step, Returns
<1> QED
  BY <1>1, <1>2, <1>3, <1>4, <1>5, <1>6 DEF Next

\* A contract that is booked or sold for an order adds that order to those carried
\* out; a contract the caller closes adds none.
LEMMA CarriesOut ==
  ASSUME OrderInv, Carries
  PROVE  /\ Done' = Done \cup ({job["main"].order} \ {0})
         /\ \A c \in DOMAIN contracts' : ~contracts'[c].sold => contracts'[c].seller = 0
<1> DEFINE o == job["main"].order
<1>0. DataOK /\ JobsOK /\ "main" \in Thread
  BY TypeParts DEF OrderInv, Thread
<1>1. \A c \in DOMAIN contracts : ~contracts[c].sold => contracts[c].seller = 0
  BY DEF OrderInv, Agrees
<1>2. ASSUME NEW amount \in {Stake, Partial}, Book("main", amount)
      PROVE  /\ Done' = Done \cup ({o} \ {0})
             /\ \A c \in DOMAIN contracts' : ~contracts'[c].sold => contracts'[c].seller = 0
  <2> DEFINE k == [side |-> orders[o].side, symbol |-> orders[o].symbol, amount |-> amount,
                   order |-> o, sold |-> FALSE, seller |-> 0]
             n == Len(contracts) + 1
  <2>1. contracts' = Append(contracts, k)
    BY <1>2 DEF Book
  <2>2. k.order = o /\ k.seller = 0
    OBVIOUS
  <2> HIDE DEF k
  <2>3. /\ DOMAIN contracts' = DOMAIN contracts \cup {n}
        /\ n \notin DOMAIN contracts
        /\ contracts'[n] = k
        /\ \A c \in DOMAIN contracts : contracts'[c] = contracts[c]
    BY <1>0, <2>1 DEF DataOK
  <2>4. Executed' = Executed \cup {o, 0}
    BY <2>2, <2>3 DEF Executed
  <2> QED
    BY <1>1, <2>2, <2>3, <2>4 DEF Done
<1>3. ASSUME job["main"].next = "sell", SellContract("main")
      PROVE  /\ Done' = Done \cup ({o} \ {0})
             /\ \A c \in DOMAIN contracts' : ~contracts'[c].sold => contracts'[c].seller = 0
  <2> DEFINE x == job["main"].contract
  <2>1. x \in DOMAIN contracts
    <3>1. x # 0 /\ x \in 0..Len(contracts) /\ Len(contracts) \in Nat
      BY <1>0, <1>3 DEF JobsOK, Threads, Follows, Refers, DataOK
    <3> QED
      BY <1>0, <3>1 DEF DataOK
  <2>2. contracts[x] \in Contract
    BY <1>0, <2>1 DEF DataOK
  <2>3. /\ DOMAIN contracts' = DOMAIN contracts
        /\ contracts'[x] = [contracts[x] EXCEPT !.sold = TRUE, !.seller = o]
        /\ \A c \in DOMAIN contracts \ {x} : contracts'[c] = contracts[c]
        /\ ~contracts[x].sold
    BY <1>0, <1>3, <2>1 DEF SellContract, DataOK
  <2>4. /\ contracts'[x].order = contracts[x].order /\ contracts'[x].seller = o
        /\ contracts'[x].sold
    BY <2>2, <2>3 DEF Contract
  <2>5. contracts[x].seller = 0
    BY <1>1, <2>1, <2>3
  <2>6. Executed' \ {0} = (Executed \ {0}) \cup ({o} \ {0})
    <3>1. \A e : e \in Executed <=>
                 \E c \in DOMAIN contracts : e = contracts[c].order \/ e = contracts[c].seller
      BY DEF Executed
    <3>2. \A e : e \in Executed' <=>
                 \E c \in DOMAIN contracts : e = contracts'[c].order \/ e = contracts'[c].seller
      BY <2>3 DEF Executed
    <3>3. ASSUME NEW e, e # 0
          PROVE  e \in Executed' <=> e \in Executed \/ e = o
      <4>1. ASSUME NEW c \in DOMAIN contracts,
                   e = contracts'[c].order \/ e = contracts'[c].seller
            PROVE  e \in Executed \/ e = o
        <5>1. CASE c = x
          BY <2>4, <3>1, <4>1, <5>1
        <5>2. CASE c # x
          <6>1. contracts'[c] = contracts[c]
            BY <2>3, <5>2
          <6> QED
            BY <3>1, <4>1, <6>1
        <5> QED
          BY <5>1, <5>2
      <4>2. ASSUME NEW c \in DOMAIN contracts,
                   e = contracts[c].order \/ e = contracts[c].seller
            PROVE  e \in Executed'
        <5>1. CASE c = x
          <6>1. e = contracts'[c].order
            BY <2>4, <2>5, <3>3, <4>2, <5>1
          <6> QED
            BY <3>2, <6>1
        <5>2. CASE c # x
          <6>1. contracts'[c] = contracts[c]
            BY <2>3, <5>2
          <6> QED
            BY <3>2, <4>2, <6>1
        <5> QED
          BY <5>1, <5>2
      <4>3. e = o => e \in Executed'
        BY <2>1, <2>4, <3>2
      <4> QED
        BY <3>1, <3>2, <4>1, <4>2, <4>3
    <3> QED
      BY <3>3
  <2>7. ASSUME NEW c \in DOMAIN contracts', ~contracts'[c].sold PROVE contracts'[c].seller = 0
    <3>1. c # x
      BY <2>4, <2>7
    <3>2. contracts'[c] = contracts[c] /\ c \in DOMAIN contracts
      BY <2>3, <3>1
    <3> QED
      BY <1>1, <2>7, <3>2
  <2> QED
    BY <2>6, <2>7 DEF Done
<1> QED
  BY <1>2, <1>3 DEF Carries

\* What a thread does when it is idle or between two requests of an order.
LEMMA InitAgrees == Init => Agrees
<1> SUFFICES ASSUME Init PROVE Agrees
  OBVIOUS
<1>1. contracts = <<>> /\ orders = <<>> /\ job["main"] = Idle
  BY DEF Init, TransportInit, AdapterInit, Thread
<1>2. Executed = {}
  BY <1>1 DEF Executed
<1> QED
  BY <1>1, <1>2 DEF Agrees, Done, Idle, Doing

LEMMA NextAgrees == OrderInv /\ [Next]_vars => Agrees'
<1> SUFFICES ASSUME OrderInv, [Next]_vars PROVE Agrees'
  OBVIOUS
<1> DEFINE m == job["main"]
<1>0. /\ DataOK /\ JobsOK /\ TypeInv /\ "main" \in Thread
      /\ job \in [Thread -> Job] /\ m \in Job /\ Follows(m) /\ Refers(m)
  BY TypeParts DEF OrderInv, Thread, JobsOK, Threads
<1>1. CASE OffOrders
  <2>1. Done' = Done /\ orders' = orders /\ contracts' = contracts
    BY <1>1 DEF OffOrders, Done, Executed
  <2>2. CASE (m.op # "order" /\ job'["main"].op # "order") \/ job'["main"] = m
    BY <2>1, <2>2 DEF OrderInv, Agrees
  <2>3. ASSUME m.op \in {"order", "close"}, m.wire # "lost",
               NEW w \in {"ok", "error", "timeout", "down", "lost"}, Wire("main", w),
               w = "error" => m.wire = "unsent", w = "ok" => m.next = "proposal"
        PROVE  Agrees'
    <3>1. job' = [job EXCEPT !["main"] = [m EXCEPT !.wire = w]]
      BY <1>0, <2>3 DEF Wire
    <3>2. /\ job'["main"].op = m.op /\ job'["main"].order = m.order
          /\ job'["main"].next = m.next /\ job'["main"].wire = w
      BY <1>0, <2>3, <3>1 DEF Job
    <3> QED
      BY <2>1, <2>3, <3>2 DEF OrderInv, Agrees
  <2>4. CASE m.op = "order" /\ m.next = "proposal" /\ Continues("main", "buy")
    <3>1. job' = [job EXCEPT !["main"] = [m EXCEPT !.next = "buy", !.wire = "unsent"]]
      BY <1>0, <2>4 DEF Continues
    <3>2. /\ job'["main"].op = "order" /\ job'["main"].order = m.order
          /\ job'["main"].next = "buy" /\ job'["main"].wire = "unsent"
      BY <1>0, <2>4, <3>1 DEF Job
    <3> QED
      BY <2>1, <2>4, <3>2 DEF OrderInv, Agrees
  <2> QED
    BY <1>1, <2>2, <2>3, <2>4 DEF OffOrders
<1>2. CASE Places
  <2>1. PICK p \in Placed, next \in {"proposal", "sell"}, c \in {0, tracked[Main]} :
            /\ orders' = Append(orders, NewOrder(p[1], p[2]))
            /\ UNCHANGED contracts
            /\ job' = [job EXCEPT !["main"] = Doing("order", next, Len(orders) + 1, c)]
    BY <1>2 DEF Places
  <2> DEFINE n == Len(orders) + 1
             new == NewOrder(p[1], p[2])
  <2>2. new \in Order /\ new.status = "SUBMITTED"
    BY OrderAssumption DEF NewOrder, Order, Side, Symbol
  <2> HIDE DEF new
  <2>3. /\ orders \in Seq(Order) /\ Len(orders) \in Nat
        /\ Len(orders') = n /\ orders'[n] = new
    BY <1>0, <2>1, <2>2 DEF DataOK, new
  <2>4. Done' = Done /\ Done \subseteq 1..Len(orders) /\ n \notin Done
    BY <2>1, <2>3 DEF OrderInv, Agrees, Done, Executed
  <2>5. /\ job'["main"].op = "order" /\ job'["main"].order = n
        /\ job'["main"].next = next /\ job'["main"].wire = "unsent"
    BY <1>0, <2>1 DEF Doing
  <2>6. Done' \subseteq 1..Len(orders')
    BY <2>3, <2>4
  <2>7. \A d \in DOMAIN contracts' : ~contracts'[d].sold => contracts'[d].seller = 0
    BY <2>1 DEF OrderInv, Agrees
  <2> QED
    BY <2>2, <2>3, <2>4, <2>5, <2>6, <2>7 DEF Agrees
<1>3. CASE Carries
  <2>1. /\ Done' = Done \cup ({m.order} \ {0})
        /\ \A c \in DOMAIN contracts' : ~contracts'[c].sold => contracts'[c].seller = 0
    BY <1>3, CarriesOut
  <2>2. /\ orders' = orders /\ job'["main"].op = m.op /\ job'["main"].order = m.order
        /\ job'["main"].next = m.next /\ job'["main"].wire = "ok"
        /\ m.next \in {"buy", "sell"}
    BY <1>3 DEF Carries
  <2>3. m.op = "order" => m.order # 0
    BY <1>0 DEF Follows
  <2>4. Done' \subseteq 1..Len(orders')
    <3>1. m.order \in 0..Len(orders) /\ Len(orders) \in Nat
      BY <1>0 DEF Refers, DataOK
    <3>2. {m.order} \ {0} \subseteq 1..Len(orders)
      BY <3>1
    <3> QED
      BY <2>1, <2>2, <3>2 DEF OrderInv, Agrees
  <2> QED
    BY <2>1, <2>2, <2>3, <2>4 DEF OrderInv, Agrees
<1>4. CASE Tells
  <2>1. Done' = Done /\ contracts' = contracts
    BY <1>4 DEF Tells, Done, Executed
  <2>2. job'["main"].op # "order"
    BY <1>0, <1>4 DEF Tells, Settle, Ends, Idle, Doing
  <2>3. Len(orders') = Len(orders)
    BY <1>0, <1>4 DEF Tells, Settle, DataOK
  <2> QED
    BY <2>1, <2>2, <2>3 DEF OrderInv, Agrees
<1>5. CASE BeginsClose \/ EndsClose
  <2>1. Done' = Done /\ orders' = orders /\ contracts' = contracts
    BY <1>5 DEF BeginsClose, EndsClose, Done, Executed
  <2>2. job'["main"].op # "order"
    BY <1>0, <1>5 DEF BeginsClose, EndsClose, Ends, Idle, Doing
  <2> QED
    BY <2>1, <2>2 DEF OrderInv, Agrees
<1> QED
  BY <1>0, <1>1, <1>2, <1>3, <1>4, <1>5, Shapes

-----------------------------------------------------------------------------
(* The refinement.                                                         *)

\* What the caller is told, of every order there may be.
ToldAll == [o \in OrderNumber |-> StatusOf(o)]

\* A step that leaves the orders alone leaves what was told alone.
LEMMA ToldSame == ASSUME UNCHANGED orders PROVE ToldAll' = ToldAll
  BY DEF ToldAll, StatusOf, OrderNumber

\* Every step of the adapter is one of BrokerOrders, or changes nothing in it.
LEMMA NextLedger == OrderInv /\ [Next]_vars => [Ledger!Next]_(Ledger!vars)
<1> SUFFICES ASSUME OrderInv, [Next]_vars
             PROVE  \/ ToldAll' = ToldAll /\ Done' = Done
                    \/ \E o \in OrderNumber :
                         Ledger!Submit(o) \/ Ledger!Execute(o) \/ Ledger!Report(o)
  BY DEF Ledger!Next, Ledger!vars, ToldAll, Done
<1> DEFINE m == job["main"]
<1>0. /\ DataOK /\ JobsOK /\ TypeInv
      /\ job \in [Thread -> Job] /\ m \in Job /\ Follows(m) /\ Refers(m)
      /\ orders \in Seq(Order) /\ Len(orders) \in OrderNumber \cup {0}
  BY TypeParts DEF OrderInv, Thread, JobsOK, Threads, DataOK
<1>1. \A o \in DOMAIN orders : o \in OrderNumber /\ ToldAll[o] = orders[o].status
  BY <1>0, BoundAssumption DEF OrderNumber, ToldAll, StatusOf
<1>2. CASE OffOrders \/ BeginsClose \/ EndsClose
  BY <1>2, ToldSame DEF OffOrders, BeginsClose, EndsClose, Done, Executed
<1>3. CASE Places
  <2>1. PICK p \in Placed : /\ orders' = Append(orders, NewOrder(p[1], p[2]))
                            /\ Len(orders) < MaxOrders + MaxOrdersBeside
                            /\ UNCHANGED contracts
    BY <1>3 DEF Places
  <2> DEFINE n == Len(orders) + 1
             new == NewOrder(p[1], p[2])
  <2>2. new \in Order /\ new.status = "SUBMITTED"
    BY OrderAssumption DEF NewOrder, Order, Side, Symbol
  <2> HIDE DEF new
  <2>3. n \in OrderNumber /\ Len(orders) \in Nat
    BY <1>0, <2>1, BoundAssumption DEF OrderNumber
  <2>4. /\ DOMAIN orders' = DOMAIN orders \cup {n} /\ n \notin DOMAIN orders
        /\ orders'[n].status = "SUBMITTED"
        /\ \A o \in DOMAIN orders : orders'[o] = orders[o]
    BY <1>0, <2>1, <2>2 DEF new
  <2>5. ToldAll[n] = "PENDING"
    BY <2>3, <2>4 DEF ToldAll, StatusOf
  <2>6. ToldAll' = [ToldAll EXCEPT ![n] = "SUBMITTED"]
    BY <2>3, <2>4 DEF ToldAll, StatusOf, OrderNumber
  <2>7. Done' = Done
    BY <2>1 DEF Done, Executed
  <2> QED
    BY <2>3, <2>5, <2>6, <2>7 DEF Ledger!Submit, ToldAll, Done
<1>4. CASE Carries
  <2>1. ToldAll' = ToldAll
    BY <1>4, ToldSame DEF Carries
  <2>2. Done' = Done \cup ({m.order} \ {0})
    BY <1>4, CarriesOut
  <2>3. CASE m.order = 0
    BY <2>1, <2>2, <2>3
  <2>4. CASE m.order # 0
    <3>1. /\ m.op = "order" /\ m.order \in DOMAIN orders
      <4>1. m.order \in 0..Len(orders) /\ Len(orders) \in Nat
        BY <1>0 DEF Refers
      <4> QED
        BY <1>0, <2>4, <4>1 DEF Follows
    <3>2. orders[m.order].status = "SUBMITTED" /\ m.order \notin Done
      BY <1>4, <3>1 DEF OrderInv, Agrees, Carries
    <3>3. m.order \in OrderNumber /\ ToldAll[m.order] = "SUBMITTED"
      BY <1>1, <3>1, <3>2
    <3>4. Done' = Done \cup {m.order}
      BY <2>2, <2>4
    <3> QED
      BY <2>1, <3>2, <3>3, <3>4 DEF Ledger!Execute, ToldAll, Done
  <2> QED
    BY <2>3, <2>4
<1>5. CASE Tells
  <2>1. PICK s \in {"SUBMITTED", "PARTIALLY_FILLED", "FILLED", "REJECTED", "TIMED_OUT"} :
            /\ m.op = "order"
            /\ Settle("main", s)
            /\ UNCHANGED contracts
            /\ s \in {"PARTIALLY_FILLED", "FILLED"} => m.next \in {"buy", "sell"} /\ m.wire = "ok"
            /\ s = "REJECTED" => m.wire = "error"
    BY <1>5 DEF Tells
  <2>2. m.order \in DOMAIN orders
    <3>1. m.order # 0 /\ m.order \in 0..Len(orders) /\ Len(orders) \in Nat
      BY <1>0, <2>1 DEF Refers, Follows
    <3> QED
      BY <1>0, <3>1
  <2>3. m.order \in OrderNumber /\ ToldAll[m.order] = "SUBMITTED"
    BY <1>1, <2>1, <2>2 DEF OrderInv, Agrees
  <2>4. /\ DOMAIN orders' = DOMAIN orders
        /\ orders'[m.order] = [orders[m.order] EXCEPT !.status = s]
        /\ \A o \in DOMAIN orders \ {m.order} : orders'[o] = orders[o]
    BY <1>0, <2>1, <2>2 DEF Settle
  <2>5. orders'[m.order].status = s
    <3>1. orders[m.order] \in Order
      BY <1>0, <2>2
    <3> QED
      BY <2>4, <3>1 DEF Order
  <2>6. ToldAll' = [ToldAll EXCEPT ![m.order] = s]
    BY <2>2, <2>3, <2>4, <2>5 DEF ToldAll, StatusOf, OrderNumber
  <2>7. Done' = Done
    BY <2>1 DEF Done, Executed
  <2>8. CASE s = "SUBMITTED"
    BY <2>3, <2>6, <2>7, <2>8 DEF ToldAll
  <2>9. CASE s \in {"PARTIALLY_FILLED", "FILLED"}
    <3>1. m.order \in Done
      BY <2>1, <2>9 DEF OrderInv, Agrees
    <3> QED
      BY <2>3, <2>6, <2>7, <2>9, <3>1 DEF Ledger!Report, Ledger!Filled, ToldAll, Done
  <2>10. CASE s = "REJECTED"
    <3>1. m.order \notin Done
      BY <2>1, <2>10 DEF OrderInv, Agrees
    <3> QED
      BY <2>3, <2>6, <2>7, <2>10, <3>1 DEF Ledger!Report, ToldAll, Done
  <2>11. CASE s = "TIMED_OUT"
    BY <2>3, <2>6, <2>7, <2>11 DEF Ledger!Report, ToldAll, Done
  <2> QED
    BY <2>8, <2>9, <2>10, <2>11
<1> QED
  BY <1>2, <1>3, <1>4, <1>5, Shapes DEF OrderInv

LEMMA InitLedger == Init => Ledger!Init
<1> SUFFICES ASSUME Init PROVE Ledger!Init
  OBVIOUS
<1>1. contracts = <<>> /\ orders = <<>>
  BY DEF Init, TransportInit, AdapterInit
<1>2. Executed \ {0} = {}
  BY <1>1 DEF Executed
<1>3. \A o \in OrderNumber : StatusOf(o) = "PENDING"
  BY <1>1 DEF StatusOf
<1> QED
  BY <1>2, <1>3 DEF Ledger!Init

\* Whatever the transport loses and however the threads interleave, for any number
\* of orders and faults: an order is carried out at most once, a fill was carried
\* out and a rejection was not (submitOrder, submit_intent, _close_contract).
THEOREM OrdersImplemented == Spec => ImplementsOrders
<1>1. Init => OrderInv
  BY InitTypes, InitAgrees DEF OrderInv
<1>2. OrderInv /\ [Next]_vars => OrderInv'
  BY NextTypes, NextAgrees DEF OrderInv
<1> QED
  BY <1>1, <1>2, InitLedger, NextLedger, PTL DEF Spec, ImplementsOrders, Ledger!Spec

-----------------------------------------------------------------------------
(* The contracts the adapter keeps.                                        *)

\* A contract has the symbol of the order it was booked for, and is tracked under
\* that symbol; an order that sells has booked nothing; the contract booked for the
\* order in progress is the last one; the contract being sold is the one tracked,
\* and is sold once the sale was answered.
Books ==
    /\ \A c \in DOMAIN contracts :
          /\ contracts[c].order \in DOMAIN orders
          /\ contracts[c].symbol = orders[contracts[c].order].symbol
    /\ \A s \in Symbol : tracked[s] # 0 => contracts[tracked[s]].symbol = s
    /\ (job["main"].op = "order" /\ job["main"].next = "sell") =>
          \A c \in DOMAIN contracts : contracts[c].order # job["main"].order
    /\ (job["main"].next = "buy" /\ job["main"].wire = "ok") =>
          /\ job["main"].contract = Len(contracts)
          /\ contracts[job["main"].contract].order = job["main"].order
    /\ job["main"].next = "sell" =>
          /\ tracked[contracts[job["main"].contract].symbol] = job["main"].contract
          /\ job["main"].op = "order" => contracts[job["main"].contract].symbol = Main
          /\ job["main"].wire = "ok" => contracts[job["main"].contract].sold

KeepInv == OrderInv /\ Books

LEMMA NextBooks == KeepInv /\ [Next]_vars => Books'
<1> SUFFICES ASSUME KeepInv, [Next]_vars PROVE Books'
  OBVIOUS
<1> DEFINE m == job["main"]
           n == job'["main"]
<1>0. /\ DataOK /\ JobsOK /\ TypeInv /\ OrderInv /\ Books /\ "main" \in Thread
      /\ job \in [Thread -> Job] /\ m \in Job /\ Follows(m) /\ Refers(m)
      /\ orders \in Seq(Order) /\ contracts \in Seq(Contract)
      /\ tracked \in [Symbol -> 0..Len(contracts)]
  BY TypeParts DEF KeepInv, OrderInv, Thread, JobsOK, Threads, DataOK
<1>1. ASSUME NEW x \in Job, Follows(x), x.next \in {"buy", "sell"} PROVE x.op \in {"order", "close"}
  BY <1>1 DEF Follows, Job
<1>2. CASE OffOrders
  <2>1. orders' = orders /\ contracts' = contracts /\ tracked' = tracked
    BY <1>2 DEF OffOrders
  <2>2. CASE n = m
    BY <1>0, <2>1, <2>2 DEF Books
  <2>3. CASE {m.op, n.op} \cap {"order", "close"} = {}
    <3>1. n \in Job /\ Follows(n)
      BY <1>0, NextTypes, TypeParts DEF JobsOK, Threads
    <3>2. n.next \notin {"buy", "sell"} /\ n.op # "order"
      BY <1>1, <2>3, <3>1
    <3> QED
      BY <1>0, <2>1, <3>2 DEF Books
  <2>4. ASSUME NEW w \in {"ok", "error", "timeout", "down", "lost"}, Wire("main", w),
               w = "ok" => m.next = "proposal"
        PROVE  Books'
    <3>1. job' = [job EXCEPT !["main"] = [m EXCEPT !.wire = w]]
      BY <1>0, <2>4 DEF Wire
    <3>2. /\ n.op = m.op /\ n.order = m.order /\ n.contract = m.contract
          /\ n.next = m.next /\ n.wire = w
      BY <1>0, <3>1 DEF Job
    <3> QED
      BY <1>0, <2>1, <2>4, <3>2 DEF Books
  <2>5. CASE Continues("main", "buy")
    <3>1. job' = [job EXCEPT !["main"] = [m EXCEPT !.next = "buy", !.wire = "unsent"]]
      BY <1>0, <2>5 DEF Continues
    <3>2. n.next = "buy" /\ n.wire = "unsent"
      BY <1>0, <3>1 DEF Job
    <3> QED
      BY <1>0, <2>1, <3>2 DEF Books
  <2> QED
    BY <1>2, <2>2, <2>3, <2>4, <2>5 DEF OffOrders
<1>3. CASE BeginsClose
  <2>1. PICK s \in Symbol : /\ tracked[s] # 0
                            /\ job' = [job EXCEPT !["main"] = Doing("close", "sell", 0, tracked[s])]
    BY <1>3 DEF BeginsClose
  <2>2. /\ n.op = "close" /\ n.next = "sell" /\ n.wire = "unsent" /\ n.contract = tracked[s]
        /\ orders' = orders /\ contracts' = contracts /\ tracked' = tracked
    BY <1>0, <1>3, <2>1 DEF Doing, BeginsClose
  <2>3. contracts[tracked[s]].symbol = s
    BY <1>0, <2>1 DEF Books
  <2> QED
    BY <1>0, <2>2, <2>3 DEF Books
<1>4. CASE EndsClose
  <2>1. /\ n.op = "none" /\ n.next = "none" /\ n.wire = "unsent"
        /\ orders' = orders /\ contracts' = contracts
    BY <1>0, <1>4 DEF EndsClose, Ends, Idle, Doing
  <2>2. \A s \in Symbol : tracked'[s] # 0 => tracked'[s] = tracked[s]
    BY <1>0, <1>4 DEF EndsClose
  <2> QED
    BY <1>0, <2>1, <2>2 DEF Books
<1>5. CASE Places
  <2>1. PICK p \in Placed :
            /\ orders' = Append(orders, NewOrder(p[1], p[2]))
            /\ UNCHANGED <<contracts, tracked>>
            /\ \/ job' = [job EXCEPT !["main"] = Doing("order", "proposal", Len(orders) + 1, 0)]
               \/ /\ tracked[Main] # 0
                  /\ job' = [job EXCEPT !["main"] =
                                Doing("order", "sell", Len(orders) + 1, tracked[Main])]
    BY <1>5 DEF Places
  <2> DEFINE new == NewOrder(p[1], p[2])
  <2>2. new \in Order
    BY OrderAssumption DEF NewOrder, Order, Side, Symbol
  <2> HIDE DEF new
  <2>3. /\ \A o \in DOMAIN orders : o \in DOMAIN orders' /\ orders'[o] = orders[o]
        /\ Len(orders) + 1 \notin DOMAIN orders
    BY <1>0, <2>1, <2>2 DEF new
  <2>4. /\ n.op = "order" /\ n.order = Len(orders) + 1 /\ n.wire = "unsent"
        /\ n.next = "sell" => n.contract = tracked[Main] /\ tracked[Main] # 0
        /\ n.next \in {"proposal", "sell"}
    BY <1>0, <2>1 DEF Doing
  <2>5. Main \in Symbol
    BY DEF Symbol
  <2> QED
    BY <1>0, <2>1, <2>3, <2>4, <2>5 DEF Books
<1>6. CASE Carries
  <2>1. /\ orders' = orders /\ tracked' = tracked
        /\ n.op = m.op /\ n.next = m.next /\ n.order = m.order /\ n.wire = "ok"
    BY <1>6 DEF Carries
  <2>2. ASSUME m.next = "buy", NEW amount \in {Stake, Partial}, Book("main", amount)
        PROVE  Books'
    <3> DEFINE k == [side |-> orders[m.order].side, symbol |-> orders[m.order].symbol,
                     amount |-> amount, order |-> m.order, sold |-> FALSE, seller |-> 0]
               c0 == Len(contracts) + 1
    <3>1. contracts' = Append(contracts, k) /\ n.contract = c0
      BY <1>0, <2>2 DEF Book, Job
    <3>2. k.order = m.order /\ k.symbol = orders[m.order].symbol
      OBVIOUS
    <3> HIDE DEF k
    <3>3. /\ DOMAIN contracts' = DOMAIN contracts \cup {c0} /\ Len(contracts') = c0
          /\ contracts'[c0] = k
          /\ \A c \in DOMAIN contracts : contracts'[c] = contracts[c]
      BY <1>0, <3>1
    <3>4. m.order \in DOMAIN orders
      <4>1. m.op = "order"
        BY <1>0, <2>2 DEF Follows, Job
      <4>2. m.order # 0 /\ m.order \in 0..Len(orders) /\ Len(orders) \in Nat
        BY <1>0, <4>1 DEF Follows, Refers
      <4> QED
        BY <1>0, <4>2
    <3>5. \A s \in Symbol : tracked[s] # 0 => tracked[s] \in DOMAIN contracts
      BY <1>0
    <3> QED
      BY <1>0, <2>1, <2>2, <3>1, <3>2, <3>3, <3>4, <3>5 DEF Books
  <2>3. ASSUME m.next = "sell", SellContract("main") PROVE Books'
    <3> DEFINE x == m.contract
    <3>1. x \in DOMAIN contracts
      <4>1. x # 0 /\ x \in 0..Len(contracts) /\ Len(contracts) \in Nat
        BY <1>0, <2>3 DEF Follows, Refers
      <4> QED
        BY <1>0, <4>1
    <3>2. /\ DOMAIN contracts' = DOMAIN contracts
          /\ contracts'[x] = [contracts[x] EXCEPT !.sold = TRUE, !.seller = m.order]
          /\ \A c \in DOMAIN contracts \ {x} : contracts'[c] = contracts[c]
          /\ contracts[x] \in Contract
      BY <1>0, <2>3, <3>1 DEF SellContract
    <3>3. contracts'[x].sold
      BY <3>2 DEF Contract
    <3>4. \A c \in DOMAIN contracts : /\ contracts'[c].order = contracts[c].order
                                      /\ contracts'[c].symbol = contracts[c].symbol
      BY <3>2, ZenonT(30) DEF Contract
    <3>5. job' = [job EXCEPT !["main"] = [m EXCEPT !.wire = "ok"]]
      BY <1>0, <2>3 DEF SellContract, Wire
    <3>6. n.contract = x
      BY <1>0, <3>5 DEF Job
    <3>7. \A s \in Symbol : tracked[s] # 0 => tracked[s] \in DOMAIN contracts
      BY <1>0
    <3>8. /\ n.next = "sell" /\ tracked' = tracked /\ orders' = orders
          /\ DOMAIN contracts' = DOMAIN contracts
      BY <2>1, <2>3, <3>2
    <3>9. \A c \in DOMAIN contracts' :
            /\ contracts'[c].order \in DOMAIN orders'
            /\ contracts'[c].symbol = orders'[contracts'[c].order].symbol
      BY <1>0, <3>4, <3>8, ZenonT(30) DEF Books
    <3>10. \A s \in Symbol : tracked'[s] # 0 => contracts'[tracked'[s]].symbol = s
      BY <1>0, <3>4, <3>7, <3>8 DEF Books
    <3>11. (n.op = "order" /\ n.next = "sell") =>
              \A c \in DOMAIN contracts' : contracts'[c].order # n.order
      BY <1>0, <2>1, <2>3, <3>4, <3>8 DEF Books
    <3>12. /\ tracked'[contracts'[n.contract].symbol] = n.contract
           /\ n.op = "order" => contracts'[n.contract].symbol = Main
      BY <1>0, <2>1, <2>3, <3>1, <3>4, <3>6, <3>8 DEF Books
    <3>13. contracts'[n.contract].sold
      BY <3>3, <3>6
    <3>14. n.next # "buy"
      BY <3>8
    <3> HIDE DEF n, x
    <3> QED
      BY <3>9, <3>10, <3>11, <3>12, <3>13, <3>14 DEF Books, n
  <2> QED
    BY <1>6, <2>2, <2>3 DEF Carries
<1>7. CASE Tells
  <2>1. PICK s : /\ m.op = "order" /\ Settle("main", s) /\ contracts' = contracts
                 /\ \/ tracked' = tracked
                    \/ /\ m.next = "buy" /\ m.wire = "ok"
                       /\ tracked' = [tracked EXCEPT ![orders[m.order].symbol] = m.contract]
                    \/ tracked' = [tracked EXCEPT ![Main] = 0]
    BY <1>7 DEF Tells
  <2>2. n.op = "none" /\ n.next = "none"
    BY <1>0, <2>1 DEF Settle, Ends, Idle, Doing
  <2>3. /\ DOMAIN orders' = DOMAIN orders
        /\ \A o \in DOMAIN orders : orders'[o].symbol = orders[o].symbol
    <3>1. orders' = [orders EXCEPT ![m.order].status = s]
      BY <2>1 DEF Settle
    <3>2. \A o \in DOMAIN orders : orders[o] \in Order
      BY <1>0
    <3>3. \A o \in DOMAIN orders : \/ orders'[o] = orders[o]
                                   \/ orders'[o] = [orders[o] EXCEPT !.status = s]
      BY <1>0, <3>1
    <3>4. \A o \in DOMAIN orders : [orders[o] EXCEPT !.status = s].symbol = orders[o].symbol
      BY <3>2 DEF Order
    <3> QED
      BY <1>0, <3>1, <3>3, <3>4
  <2>4. \A r \in Symbol : tracked'[r] # 0 => contracts[tracked'[r]].symbol = r
    <3>1. CASE m.next = "buy" /\ m.wire = "ok"
               /\ tracked' = [tracked EXCEPT ![orders[m.order].symbol] = m.contract]
      <4>1. m.contract \in DOMAIN contracts
        <5>1. m.contract # 0 /\ m.contract \in 0..Len(contracts) /\ Len(contracts) \in Nat
          BY <1>0, <3>1 DEF Follows, Refers
        <5> QED
          BY <1>0, <5>1
      <4>2. contracts[m.contract].symbol = orders[m.order].symbol
        BY <1>0, <3>1, <4>1 DEF Books
      <4> QED
        BY <1>0, <3>1, <4>2 DEF Books
    <3>2. CASE tracked' = tracked
      BY <1>0, <3>2 DEF Books
    <3>3. CASE tracked' = [tracked EXCEPT ![Main] = 0]
      BY <1>0, <3>3 DEF Books
    <3> QED
      BY <2>1, <3>1, <3>2, <3>3
  <2> QED
    BY <1>0, <2>1, <2>2, <2>3, <2>4, SMTT(30) DEF Books
<1> QED
  BY <1>0, <1>2, <1>3, <1>4, <1>5, <1>6, <1>7, Shapes

\* The caller was told that the order of contract c was filled.
ToldFilled(c) == orders[contracts[c].order].status \in {"FILLED", "PARTIALLY_FILLED"}

\* Contract c is tracked, or a later one of its symbol was reported too.
Kept(c) == \E d \in c..Len(contracts) :
    /\ contracts[d].symbol = contracts[c].symbol
    /\ ToldFilled(d)
    /\ d = c => tracked[contracts[c].symbol] = c

LEMMA KeptAll ==
  /\ OpenContractsKept <=>
       \A c \in DOMAIN contracts : ~contracts[c].sold /\ ToldFilled(c) => Kept(c)
  /\ OpenContractsKept' <=>
       \A c \in DOMAIN contracts' : ~contracts'[c].sold /\ ToldFilled(c)' => Kept(c)'
  BY DEF OpenContractsKept, ToldFilled, Kept

\* What keeps a contract keeps it after a step that takes nothing back.
LEMMA StillKept ==
  ASSUME DataOK, NEW c \in DOMAIN contracts, Kept(c),
         Len(contracts') \in Nat, Len(contracts) <= Len(contracts'),
         \A d \in DOMAIN contracts : /\ contracts'[d].symbol = contracts[d].symbol
                                     /\ (ToldFilled(d) => ToldFilled(d)'),
         tracked[contracts[c].symbol] = c => tracked'[contracts[c].symbol] = c
  PROVE  Kept(c)'
<1>1. PICK d \in c..Len(contracts) : /\ contracts[d].symbol = contracts[c].symbol
                                     /\ ToldFilled(d)
                                     /\ d = c => tracked[contracts[c].symbol] = c
  BY DEF Kept
<1>2. d \in DOMAIN contracts /\ d \in c..Len(contracts')
  BY <1>1 DEF DataOK
<1>3. /\ contracts'[d].symbol = contracts[d].symbol
      /\ contracts'[c].symbol = contracts[c].symbol
  BY <1>2 DEF ToldFilled
<1>4. ToldFilled(d)'
  BY <1>1, <1>2 DEF ToldFilled
<1>5. d = c => tracked'[contracts'[c].symbol] = c
  BY <1>1, <1>3
<1> QED
  BY <1>1, <1>2, <1>3, <1>4, <1>5 DEF Kept

LEMMA NextKept == KeepInv /\ OpenContractsKept /\ [Next]_vars => OpenContractsKept'
<1> SUFFICES ASSUME KeepInv, OpenContractsKept, [Next]_vars,
                    NEW c \in DOMAIN contracts', ~contracts'[c].sold, ToldFilled(c)'
             PROVE  Kept(c)'
  BY KeptAll
<1> DEFINE m == job["main"]
<1>0. /\ DataOK /\ JobsOK /\ TypeInv /\ OrderInv /\ Books /\ Agrees /\ "main" \in Thread
      /\ job \in [Thread -> Job] /\ m \in Job /\ Follows(m) /\ Refers(m)
      /\ orders \in Seq(Order) /\ contracts \in Seq(Contract)
      /\ tracked \in [Symbol -> 0..Len(contracts)]
  BY TypeParts DEF KeepInv, OrderInv, Thread, JobsOK, Threads, DataOK
<1>1. ASSUME NEW d \in DOMAIN contracts, ~contracts[d].sold, ToldFilled(d) PROVE Kept(d)
  BY <1>1, KeptAll
<1>2. CASE UNCHANGED <<orders, contracts, tracked>>
  <2>1. c \in DOMAIN contracts /\ ~contracts[c].sold /\ ToldFilled(c)
    BY <1>2 DEF ToldFilled
  <2> QED
    BY <1>1, <1>2, <2>1 DEF Kept, ToldFilled
<1>3. CASE EndsClose
  <2>1. orders' = orders /\ contracts' = contracts /\ m.op = "close"
    BY <1>3 DEF EndsClose
  <2>2. c \in DOMAIN contracts /\ ~contracts[c].sold /\ Kept(c)
    BY <1>1, <2>1 DEF ToldFilled
  <2>3. CASE tracked' = tracked
    BY <1>2, <2>1, <2>3
  <2>4. CASE /\ m.wire = "ok"
             /\ tracked' = [tracked EXCEPT ![contracts[m.contract].symbol] = 0]
    <3>1. /\ tracked[contracts[m.contract].symbol] = m.contract
          /\ contracts[m.contract].sold
      BY <1>0, <2>1, <2>4 DEF Books, Follows
    <3>2. c # m.contract
      BY <2>2, <3>1
    <3>3. tracked[contracts[c].symbol] = c => tracked'[contracts[c].symbol] = c
      BY <1>0, <2>2, <2>4, <3>1, <3>2
    <3>4. \A d \in DOMAIN contracts : /\ contracts'[d].symbol = contracts[d].symbol
                                      /\ (ToldFilled(d) => ToldFilled(d)')
      BY <2>1 DEF ToldFilled
    <3>5. Len(contracts') \in Nat /\ Len(contracts) <= Len(contracts')
      BY <1>0, <2>1
    <3> QED
      BY <1>0, <2>2, <3>3, <3>4, <3>5, StillKept
  <2> QED
    BY <1>3, <2>3, <2>4 DEF EndsClose
<1>4. CASE Places
  <2>1. PICK p \in Placed : /\ orders' = Append(orders, NewOrder(p[1], p[2]))
                            /\ contracts' = contracts /\ tracked' = tracked
    BY <1>4 DEF Places
  <2> DEFINE new == NewOrder(p[1], p[2])
  <2>2. new \in Order
    BY OrderAssumption DEF NewOrder, Order, Side, Symbol
  <2> HIDE DEF new
  <2>3. \A o \in DOMAIN orders : orders'[o] = orders[o]
    BY <1>0, <2>1, <2>2 DEF new
  <2>4. \A d \in DOMAIN contracts : contracts[d].order \in DOMAIN orders
    BY <1>0 DEF Books
  <2>5. \A d \in DOMAIN contracts : ToldFilled(d) <=> ToldFilled(d)'
    BY <2>1, <2>3, <2>4 DEF ToldFilled
  <2>6. c \in DOMAIN contracts /\ Kept(c)
    BY <1>1, <2>1, <2>5
  <2>7. Len(contracts') \in Nat /\ Len(contracts) <= Len(contracts')
    BY <1>0, <2>1
  <2> QED
    BY <1>0, <2>1, <2>5, <2>6, <2>7, StillKept
<1>5. CASE Carries
  <2>1. orders' = orders /\ tracked' = tracked /\ m.wire = "unsent"
    BY <1>5 DEF Carries
  <2>2. ASSUME NEW amount \in {Stake, Partial}, m.next = "buy", Book("main", amount)
        PROVE  Kept(c)'
    <3> DEFINE k == [side |-> orders[m.order].side, symbol |-> orders[m.order].symbol,
                     amount |-> amount, order |-> m.order, sold |-> FALSE, seller |-> 0]
               c0 == Len(contracts) + 1
    <3>1. contracts' = Append(contracts, k)
      BY <2>2 DEF Book
    <3>2. k.order = m.order
      OBVIOUS
    <3> HIDE DEF k
    <3>3. /\ DOMAIN contracts' = DOMAIN contracts \cup {c0} /\ Len(contracts') = c0
          /\ contracts'[c0] = k /\ Len(contracts) \in Nat
          /\ \A d \in DOMAIN contracts : contracts'[d] = contracts[d]
      BY <1>0, <3>1
    <3>4. m.op = "order"
      BY <1>0, <2>2 DEF Follows, Job
    <3>5. orders[m.order].status = "SUBMITTED"
      BY <1>0, <3>4 DEF Agrees
    <3>6. c # c0
      BY <2>1, <3>2, <3>3, <3>5 DEF ToldFilled
    <3>7. \A d \in DOMAIN contracts : ToldFilled(d) <=> ToldFilled(d)'
      BY <2>1, <3>3 DEF ToldFilled
    <3>8. c \in DOMAIN contracts /\ contracts'[c] = contracts[c] /\ Kept(c)
      BY <1>1, <3>3, <3>6, <3>7
    <3>9. Len(contracts') \in Nat /\ Len(contracts) <= Len(contracts')
      BY <3>3
    <3> QED
      BY <1>0, <2>1, <3>3, <3>7, <3>8, <3>9, StillKept
  <2>3. ASSUME m.next = "sell", SellContract("main") PROVE Kept(c)'
    <3> DEFINE x == m.contract
    <3>1. x \in DOMAIN contracts
      <4>1. x # 0 /\ x \in 0..Len(contracts) /\ Len(contracts) \in Nat
        BY <1>0, <2>3 DEF Follows, Refers
      <4> QED
        BY <1>0, <4>1
    <3>2. /\ DOMAIN contracts' = DOMAIN contracts /\ Len(contracts') = Len(contracts)
          /\ contracts'[x] = [contracts[x] EXCEPT !.sold = TRUE, !.seller = m.order]
          /\ \A d \in DOMAIN contracts \ {x} : contracts'[d] = contracts[d]
          /\ contracts[x] \in Contract /\ Len(contracts) \in Nat
      BY <1>0, <2>3, <3>1 DEF SellContract
    <3>3. contracts'[x].sold
      BY <3>2 DEF Contract
    <3>4. \A d \in DOMAIN contracts : /\ contracts'[d].order = contracts[d].order
                                      /\ contracts'[d].symbol = contracts[d].symbol
      BY <3>2, ZenonT(60) DEF Contract
    <3>5. c # x
      BY <3>3
    <3>6. \A d \in DOMAIN contracts : ToldFilled(d) <=> ToldFilled(d)'
      BY <2>1, <3>4 DEF ToldFilled
    <3>7. c \in DOMAIN contracts /\ contracts'[c] = contracts[c]
      BY <3>2, <3>5
    <3>8. Kept(c)
      BY <1>1, <3>6, <3>7
    <3> QED
      BY <1>0, <2>1, <3>2, <3>4, <3>6, <3>7, <3>8, StillKept
  <2> QED
    BY <1>5, <2>2, <2>3 DEF Carries
<1>6. CASE Tells
  <2>1. PICK s : /\ m.op = "order" /\ Settle("main", s) /\ contracts' = contracts
                 /\ IF s \in {"PARTIALLY_FILLED", "FILLED"}
                      THEN /\ m.wire = "ok"
                           /\ \/ /\ m.next = "buy"
                                 /\ tracked' = [tracked EXCEPT ![orders[m.order].symbol] = m.contract]
                              \/ /\ m.next = "sell"
                                 /\ tracked' = [tracked EXCEPT ![Main] = 0]
                      ELSE tracked' = tracked
    BY <1>6 DEF Tells
  <2>2. m.order \in DOMAIN orders
    <3>1. m.order # 0 /\ m.order \in 0..Len(orders) /\ Len(orders) \in Nat
      BY <1>0, <2>1 DEF Refers, Follows
    <3> QED
      BY <1>0, <3>1
  <2>3. /\ orders'[m.order].status = s
        /\ \A o \in DOMAIN orders : o # m.order => orders'[o] = orders[o]
        /\ orders[m.order].status = "SUBMITTED"
    <3>1. orders' = [orders EXCEPT ![m.order] = [orders[m.order] EXCEPT !.status = s]]
      BY <1>0, <2>1 DEF Settle
    <3>2. orders[m.order] \in Order
      BY <1>0, <2>2
    <3>3. [orders[m.order] EXCEPT !.status = s].status = s
      BY <3>2 DEF Order
    <3> QED
      BY <1>0, <2>1, <2>2, <3>1, <3>3 DEF Agrees
  <2>4. \A d \in DOMAIN contracts : contracts[d].order \in DOMAIN orders
    BY <1>0 DEF Books
  <2>5. \A d \in DOMAIN contracts : /\ (ToldFilled(d) => ToldFilled(d)')
                                    /\ contracts[d].order # m.order => (ToldFilled(d) <=> ToldFilled(d)')
    BY <2>1, <2>3, <2>4 DEF ToldFilled
  <2>6. c \in DOMAIN contracts /\ ~contracts[c].sold /\ Len(contracts) \in Nat
    BY <1>0, <2>1
  <2>7. ASSUME ToldFilled(c), tracked[contracts[c].symbol] = c => tracked'[contracts[c].symbol] = c
        PROVE  Kept(c)'
    <3>1. ASSUME NEW d \in DOMAIN contracts
          PROVE  /\ contracts'[d].symbol = contracts[d].symbol
                 /\ (ToldFilled(d) => ToldFilled(d)')
      BY <2>1, <2>5 DEF ToldFilled
    <3>3. Len(contracts') \in Nat /\ Len(contracts) <= Len(contracts')
      BY <2>1, <2>6
    <3>2. Kept(c)
      BY <1>1, <2>6, <2>7
    <3> QED
      BY <1>0, <2>6, <2>7, <3>1, <3>2, <3>3, StillKept
  <2>8. CASE s \notin {"PARTIALLY_FILLED", "FILLED"}
    <3>1. ToldFilled(c)
      BY <2>1, <2>3, <2>4, <2>6, <2>8 DEF ToldFilled
    <3> QED
      BY <2>1, <2>7, <2>8, <3>1
  <2>9. CASE m.next = "sell" /\ m.wire = "ok" /\ tracked' = [tracked EXCEPT ![Main] = 0]
    <3>1. ToldFilled(c)
      BY <1>0, <2>1, <2>5, <2>6, <2>9 DEF Books
    <3>2. contracts[m.contract].sold /\ tracked[Main] = m.contract
      BY <1>0, <2>1, <2>9 DEF Books
    <3>3. tracked[contracts[c].symbol] = c => contracts[c].symbol # Main
      BY <2>6, <3>2
    <3> QED
      BY <1>0, <2>7, <2>9, <3>1, <3>3
  <2>10. CASE /\ m.next = "buy" /\ m.wire = "ok" /\ s \in {"PARTIALLY_FILLED", "FILLED"}
              /\ tracked' = [tracked EXCEPT ![orders[m.order].symbol] = m.contract]
    <3> DEFINE r == orders[m.order].symbol
    <3>0. PICK x : x = m.contract
      OBVIOUS
    <3>1. x = Len(contracts) /\ contracts[x].order = m.order
      BY <1>0, <2>10, <3>0 DEF Books
    <3>2. x \in DOMAIN contracts
      <4>1. x # 0
        BY <1>0, <2>10, <3>0 DEF Follows
      <4> QED
        BY <1>0, <2>6, <3>1, <4>1
    <3>3. contracts[x].symbol = r /\ r \in Symbol
      <4>1. orders[m.order] \in Order
        BY <1>0, <2>2
      <4> QED
        BY <1>0, <3>1, <3>2, <4>1 DEF Books, Order
    <3>4. tracked'[r] = x
      BY <1>0, <2>10, <3>0, <3>3
    <3>5. ToldFilled(x)'
      BY <2>1, <2>3, <2>10, <3>1 DEF ToldFilled
    <3>6. CASE contracts[c].symbol = r
      <4>1. x \in c..Len(contracts')
        BY <1>0, <2>1, <2>6, <3>1
      <4>2. /\ contracts'[x].symbol = contracts'[c].symbol
            /\ x = c => tracked'[contracts'[c].symbol] = c
        BY <2>1, <3>3, <3>4, <3>6
      <4> QED
        BY <3>5, <4>1, <4>2 DEF Kept
    <3>7. CASE contracts[c].symbol # r
      <4>1. contracts[c].order # m.order
        BY <1>0, <2>6, <3>7 DEF Books
      <4>2. ToldFilled(c)
        BY <2>5, <2>6, <4>1
      <4> QED
        BY <1>0, <2>7, <2>10, <3>7, <4>2
    <3> QED
      BY <3>6, <3>7
  <2> QED
    BY <2>1, <2>8, <2>9, <2>10
<1> QED
  BY <1>0, <1>2, <1>3, <1>4, <1>5, <1>6, Shapes DEF OffOrders, BeginsClose

\* However many orders there are and whatever is lost: a contract the caller was told
\* of is tracked while it is open, or a later one of its symbol took its place
\* (_open_contracts, closePosition, _close_contract).
THEOREM ContractsKept == Spec => []OpenContractsKept
<1>1. Init => KeepInv /\ OpenContractsKept
  <2> SUFFICES ASSUME Init PROVE Books /\ OpenContractsKept
    BY InitTypes, InitAgrees DEF KeepInv, OrderInv
  <2>1. /\ contracts = <<>> /\ job["main"].op = "none" /\ job["main"].next = "none"
        /\ \A s \in Symbol : tracked[s] = 0
    BY DEF Init, TransportInit, AdapterInit, Thread, Idle, Doing
  <2> QED
    BY <2>1 DEF Books, OpenContractsKept
<1>2. KeepInv /\ [Next]_vars => KeepInv'
  BY NextTypes, NextAgrees, NextBooks DEF KeepInv, OrderInv
<1> QED
  BY <1>1, <1>2, NextKept, PTL DEF Spec

-----------------------------------------------------------------------------
(* The simulated position.                                                 *)

OpenContracts == { c \in DOMAIN contracts : ~contracts[c].sold }

LEMMA OpenAmounts ==
  ASSUME TypeInv
  PROVE  /\ IsFiniteSet(OpenContracts)
         /\ \A c \in OpenContracts : Amounts[c] \in Int
<1>1. contracts \in Seq(Contract) /\ Stake \in Int /\ Partial \in Int
  BY StakeAssumption DEF TypeInv, TypeOK
<1>2. DOMAIN contracts = 1..Len(contracts) /\ Len(contracts) \in Nat
  BY <1>1
<1>3. IsFiniteSet(OpenContracts)
  <2>1. IsFiniteSet(1..Len(contracts))
    BY <1>2, FS_Interval
  <2> QED
    BY <1>2, <2>1, FS_Subset DEF OpenContracts
<1>4. ASSUME NEW c \in OpenContracts PROVE Amounts[c] \in Int
  <2>1. contracts[c] \in Contract
    BY <1>1, <1>2 DEF OpenContracts
  <2>2. contracts[c].amount \in Int
    BY <1>1, <2>1 DEF Contract
  <2> QED
    BY <2>2 DEF Amounts, OpenContracts, Signed
<1> QED
  BY <1>3, <1>4

\* A contract booked is one more that is open.
LEMMA BookedPosition ==
  ASSUME TypeInv, PositionIsOpenContracts, Sim,
         NEW t \in Thread, NEW amount \in {Stake, Partial}, Book(t, amount)
  PROVE  position' = SumFunctionOnSet(Amounts', OpenContracts')
<1> DEFINE o == orders[job[t].order]
           k == [side |-> o.side, symbol |-> o.symbol, amount |-> amount,
                 order |-> job[t].order, sold |-> FALSE, seller |-> 0]
           n == Len(contracts) + 1
<1>1. /\ contracts \in Seq(Contract) /\ contracts' = Append(contracts, k)
      /\ position' = position + Signed(o.side, amount)
      /\ amount \in Int
  BY StakeAssumption DEF TypeInv, TypeOK, Book
<1>2. /\ Len(contracts) \in Nat /\ DOMAIN contracts = 1..Len(contracts)
      /\ DOMAIN contracts' = 1..n
      /\ \A c \in DOMAIN contracts : contracts'[c] = contracts[c]
      /\ contracts'[n] = k
  BY <1>1
<1>3. OpenContracts' = OpenContracts \cup {n} /\ n \notin OpenContracts
  <2>1. ~contracts'[n].sold
    BY <1>2
  <2>2. 1..n = (1..Len(contracts)) \cup {n} /\ n \notin 1..Len(contracts)
    BY <1>2
  <2> HIDE DEF n, k
  <2> QED
    BY <1>2, <2>1, <2>2 DEF OpenContracts
<1>4. /\ \A c \in OpenContracts : Amounts'[c] = Amounts[c]
      /\ Amounts'[n] = Signed(o.side, amount)
  <2>1. n \in 1..n
    BY <1>2
  <2> QED
    BY <1>2, <2>1 DEF Amounts, OpenContracts
<1>5. Amounts'[n] \in Int
  BY <1>1, <1>4 DEF Signed
<1>6. position = SumFunctionOnSet(Amounts, OpenContracts)
  BY DEF PositionIsOpenContracts, OpenContracts
<1>7. SumFunctionOnSet(Amounts', OpenContracts) = SumFunctionOnSet(Amounts, OpenContracts)
  <2> DEFINE F == Amounts
             G == Amounts'
  <2>1. \A c \in OpenContracts : G[c] = F[c]
    BY <1>4
  <2> HIDE DEF F, G
  <2>2. SumFunctionOnSet(G, OpenContracts) = SumFunctionOnSet(F, OpenContracts)
    BY <2>1, OpenAmounts, SumOfEquals
  <2> QED
    BY <2>2 DEF F, G
<1>8. SumFunctionOnSet(Amounts', OpenContracts \cup {n})
         = SumFunctionOnSet(Amounts', OpenContracts) + Amounts'[n]
  <2> DEFINE G == Amounts'
  <2>1. /\ IsFiniteSet(OpenContracts) /\ n \notin OpenContracts /\ G[n] \in Int
        /\ \A c \in OpenContracts : G[c] \in Int
    BY <1>3, <1>4, <1>5, OpenAmounts
  <2> HIDE DEF G, n
  <2>2. SumFunctionOnSet(G, OpenContracts \cup {n}) = SumFunctionOnSet(G, OpenContracts) + G[n]
    BY <2>1, SumWith
  <2> QED
    BY <2>2 DEF G
<1> HIDE DEF n
<1> QED
  BY <1>1, <1>3, <1>4, <1>6, <1>7, <1>8

\* A contract sold is one less, and moves the position by the opposite.
LEMMA SoldPosition ==
  ASSUME TypeInv, PositionIsOpenContracts, Sim,
         NEW t \in Thread, job[t].next = "sell", SellContract(t)
  PROVE  position' = SumFunctionOnSet(Amounts', OpenContracts')
<1>1. PICK c : c = job[t].contract
  OBVIOUS
<1>2. contracts \in Seq(Contract) /\ c \in 1..Len(contracts) /\ Len(contracts) \in Nat
  <2>1. /\ c # 0 /\ c \in 0..Len(contracts) /\ Len(contracts) \in Nat
        /\ contracts \in Seq(Contract)
    BY <1>1 DEF TypeInv, TypeOK, Threads, Follows
  <2> QED
    BY <2>1
<1> DEFINE k == contracts[c]
<1>3. /\ ~k.sold
      /\ contracts' = [contracts EXCEPT ![c].sold = TRUE, ![c].seller = job[t].order]
      /\ position' = position + Signed(Opposite(k.side), k.amount)
  BY <1>1 DEF SellContract
<1>4. k \in Contract /\ k.amount \in Int /\ k.side \in Side
  <2>1. k \in Contract
    BY <1>2
  <2>2. k.amount \in {Stake, Partial} /\ k.side \in Side
    BY <2>1 DEF Contract
  <2> HIDE DEF k
  <2> QED
    BY <2>1, <2>2, StakeAssumption
<1>5. contracts' = [contracts EXCEPT ![c] = [k EXCEPT !.sold = TRUE, !.seller = job[t].order]]
  BY <1>2, <1>3
<1>6. /\ DOMAIN contracts' = DOMAIN contracts /\ c \in DOMAIN contracts
      /\ \A d \in DOMAIN contracts :
            /\ contracts'[d].side = contracts[d].side
            /\ contracts'[d].amount = contracts[d].amount
            /\ contracts'[d].sold = (contracts[d].sold \/ d = c)
  <2>1. DOMAIN contracts' = DOMAIN contracts /\ c \in DOMAIN contracts
    BY <1>2, <1>5
  <2>2. contracts'[c] = [k EXCEPT !.sold = TRUE, !.seller = job[t].order]
    <3> DEFINE r == [k EXCEPT !.sold = TRUE, !.seller = job[t].order]
    <3>1. contracts' = [contracts EXCEPT ![c] = r]
      BY <1>5
    <3> HIDE DEF r
    <3>2. contracts'[c] = r
      BY <2>1, <3>1
    <3> QED
      BY <3>2 DEF r
  <2>3. [k EXCEPT !.sold = TRUE, !.seller = job[t].order].sold = TRUE
    BY <1>4 DEF Contract
  <2>4. /\ [k EXCEPT !.sold = TRUE, !.seller = job[t].order].side = k.side
        /\ [k EXCEPT !.sold = TRUE, !.seller = job[t].order].amount = k.amount
    BY <1>4 DEF Contract
  <2>5. \A d \in DOMAIN contracts : contracts[d].sold \in BOOLEAN
    <3>1. \A d \in DOMAIN contracts : contracts[d] \in Contract
      BY <1>2
    <3> QED
      BY <3>1 DEF Contract
  <2>6. \A d \in DOMAIN contracts : d # c => contracts'[d] = contracts[d]
    BY <1>2, <1>5
  <2> QED
    BY <2>1, <2>2, <2>3, <2>4, <2>5, <2>6
<1>7. Amounts' = Amounts
  BY <1>6 DEF Amounts
<1>8. OpenContracts' = OpenContracts \ {c} /\ c \in OpenContracts
  BY <1>3, <1>6 DEF OpenContracts
<1>9. position = SumFunctionOnSet(Amounts, OpenContracts)
  BY DEF PositionIsOpenContracts, OpenContracts
<1>10. SumFunctionOnSet(Amounts, OpenContracts)
          = Amounts[c] + SumFunctionOnSet(Amounts, OpenContracts \ {c})
  BY <1>8, OpenAmounts, SumWithout
<1>11. SumFunctionOnSet(Amounts, OpenContracts \ {c}) \in Int
  <2>1. IsFiniteSet(OpenContracts \ {c})
    BY OpenAmounts, FS_Subset
  <2> QED
    BY <2>1, OpenAmounts, SumIsInteger
<1>12. Amounts[c] = Signed(k.side, k.amount)
  BY <1>6 DEF Amounts
<1>13. Signed(Opposite(k.side), k.amount) = - Signed(k.side, k.amount)
  BY <1>4 DEF Signed, Opposite, Side
<1>14. Signed(k.side, k.amount) \in Int
  BY <1>4 DEF Signed
<1> DEFINE moved == Signed(k.side, k.amount)
           rest == SumFunctionOnSet(Amounts, OpenContracts \ {c})
<1>15. position' = (moved + rest) + (- moved)
  BY <1>3, <1>9, <1>10, <1>12, <1>13
<1>16. position' = rest
  <2>1. moved \in Int /\ rest \in Int
    BY <1>11, <1>14
  <2> HIDE DEF moved, rest
  <2> QED
    BY <1>15, <2>1
<1> QED
  BY <1>7, <1>8, <1>16

LEMMA NextPosition ==
  TypeInv /\ PositionIsOpenContracts /\ [Next]_vars => PositionIsOpenContracts'
<1> SUFFICES ASSUME TypeInv, PositionIsOpenContracts, [Next]_vars, Sim'
             PROVE  position' = SumFunctionOnSet(Amounts', OpenContracts')
  BY DEF PositionIsOpenContracts, OpenContracts
<1>1. Sim
  <2>1. ASSUME NEW t \in Thread, Heartbeat(t) \/ Step(t) \/ AnswerLost(t)
        PROVE  UNCHANGED transport
    <3>1. ASSUME NEW w \in Outcome, Returns(t, w) PROVE UNCHANGED transport
      BY <3>1 DEF Returns, AuthorizeReturns, ConnectPingReturns, AskReturns, ProposalReturns,
                  BuyReturns, SellOrderReturns, CloseReturns, HeartbeatReturns, broker
    <3> QED
      BY <2>1, <3>1 DEF Heartbeat, Step, Dial, Call, AnswerLost, broker
  <2>2. ASSUME ~ \E t \in Thread : Heartbeat(t) \/ Step(t) \/ AnswerLost(t)
        PROVE  UNCHANGED transport
    BY <2>2 DEF Next, vars, Start, Disconnect, ForceDrop, LinkLost, StopBackground, Ask,
                SubmitOrder, SubmitIntent, ClosePosition, Inject, broker
  <2>3. UNCHANGED transport
    BY <2>1, <2>2
  <2> QED
    BY <2>3 DEF Sim
<1>2. ASSUME UNCHANGED <<contracts, position>>
      PROVE  position' = SumFunctionOnSet(Amounts', OpenContracts')
  BY <1>1, <1>2 DEF PositionIsOpenContracts, OpenContracts, Amounts
<1>3. CASE UNCHANGED vars \/ Start \/ Disconnect \/ ForceDrop \/ LinkLost \/ StopBackground
  BY <1>2, <1>3 DEF vars, Start, Disconnect, ForceDrop, LinkLost, StopBackground,
                    broker, adapter
<1>4. CASE \/ \E r \in {"ask", "stream"} : Ask(r)
           \/ \E p \in Placed : SubmitOrder(p[1], p[2]) \/ SubmitIntent(p[1], p[2])
           \/ \E s \in Symbol : ClosePosition(s)
           \/ \E f \in Fault : Inject(f)
  BY <1>2, <1>4 DEF Ask, SubmitOrder, SubmitIntent, ClosePosition, Inject, broker, adapter
<1>5. ASSUME NEW t \in Thread,
             Heartbeat(t) \/ Dial(t) \/ AnswerLost(t) \/ \E w \in Outcome : Returns(t, w)
      PROVE  position' = SumFunctionOnSet(Amounts', OpenContracts')
  BY <1>2, <1>5 DEF Heartbeat, Dial, AnswerLost, Returns, AuthorizeReturns,
                    ConnectPingReturns, AskReturns, ProposalReturns, BuyReturns,
                    SellOrderReturns, CloseReturns, HeartbeatReturns, broker, adapter
<1>6. ASSUME NEW t \in Thread, Call(t)
      PROVE  position' = SumFunctionOnSet(Amounts', OpenContracts')
  <2>1. \/ UNCHANGED <<contracts, position>>
        \/ \E amount \in {Stake, Partial} : Book(t, amount)
        \/ job[t].next = "sell" /\ SellContract(t)
    BY <1>6 DEF Call, SimCall, SimAnswers, SimStreams, SimBuy, SocketCall, CallDown
  <2> QED
    BY <1>1, <1>2, <2>1, BookedPosition, SoldPosition
<1> QED
  BY <1>3, <1>4, <1>5, <1>6 DEF Next, Step

\* Whatever the amounts, and however orders, faults and reconnections mix: the
\* simulated position is what the open contracts add up to (_buy, _sell, _apply).
THEOREM PositionFollowsContracts == Spec => []PositionIsOpenContracts
<1>1. Init => TypeInv /\ PositionIsOpenContracts
  <2> SUFFICES ASSUME Init PROVE PositionIsOpenContracts
    BY InitTypes
  <2>1. contracts = <<>> /\ position = 0
    BY DEF Init, TransportInit
  <2>2. { c \in DOMAIN contracts : ~contracts[c].sold } = {}
    BY <2>1
  <2> QED
    BY <2>1, <2>2, SumOfNone DEF PositionIsOpenContracts
<1>2. /\ TypeInv /\ PositionIsOpenContracts /\ [Next]_vars
      => TypeInv' /\ PositionIsOpenContracts'
  BY NextTypes, NextPosition
<1> QED
  BY <1>1, <1>2, PTL DEF Spec

=============================================================================
