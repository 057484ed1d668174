------------------------ MODULE LiveObservation_proofs ------------------------
(*****************************************************************************)
(* The market data channel delivers ticks in the order of the market, and    *)
(* answers match calls until the first of them is late; and what a live      *)
(* observation session over it leaves behind, for every course of the market, *)
(* every period of the strategy and every bound.                             *)
(*****************************************************************************)
EXTENDS LiveObservation, FiniteSetTheorems, TLAPS

-----------------------------------------------------------------------------
(* The inductive invariants.                                               *)

\* The ticks in the socket are in the order of the market, none is older than
\* the newest one taken out, and none is from the future.
InOrder ==
  /\ read <= market
  /\ \A i \in DOMAIN inbox :
       inbox[i].tick # 0 => read <= inbox[i].tick /\ inbox[i].tick <= market
  /\ \A i, j \in DOMAIN inbox :
       i < j /\ inbox[i].tick # 0 /\ inbox[j].tick # 0 =>
         inbox[i].tick <= inbox[j].tick

OrderInv == ChannelTypeOK /\ InOrder

\* As long as nothing was late, what is on its way and what has arrived belongs
\* to the call that waits, and a call that wants one answer has one at most.
AllOfThisCall ==
  /\ call.of # "forget_all"
  /\ call.asked <= market
  /\ \A i \in DOMAIN inbox :
       /\ inbox[i].req = call.req
       /\ inbox[i].tick # 0 => inbox[i].tick >= call.asked
  /\ \A i \in DOMAIN pending : pending[i] = [of |-> call.of, req |-> call.req]
  /\ streaming \in {0, call.req}
  /\ call.of # "ticks" => streaming = 0 /\ Len(pending) + Len(inbox) <= 1

Punctual ==
  punctual =>
    /\ call = NoCall => pending = <<>> /\ inbox = <<>> /\ streaming = 0
    /\ call # NoCall => AllOfThisCall

-----------------------------------------------------------------------------
(* Sequences.                                                              *)

\* What Append and Tail do to the elements of a sequence.
LEMMA AppendElements ==
  ASSUME NEW S, NEW s \in Seq(S), NEW e \in S
  PROVE  /\ Append(s, e) \in Seq(S)
         /\ Len(Append(s, e)) = Len(s) + 1
         /\ DOMAIN Append(s, e) = 1..(Len(s) + 1)
         /\ DOMAIN s = 1..Len(s) /\ Len(s) \in Nat
         /\ \A i \in DOMAIN s : Append(s, e)[i] = s[i]
         /\ Append(s, e)[Len(s) + 1] = e
OBVIOUS

LEMMA TailElements ==
  ASSUME NEW S, NEW s \in Seq(S), s # <<>>
  PROVE  /\ Tail(s) \in Seq(S) /\ Head(s) = s[1] /\ Head(s) \in S
         /\ Len(Tail(s)) = Len(s) - 1
         /\ DOMAIN Tail(s) = 1..(Len(s) - 1)
         /\ DOMAIN s = 1..Len(s) /\ Len(s) \in Nat \ {0}
         /\ \A i \in DOMAIN Tail(s) : Tail(s)[i] = s[i + 1] /\ i + 1 \in DOMAIN s
OBVIOUS

-----------------------------------------------------------------------------
(* The order of ticks.                                                     *)

LEMMA InitInOrder ==
  ASSUME ChannelAssumption, ChannelInit
  PROVE  OrderInv
BY DEF ChannelAssumption, ChannelInit, OrderInv, ChannelTypeOK, InOrder, Ticks,
       Requests, Request, Frame, Call, NoCall

\* The frames in the socket, and their ticks, are what they should be.
LEMMA FramesInSocket ==
  ASSUME ChannelAssumption, ChannelTypeOK
  PROVE  /\ \A i \in DOMAIN inbox : inbox[i] \in Frame /\ inbox[i].tick \in Nat
         /\ DOMAIN inbox = 1..Len(inbox) /\ Len(inbox) \in Nat
         /\ market \in Nat \ {0} /\ read \in Nat /\ reqId \in Nat
<1>1. /\ \A i \in DOMAIN inbox : inbox[i] \in Frame
      /\ DOMAIN inbox = 1..Len(inbox) /\ Len(inbox) \in Nat
  BY DEF ChannelTypeOK
<1>2. \A f \in Frame : f.tick \in Ticks
  BY DEF Frame
<1>3. Ticks \subseteq Nat /\ Requests \subseteq Nat /\ 1..MaxTicks \subseteq Nat \ {0}
  BY DEF Ticks, Requests, ChannelAssumption
<1> QED
  BY <1>1, <1>2, <1>3 DEF ChannelTypeOK

\* A frame that is put behind the others holds no tick or the newest one.
LEMMA PushKeepsOrder ==
  ASSUME ChannelAssumption, ChannelTypeOK, InOrder, NEW f \in Frame, NEW m \in Nat,
         market <= m, f.tick \in {0, m},
         inbox' = Append(inbox, f), market' = m, read' = read
  PROVE  InOrder'
<1>1. /\ \A i \in DOMAIN inbox : inbox[i] \in Frame /\ inbox[i].tick \in Nat
      /\ market \in Nat /\ read \in Nat
  BY FramesInSocket
<1>2. /\ DOMAIN inbox' = 1..(Len(inbox) + 1)
      /\ DOMAIN inbox = 1..Len(inbox) /\ Len(inbox) \in Nat
      /\ \A i \in DOMAIN inbox : inbox'[i] = inbox[i]
      /\ inbox'[Len(inbox) + 1] = f
  BY AppendElements DEF ChannelTypeOK
<1>3. \A i \in DOMAIN inbox' : i \in DOMAIN inbox \/ i = Len(inbox) + 1
  BY <1>2
<1>4. (read <= market)'
  BY <1>1 DEF InOrder
<1>5. \A i \in DOMAIN inbox' :
        inbox'[i].tick # 0 => read <= inbox'[i].tick /\ inbox'[i].tick <= m
  BY <1>1, <1>2, <1>3 DEF InOrder
<1>6. \A i, j \in DOMAIN inbox' :
        i < j /\ inbox'[i].tick # 0 /\ inbox'[j].tick # 0 =>
          inbox'[i].tick <= inbox'[j].tick
  <2> SUFFICES ASSUME NEW i \in DOMAIN inbox', NEW j \in DOMAIN inbox', i < j,
                      inbox'[i].tick # 0, inbox'[j].tick # 0
               PROVE  inbox'[i].tick <= inbox'[j].tick
    OBVIOUS
  <2>1. i \in DOMAIN inbox
    BY <1>2, <1>3
  <2>2. CASE j \in DOMAIN inbox
    BY <1>2, <2>1, <2>2 DEF InOrder
  <2>3. CASE j = Len(inbox) + 1
    BY <1>1, <1>2, <1>5, <2>1, <2>3
  <2> QED
    BY <1>3, <2>2, <2>3
<1> QED
  BY <1>4, <1>5, <1>6 DEF InOrder

LEMMA MarketTickOrder ==
  ASSUME ChannelAssumption, OrderInv, MarketTick
  PROVE  OrderInv'
<1> DEFINE f == Pushed(market + 1)
<1>1. market + 1 \in 1..MaxTicks /\ market \in Nat
  BY DEF MarketTick, OrderInv, ChannelTypeOK, ChannelAssumption
<1>2. f \in Frame /\ f.tick = market + 1
  BY <1>1 DEF Pushed, Frame, Kinds, OrderInv, ChannelTypeOK, Ticks
<1>3. ChannelTypeOK'
  <2>1. inbox' \in Seq(Frame)
    BY <1>2 DEF MarketTick, OrderInv, ChannelTypeOK
  <2> QED
    BY <1>1, <2>1 DEF MarketTick, OrderInv, ChannelTypeOK
<1>4. InOrder'
  <2>1. CASE streaming # 0
    BY <1>1, <1>2, <2>1, PushKeepsOrder DEF MarketTick, OrderInv
  <2>2. CASE streaming = 0
    <3>1. \A i \in DOMAIN inbox : inbox[i].tick \in Nat
      BY FramesInSocket DEF OrderInv
    <3>2. read \in Nat
      BY FramesInSocket DEF OrderInv
    <3> QED
      BY <1>1, <2>2, <3>1, <3>2 DEF MarketTick, OrderInv, InOrder
  <2> QED
    BY <2>1, <2>2
<1> QED
  BY <1>3, <1>4 DEF OrderInv

\* An answer is a frame, for the oldest request, with the newest tick or none.
LEMMA AnswerIsFrame ==
  ASSUME ChannelAssumption, ChannelTypeOK, pending # <<>>,
         NEW f \in Answers(Head(pending))
  PROVE  f \in Frame /\ f.tick \in {0, market} /\ f.req = Head(pending).req
         /\ f.of \in {Head(pending).of, "error"}
<1>1. Head(pending) \in Request
  BY TailElements DEF ChannelTypeOK
<1>2. Head(pending).of \in Kinds /\ Head(pending).req \in Requests
  BY <1>1 DEF Request
<1>3. market \in Ticks /\ 0 \in Ticks
  BY DEF ChannelTypeOK, Ticks, ChannelAssumption
<1>4. /\ f.tick \in {0, market} /\ f.req = Head(pending).req
      /\ f.of \in {Head(pending).of, "error"}
      /\ f = [of |-> f.of, req |-> f.req, tick |-> f.tick]
  BY DEF Answers
<1>5. f \in Frame
  BY <1>2, <1>3, <1>4 DEF Frame
<1> QED
  BY <1>4, <1>5

LEMMA AnswerOrder ==
  ASSUME ChannelAssumption, OrderInv, Answer
  PROVE  OrderInv'
<1>1. PICK f \in Answers(Head(pending)) :
        /\ inbox' = Append(inbox, f)
        /\ streaming' = CASE f.of = "ticks" -> f.req
                          [] f.of = "forget_all" -> 0
                          [] OTHER -> streaming
  BY DEF Answer
<1>2. f \in Frame /\ f.tick \in {0, market}
  BY AnswerIsFrame DEF Answer, OrderInv
<1>3. ChannelTypeOK'
  <2>1. inbox' \in Seq(Frame) /\ pending' \in Seq(Request)
    BY <1>1, <1>2, TailElements, AppendElements DEF Answer, OrderInv, ChannelTypeOK
  <2>2. streaming' \in Requests
    BY <1>1, <1>2 DEF Frame, OrderInv, ChannelTypeOK, Requests, ChannelAssumption
  <2> QED
    BY <2>1, <2>2 DEF Answer, OrderInv, ChannelTypeOK
<1>4. InOrder'
  BY <1>1, <1>2, PushKeepsOrder DEF Answer, OrderInv, ChannelTypeOK, ChannelAssumption
<1> QED
  BY <1>3, <1>4 DEF OrderInv

LEMMA DropOrder ==
  ASSUME OrderInv, Drop, ChannelAssumption
  PROVE  OrderInv'
BY DEF OrderInv, Drop, ChannelTypeOK, InOrder, Requests, ChannelAssumption

LEMMA AskOrder ==
  ASSUME ChannelAssumption, OrderInv, NEW kind \in Kinds, Ask(kind)
  PROVE  OrderInv'
<1>1. reqId + 1 \in Requests /\ reqId' \in Requests
  BY DEF Ask, OrderInv, ChannelTypeOK, Requests, ChannelAssumption
<1>2. [of |-> kind, req |-> reqId + 1] \in Request
  BY <1>1 DEF Request
<1>3. pending' \in Seq(Request)
  BY <1>2 DEF Ask, OrderInv, ChannelTypeOK
<1>4. Wanted(kind) \in Nat \ {0} /\ market \in Ticks
  BY DEF Wanted, ChannelAssumption, OrderInv, ChannelTypeOK, Ticks
<1>5. call' \in Call
  BY <1>1, <1>4 DEF Ask, Call
<1> QED
  BY <1>1, <1>3, <1>5 DEF Ask, OrderInv, ChannelTypeOK, InOrder

LEMMA AskDeadOrder ==
  ASSUME ChannelAssumption, OrderInv, AskDead
  PROVE  OrderInv'
BY DEF AskDead, OrderInv, ChannelTypeOK, InOrder, Requests, ChannelAssumption

\* What follows a round trip keeps the types of what it changes.
LEMMA EndCallTypes ==
  ASSUME ChannelAssumption, ChannelTypeOK, EndCall
  PROVE  call' \in Call \cup {NoCall} /\ pending' \in Seq(Request)
<1>1. [of |-> "forget_all", req |-> 0, left |-> 1, asked |-> market] \in Call
  BY DEF Call, Kinds, Requests, Ticks, ChannelTypeOK, ChannelAssumption
<1>2. [of |-> "forget_all", req |-> 0] \in Request
  BY DEF Request, Kinds, Requests, ChannelAssumption
<1>3. pending \in Seq(Request)
  BY DEF ChannelTypeOK
<1>4. Append(pending, [of |-> "forget_all", req |-> 0]) \in Seq(Request)
  BY <1>2, <1>3, AppendElements
<1>5. CASE call.of = "ticks" /\ ws = "open"
  BY <1>1, <1>4, <1>5 DEF EndCall
<1>6. CASE ~(call.of = "ticks" /\ ws = "open")
  BY <1>3, <1>6 DEF EndCall
<1> QED
  BY <1>5, <1>6

LEMMA ReceiveOrder ==
  ASSUME ChannelAssumption, OrderInv, Receive
  PROVE  OrderInv'
<1>0. ChannelTypeOK /\ InOrder /\ call \in Call
  BY DEF OrderInv, Receive, ChannelTypeOK
<1> DEFINE f == Head(inbox)
<1>1. /\ f = inbox[1] /\ f \in Frame /\ inbox' = Tail(inbox) /\ inbox' \in Seq(Frame)
      /\ DOMAIN inbox' = 1..(Len(inbox) - 1) /\ DOMAIN inbox = 1..Len(inbox)
      /\ Len(inbox) \in Nat \ {0}
      /\ \A i \in DOMAIN inbox' : inbox'[i] = inbox[i + 1] /\ i + 1 \in DOMAIN inbox
  BY <1>0, TailElements DEF Receive, ChannelTypeOK
<1>2. TickOf(f) \in {0, f.tick} /\ f.tick \in Ticks
  BY <1>1 DEF TickOf, Frame
<1>3. TakeFrame(f)
  BY DEF Receive
<1>4. ChannelTypeOK'
  <2>1. read' \in Ticks
    BY <1>0, <1>2, <1>3 DEF TakeFrame, ChannelTypeOK
  <2>2. call' \in Call \cup {NoCall} /\ pending' \in Seq(Request)
    <3>1. CASE EndCall
      BY <1>0, <3>1, EndCallTypes
    <3>2. CASE /\ call.left > 1
               /\ call' = [call EXCEPT !.left = @ - 1]
               /\ UNCHANGED pending
      BY <1>0, <3>2, SMTT(30) DEF Call, ChannelTypeOK
    <3> QED
      BY <1>3, <3>1, <3>2 DEF TakeFrame
  <2>3. punctual' \in BOOLEAN
    BY <1>0, <1>3 DEF TakeFrame, ChannelTypeOK
  <2> QED
    BY <1>0, <1>1, <1>3, <2>1, <2>2, <2>3 DEF TakeFrame, ChannelTypeOK
<1>5. InOrder'
  <2>1. market' = market /\ read' = IF TickOf(f) = 0 THEN read ELSE TickOf(f)
    BY <1>3 DEF TakeFrame
  <2>2. 1 \in DOMAIN inbox
    BY <1>1
  <2>3. \A i \in DOMAIN inbox' : 1 < i + 1
    BY <1>1
  <2>4. (read <= market)'
    BY <1>0, <1>1, <1>2, <2>1, <2>2 DEF InOrder
  <2>5. \A i \in DOMAIN inbox' :
          inbox'[i].tick # 0 => read' <= inbox'[i].tick /\ inbox'[i].tick <= market
    BY <1>0, <1>1, <1>2, <2>1, <2>2, <2>3 DEF InOrder
  <2>6. \A i, j \in DOMAIN inbox' :
          i < j /\ inbox'[i].tick # 0 /\ inbox'[j].tick # 0 =>
            inbox'[i].tick <= inbox'[j].tick
    BY <1>0, <1>1 DEF InOrder
  <2> QED
    BY <2>1, <2>4, <2>5, <2>6 DEF InOrder
<1> QED
  BY <1>4, <1>5 DEF OrderInv

LEMMA GiveUpOrder ==
  ASSUME ChannelAssumption, OrderInv, GiveUp
  PROVE  OrderInv'
<1>1. call' \in Call \cup {NoCall} /\ pending' \in Seq(Request)
  BY EndCallTypes DEF GiveUp, OrderInv
<1> QED
  BY <1>1 DEF GiveUp, OrderInv, ChannelTypeOK, InOrder

LEMMA CloseOrder ==
  ASSUME ChannelAssumption, OrderInv, Close
  PROVE  OrderInv'
BY DEF Close, Hangup, OrderInv, ChannelTypeOK, InOrder, Requests, ChannelAssumption

-----------------------------------------------------------------------------
(* Answers and calls.                                                      *)

LEMMA InitPunctual ==
  ASSUME ChannelInit
  PROVE  Punctual
BY DEF ChannelInit, Punctual

LEMMA MarketTickPunctual ==
  ASSUME ChannelAssumption, ChannelTypeOK, Punctual, MarketTick
  PROVE  Punctual'
<1> SUFFICES ASSUME punctual
             PROVE  Punctual'
  BY DEF MarketTick, Punctual
<1>1. CASE streaming = 0
  <2>1. inbox' = inbox /\ market <= market'
    BY <1>1, FramesInSocket DEF MarketTick
  <2>2. call # NoCall /\ call.asked <= market => call.asked <= market'
    BY FramesInSocket DEF MarketTick, ChannelTypeOK, Call, Ticks
  <2> QED
    BY <1>1, <2>1, <2>2 DEF MarketTick, Punctual, AllOfThisCall
<1>2. CASE streaming # 0
  <2>1. call \in Call /\ AllOfThisCall /\ call # NoCall
    BY <1>2 DEF Punctual, ChannelTypeOK
  <2>2. call.of = "ticks" /\ streaming = call.req /\ call.asked \in Nat /\ market \in Nat
    BY <1>2, <2>1, FramesInSocket DEF AllOfThisCall, Call, Ticks
  <2>3. call.asked <= market + 1
    BY <2>1, <2>2 DEF AllOfThisCall
  <2>4. market + 1 \in 1..MaxTicks
    BY DEF MarketTick, ChannelTypeOK, ChannelAssumption
  <2>5. Pushed(market + 1) \in Frame
    BY <2>4 DEF Pushed, Frame, Kinds, ChannelTypeOK, Ticks
  <2>6. /\ \A i \in DOMAIN inbox' : i \in DOMAIN inbox \/ i = Len(inbox) + 1
        /\ \A i \in DOMAIN inbox : inbox'[i] = inbox[i]
        /\ inbox'[Len(inbox) + 1] = Pushed(market + 1)
    BY <1>2, <2>5, AppendElements DEF MarketTick, ChannelTypeOK
  <2>7. \A i \in DOMAIN inbox' :
          /\ inbox'[i].req = call.req
          /\ inbox'[i].tick # 0 => inbox'[i].tick >= call.asked
    BY <2>1, <2>2, <2>3, <2>6 DEF AllOfThisCall, Pushed
  <2> QED
    BY <1>2, <2>1, <2>2, <2>3, <2>7 DEF MarketTick, Punctual, AllOfThisCall
<1> QED
  BY <1>1, <1>2

LEMMA AnswerPunctual ==
  ASSUME ChannelAssumption, ChannelTypeOK, Punctual, Answer
  PROVE  Punctual'
<1> SUFFICES ASSUME punctual
             PROVE  Punctual'
  BY DEF Answer, Punctual
<1>1. PICK f \in Answers(Head(pending)) :
        /\ inbox' = Append(inbox, f)
        /\ streaming' = CASE f.of = "ticks" -> f.req
                          [] f.of = "forget_all" -> 0
                          [] OTHER -> streaming
  BY DEF Answer
<1>2. /\ call # NoCall /\ call \in Call /\ AllOfThisCall
  BY DEF Answer, Punctual, ChannelTypeOK
<1>3. /\ Head(pending) = pending[1] /\ 1 \in DOMAIN pending
      /\ Len(pending) \in Nat \ {0} /\ Len(pending') = Len(pending) - 1
      /\ \A i \in DOMAIN pending' : pending'[i] = pending[i + 1] /\ i + 1 \in DOMAIN pending
  BY TailElements DEF Answer, ChannelTypeOK
<1>4. Head(pending).of = call.of /\ Head(pending).req = call.req
  BY <1>2, <1>3 DEF AllOfThisCall
<1>5. f \in Frame /\ f.tick \in {0, market} /\ f.req = call.req /\ f.of \in {call.of, "error"}
  BY <1>4, AnswerIsFrame DEF Answer
<1>6. /\ \A i \in DOMAIN inbox' : i \in DOMAIN inbox \/ i = Len(inbox) + 1
      /\ \A i \in DOMAIN inbox : inbox'[i] = inbox[i]
      /\ inbox'[Len(inbox) + 1] = f
      /\ Len(inbox') = Len(inbox) + 1 /\ Len(inbox) \in Nat
  BY <1>1, <1>5, AppendElements DEF ChannelTypeOK
<1>7. call.asked \in Nat /\ market \in Nat /\ call.asked <= market
  BY <1>2, FramesInSocket DEF AllOfThisCall, Call, Ticks
<1>8. \A i \in DOMAIN inbox' :
        /\ inbox'[i].req = call.req
        /\ inbox'[i].tick # 0 => inbox'[i].tick >= call.asked
  BY <1>2, <1>5, <1>6, <1>7 DEF AllOfThisCall
<1>9. \A i \in DOMAIN pending' : pending'[i] = [of |-> call.of, req |-> call.req]
  BY <1>2, <1>3 DEF AllOfThisCall
<1>10. streaming' \in {0, call.req} /\ (call.of # "ticks" => streaming' = 0)
  <2>1. CASE f.of = "ticks"
    BY <1>1, <1>5, <2>1
  <2>2. CASE f.of = "forget_all"
    BY <1>1, <2>2
  <2>3. CASE f.of \notin {"ticks", "forget_all"}
    BY <1>1, <1>2, <2>3 DEF AllOfThisCall
  <2> QED
    BY <2>1, <2>2, <2>3
<1>11. call.of # "ticks" => Len(pending') + Len(inbox') <= 1
  BY <1>2, <1>3, <1>6 DEF AllOfThisCall
<1>12. AllOfThisCall'
  BY <1>2, <1>7, <1>8, <1>9, <1>10, <1>11 DEF AllOfThisCall, Answer
<1> QED
  BY <1>2, <1>12 DEF Punctual, Answer

LEMMA AskPunctual ==
  ASSUME ChannelAssumption, ChannelTypeOK, Punctual,
         NEW kind \in Kinds \ {"forget_all"}, Ask(kind)
  PROVE  Punctual'
<1> SUFFICES ASSUME punctual
             PROVE  Punctual'
  BY DEF Ask, Punctual
<1>1. pending = <<>> /\ inbox = <<>> /\ streaming = 0 /\ market \in Nat
  BY FramesInSocket DEF Ask, Punctual
<1>2. /\ inbox' = <<>> /\ streaming' = 0 /\ market' = market
      /\ call'.of = kind /\ call'.req = reqId + 1 /\ call'.asked = market
  BY <1>1 DEF Ask
<1>3. /\ DOMAIN pending' = {1} /\ Len(pending') = 1
      /\ pending'[1] = [of |-> kind, req |-> reqId + 1]
  BY <1>1 DEF Ask
<1>4. AllOfThisCall'
  BY <1>1, <1>2, <1>3 DEF AllOfThisCall
<1>5. call' # NoCall
  BY <1>2 DEF NoCall, Kinds
<1> QED
  BY <1>4, <1>5 DEF Punctual

LEMMA ReceivePunctual ==
  ASSUME ChannelAssumption, ChannelTypeOK, Punctual, Receive
  PROVE  Punctual'
<1>1. TakeFrame(Head(inbox)) /\ call \in Call /\ call # NoCall
  BY DEF Receive, ChannelTypeOK
<1> SUFFICES ASSUME punctual, call.of # "ticks"
             PROVE  Punctual'
  BY <1>1 DEF TakeFrame, Punctual
<1>2. AllOfThisCall
  BY <1>1 DEF Punctual
<1>3. /\ Len(inbox) \in Nat \ {0} /\ Len(inbox') = Len(inbox) - 1 /\ inbox' \in Seq(Frame)
      /\ \A i \in DOMAIN inbox' : inbox'[i] = inbox[i + 1] /\ i + 1 \in DOMAIN inbox
  BY TailElements DEF Receive, ChannelTypeOK
<1>4. streaming = 0 /\ Len(pending) + Len(inbox) <= 1 /\ Len(pending) \in Nat
      /\ pending \in Seq(Request)
  BY <1>2 DEF AllOfThisCall, ChannelTypeOK
<1>5. CASE EndCall
  <2>1. call' = NoCall /\ pending' = pending /\ streaming' = 0
    BY <1>1, <1>4, <1>5 DEF EndCall, TakeFrame
  <2>2. Len(pending) = 0 /\ Len(inbox') = 0
    BY <1>3, <1>4
  <2>3. pending' = <<>> /\ inbox' = <<>>
    BY <1>3, <1>4, <2>1, <2>2
  <2> QED
    BY <2>1, <2>3 DEF Punctual
<1>6. CASE call' = [call EXCEPT !.left = @ - 1] /\ UNCHANGED pending
  <2>1. /\ call'.of = call.of /\ call'.req = call.req /\ call'.asked = call.asked
        /\ call' # NoCall
    BY <1>1, <1>6 DEF Call, NoCall
  <2>2. market' = market /\ streaming' = streaming
    BY <1>1 DEF TakeFrame
  <2>3. AllOfThisCall'
    BY <1>2, <1>3, <1>4, <1>6, <2>1, <2>2 DEF AllOfThisCall
  <2> QED
    BY <2>1, <2>3 DEF Punctual
<1> QED
  BY <1>1, <1>5, <1>6 DEF TakeFrame

\* A drop, a refused request, a call given up and a closed socket put nothing
\* into the socket.
LEMMA OtherPunctual ==
  ASSUME ChannelTypeOK, Punctual, Drop \/ AskDead \/ GiveUp \/ Close
  PROVE  Punctual'
<1>1. CASE Drop
  <2>1. Len(inbox) \in Nat /\ Len(pending) \in Nat
    BY DEF ChannelTypeOK
  <2>2. pending' = <<>> /\ Len(pending') = 0 /\ streaming' = 0
    BY <1>1 DEF Drop
  <2>3. AllOfThisCall => AllOfThisCall'
    BY <1>1, <2>1, <2>2 DEF Drop, AllOfThisCall
  <2> QED
    BY <1>1, <2>2, <2>3 DEF Drop, Punctual
<1>2. CASE AskDead
  BY <1>2 DEF AskDead, Punctual, AllOfThisCall
<1>3. CASE GiveUp
  BY <1>3 DEF GiveUp, Punctual
<1>4. CASE Close
  BY <1>4 DEF Close, Hangup, Punctual
<1> QED
  BY <1>1, <1>2, <1>3, <1>4

-----------------------------------------------------------------------------
(* The theorems.                                                           *)

ChannelInv == OrderInv /\ Punctual

LEMMA ChannelStep ==
  ASSUME ChannelAssumption, ChannelInv, [ChannelNext]_channelVars
  PROVE  ChannelInv'
<1>0. OrderInv /\ ChannelTypeOK /\ Punctual
  BY DEF ChannelInv, OrderInv
<1>1. CASE MarketTick
  BY <1>0, <1>1, MarketTickOrder, MarketTickPunctual DEF ChannelInv
<1>2. CASE Answer
  BY <1>0, <1>2, AnswerOrder, AnswerPunctual DEF ChannelInv
<1>3. CASE Drop
  BY <1>0, <1>3, DropOrder, OtherPunctual DEF ChannelInv
<1>4. CASE \E kind \in Kinds \ {"forget_all"} : Ask(kind)
  BY <1>0, <1>4, AskOrder, AskPunctual DEF ChannelInv
<1>5. CASE AskDead
  BY <1>0, <1>5, AskDeadOrder, OtherPunctual DEF ChannelInv
<1>6. CASE Receive
  BY <1>0, <1>6, ReceiveOrder, ReceivePunctual DEF ChannelInv
<1>7. CASE GiveUp
  BY <1>0, <1>7, GiveUpOrder, OtherPunctual DEF ChannelInv
<1>8. CASE Close
  BY <1>0, <1>8, CloseOrder, OtherPunctual DEF ChannelInv
<1>9. CASE UNCHANGED channelVars
  BY <1>9 DEF channelVars, ChannelInv, OrderInv, ChannelTypeOK, InOrder, Punctual,
              AllOfThisCall
<1> QED
  BY <1>1, <1>2, <1>3, <1>4, <1>5, <1>6, <1>7, <1>8, <1>9 DEF ChannelNext

\* Whatever the market, the server and the network do, the ticks in the socket
\* are in the order of the market and not older than the newest one read.
THEOREM ChannelCorrect == ChannelSpec => []ChannelInv
<1>1. ChannelInit => ChannelInv
  BY ChannelAssumption, InitInOrder, InitPunctual DEF ChannelInv
<1>2. ChannelInv /\ [ChannelNext]_channelVars => ChannelInv'
  BY ChannelAssumption, ChannelStep
<1> QED
  BY <1>1, <1>2, PTL DEF ChannelSpec

\* The variables of the channel keep their types.
THEOREM ChannelTypes == ChannelSpec => []ChannelTypeOK
<1>1. ChannelInv => ChannelTypeOK
  BY DEF ChannelInv, OrderInv
<1> QED
  BY <1>1, ChannelCorrect, PTL

\* As long as no call was late and none was a subscription, what is in the
\* socket answers the call that waits (_ws_roundtrip takes the next frame and
\* does not look at its req_id).
THEOREM AnswersMatch == ChannelSpec => []AnswersMatchCalls
<1>1. ChannelInv => AnswersMatchCalls
  BY DEF ChannelInv, Punctual, AllOfThisCall, AnswersMatchCalls
<1> QED
  BY <1>1, ChannelCorrect, PTL

\* The channel implements the reader: every tick the caller is given is at
\* least as new as the one before it, and none is from the future.
THEOREM ChannelImplementsReader == ChannelSpec => ImplementsReader
<1>1. ChannelInit => TicksInOrder!Init
  BY DEF ChannelInit, TicksInOrder!Init
<1>2. ASSUME ChannelInv, [ChannelNext]_channelVars
      PROVE  [TicksInOrder!Next]_<<market, read>>
  <2> USE <1>2
  <2>1. CASE MarketTick
    BY <2>1 DEF MarketTick, TicksInOrder!Next, TicksInOrder!Trade
  <2>2. CASE Receive
    <3>1. ChannelTypeOK /\ InOrder /\ TakeFrame(Head(inbox))
      BY <2>2 DEF ChannelInv, OrderInv, Receive
    <3>2. 1 \in DOMAIN inbox /\ Head(inbox) = inbox[1]
      BY <2>2, <3>1, TailElements DEF Receive, ChannelTypeOK
    <3>3. /\ Head(inbox).tick \in Nat /\ market \in Nat /\ read \in Nat /\ read <= market
          /\ Head(inbox).tick # 0 => Head(inbox).tick \in read..market
      BY <3>1, <3>2, FramesInSocket, ChannelAssumption DEF InOrder
    <3>4. TickOf(Head(inbox)) \in {0, Head(inbox).tick}
      BY DEF TickOf
    <3>5. read' \in read..market /\ market' = market
      BY <3>1, <3>3, <3>4 DEF TakeFrame
    <3> QED
      BY <3>5 DEF TicksInOrder!Next, TicksInOrder!Read
  <2>3. CASE Answer \/ Drop \/ AskDead \/ GiveUp \/ Close
             \/ (\E kind \in Kinds \ {"forget_all"} : Ask(kind))
    BY <2>3 DEF Answer, Drop, AskDead, GiveUp, Close, Ask
  <2>4. CASE UNCHANGED channelVars
    BY <2>4 DEF channelVars
  <2> QED
    BY <2>1, <2>2, <2>3, <2>4 DEF ChannelNext
<1> QED
  BY <1>1, <1>2, ChannelCorrect, PTL DEF ChannelSpec, ImplementsReader, TicksInOrder!Spec

-----------------------------------------------------------------------------
(* The channel under the session.                                          *)

\* A step of the session or of its surroundings is a step of the channel, leaves
\* it alone, or is an interrupt that abandons the call.
Moves ==
  \/ ChannelNext
  \/ UNCHANGED channelVars
  \/ /\ call' = NoCall
     /\ UNCHANGED <<market, ws, reqId, pending, streaming, inbox, read, punctual>>

LEMMA StepMoves ==
  ASSUME [Next]_vars
  PROVE  Moves
<1>1. CASE Connect \/ Evaluate \/ Emit \/ Finish \/ WriteSummary \/ Die
  BY <1>1 DEF Connect, Evaluate, EvaluateSilent, EvaluateBehind, EvaluateSignal, Emit,
              AppendLine, AppendFails, Count, Finish, WriteSummary, Die, Moves
<1>2. CASE Poll
  <2>1. "ticks_history" \in Kinds \ {"forget_all"}
    BY DEF Kinds
  <2> QED
    BY <1>2, <2>1 DEF Poll, PollAsk, PollRefused, PollNothing, PollDuplicate, PollAccept,
                      Moves, ChannelNext
<1>3. CASE Disconnect \/ InterruptTick \/ World
  BY <1>3 DEF Disconnect, InterruptTick, World, Moves, ChannelNext
<1>4. CASE Interrupt
  BY <1>4 DEF Interrupt, Moves
<1>5. CASE UNCHANGED vars
  BY <1>5 DEF vars, Moves
<1> QED
  BY <1>1, <1>2, <1>3, <1>4, <1>5 DEF Next, Session

LEMMA MovesKeepOrder ==
  ASSUME ChannelAssumption, OrderInv, Moves
  PROVE  OrderInv'
<1>1. CASE ChannelNext
  BY <1>1, MarketTickOrder, AnswerOrder, DropOrder, AskOrder, AskDeadOrder, ReceiveOrder,
     GiveUpOrder, CloseOrder DEF ChannelNext
<1>2. CASE UNCHANGED channelVars
  BY <1>2 DEF channelVars, OrderInv, ChannelTypeOK, InOrder
<1>3. CASE /\ call' = NoCall
           /\ UNCHANGED <<market, ws, reqId, pending, streaming, inbox, read, punctual>>
  BY <1>3 DEF OrderInv, ChannelTypeOK, InOrder
<1> QED
  BY <1>1, <1>2, <1>3 DEF Moves

\* A tick that is received is one of the market, no older than any before it, and
\* is now the newest one read.
LEMMA ReceivedTick ==
  ASSUME ChannelAssumption, OrderInv, Receive, TickOf(Head(inbox)) # 0
  PROVE  /\ TickOf(Head(inbox)) \in 1..MaxTicks
         /\ read <= TickOf(Head(inbox)) /\ read' = TickOf(Head(inbox))
         /\ read \in Nat
<1> DEFINE f == Head(inbox)
<1>1. ChannelTypeOK /\ InOrder /\ TakeFrame(f)
  BY DEF OrderInv, Receive
<1>2. 1 \in DOMAIN inbox /\ f = inbox[1] /\ f \in Frame
  BY <1>1, TailElements DEF Receive, ChannelTypeOK
<1>3. TickOf(f) = f.tick
  BY DEF TickOf
<1>4. f.tick \in Ticks /\ f.tick # 0
  BY <1>2, <1>3 DEF Frame
<1>5. read \in Nat /\ read <= f.tick
  BY <1>1, <1>2, <1>4, FramesInSocket DEF InOrder
<1>6. f.tick \in 1..MaxTicks
  BY <1>4 DEF Ticks, ChannelAssumption
<1> QED
  BY <1>1, <1>3, <1>5, <1>6 DEF TakeFrame

-----------------------------------------------------------------------------
(* Types.                                                                  *)

FeedTypes ==
  /\ prices \in [1..MaxTicks -> Nat]
  /\ closes \in Seq(Nat) /\ Len(closes) <= BufferMax
  /\ lastEpoch \in Times
  /\ seen \in Nat /\ rejected \in Nat /\ duplicate \in Nat
  /\ accepted \in Seq(1..MaxTicks)

OutTypes ==
  /\ lastSign \in Directions \cup {"unknown"}
  /\ polls \in Nat /\ emitted \in Nat /\ failures \in Nat
  /\ lastTs \in Times
  /\ signal \in Signal \cup {NoSignal}
  /\ pc \in {"append", "count"} => signal \in Signal
  /\ file \in Seq(Line \cup {Garbage})
  /\ torn \in BOOLEAN
  /\ lost \in Nat

ControlTypes ==
  /\ prices \in Paths
  /\ pc \in {"connect", "close", "summary"} \cup InLoop \cup Ended
  /\ stoppedBy \in {"max_signals", "max_polls", "manual_stop"}

Types == OrderInv /\ ControlTypes /\ FeedTypes /\ OutTypes

LEMMA TypesAreTypes ==
  ASSUME Types
  PROVE  TypeOK
BY DEF Types, TypeOK, OrderInv, ControlTypes, FeedTypes, OutTypes

LEMMA InitTypes ==
  ASSUME ChannelAssumption, ObservationAssumption, Init
  PROVE  Types
<1>1. OrderInv
  BY InitInOrder DEF Init
<1>2. ControlTypes
  BY DEF Init, ControlTypes, InLoop, Ended
<1>3. FeedTypes
  BY DEF Init, FeedTypes, Times, ObservationAssumption
<1>4. OutTypes
  <2>0. file \in Seq(Line \cup {Garbage})
    BY DEF Init
  <2>1. torn \in BOOLEAN
    BY DEF Init
  <2>2. /\ lastSign \in Directions \cup {"unknown"}
        /\ polls \in Nat /\ emitted \in Nat /\ failures \in Nat /\ lost \in Nat
        /\ lastTs \in Times /\ signal \in Signal \cup {NoSignal}
        /\ pc \notin {"append", "count"}
    BY DEF Init, Times
  <2> QED
    BY <2>0, <2>1, <2>2 DEF OutTypes
<1> QED
  BY <1>1, <1>2, <1>3, <1>4 DEF Types

LEMMA StepControlTypes ==
  ASSUME Types, [Next]_vars
  PROVE  ControlTypes'
<1> USE DEF Types, ControlTypes, InLoop, Ended
<1>1. CASE Poll
  BY <1>1 DEF Poll, PollAsk, PollRefused, PollNothing, PollDuplicate, PollAccept, Reject,
              Quiet
<1>2. CASE Evaluate \/ Emit
  BY <1>2 DEF Evaluate, EvaluateSilent, EvaluateBehind, EvaluateSignal, Emit, AppendLine,
              AppendFails, Count
<1>3. CASE Connect \/ Finish \/ Disconnect \/ WriteSummary \/ Interrupt \/ InterruptTick
           \/ Die \/ World
  BY <1>3 DEF Connect, Quiet, Finish, Disconnect, WriteSummary, Interrupt, InterruptTick,
              Die, World
<1>4. CASE UNCHANGED vars
  BY <1>4 DEF vars
<1> QED
  BY <1>1, <1>2, <1>3, <1>4 DEF Next, Session

\* The buffer stays within its bound.
LEMMA BufferedType ==
  ASSUME ObservationAssumption, FeedTypes, NEW c \in Nat
  PROVE  /\ Buffered(c) \in Seq(Nat) /\ Len(Buffered(c)) <= BufferMax
         /\ Buffered(c) # <<>>
<1>1. closes \in Seq(Nat) /\ Len(closes) \in Nat /\ Len(closes) <= BufferMax
  BY DEF FeedTypes
<1>2. BufferMax \in Nat /\ BufferMax > 0
  BY DEF ObservationAssumption
<1>3. CASE Len(closes) < BufferMax
  <2>1. /\ Append(closes, c) \in Seq(Nat) /\ Len(Append(closes, c)) = Len(closes) + 1
    BY <1>1, AppendElements
  <2> QED
    BY <1>1, <1>2, <1>3, <2>1 DEF Buffered
<1>4. CASE ~(Len(closes) < BufferMax)
  <2>1. closes # <<>>
    BY <1>1, <1>2, <1>4
  <2>2. Tail(closes) \in Seq(Nat) /\ Len(Tail(closes)) = Len(closes) - 1
    BY <1>1, <2>1, TailElements
  <2>3. /\ Append(Tail(closes), c) \in Seq(Nat)
        /\ Len(Append(Tail(closes), c)) = Len(Tail(closes)) + 1
    BY <2>2, AppendElements
  <2> QED
    BY <1>1, <1>2, <1>4, <2>2, <2>3 DEF Buffered
<1> QED
  BY <1>3, <1>4

LEMMA AcceptTypes ==
  ASSUME ChannelAssumption, ObservationAssumption, Types, PollAccept
  PROVE  FeedTypes'
<1> DEFINE t == TickOf(Head(inbox))
<1>1. t \in 1..MaxTicks
  BY ReceivedTick DEF PollAccept, Types
<1>2. prices[t] \in Nat
  BY <1>1 DEF Types, FeedTypes
<1>3. closes' \in Seq(Nat) /\ Len(closes') <= BufferMax
  BY <1>2, BufferedType DEF PollAccept, Types
<1>4. accepted' \in Seq(1..MaxTicks)
  BY <1>1, AppendElements DEF PollAccept, Types, FeedTypes
<1>5. lastEpoch' \in Times
  <2>1. market \in Nat
    BY FramesInSocket DEF Types, OrderInv
  <2>2. ReceiptTimes \subseteq Times
    BY <2>1 DEF ReceiptTimes, Times, ObservationAssumption
  <2> QED
    BY <1>1, <2>2 DEF PollAccept, Times
<1> QED
  BY <1>3, <1>4, <1>5 DEF PollAccept, Quiet, Types, FeedTypes

LEMMA StepFeedTypes ==
  ASSUME ChannelAssumption, ObservationAssumption, Types, [Next]_vars
  PROVE  FeedTypes'
<1>0. FeedTypes
  BY DEF Types
<1>1. CASE PollAccept
  BY <1>1, AcceptTypes
<1>2. CASE PollAsk \/ PollRefused \/ PollNothing \/ PollDuplicate
  BY <1>0, <1>2, SMTT(30) DEF PollAsk, PollRefused, PollNothing, PollDuplicate, Reject, Quiet,
                    feedVars, FeedTypes
<1>3. CASE Evaluate \/ Emit
  BY <1>0, <1>3 DEF Evaluate, EvaluateSilent, EvaluateBehind, EvaluateSignal, Emit,
                    AppendLine, AppendFails, Count, feedVars, FeedTypes
<1>4. CASE Connect \/ Finish \/ Disconnect \/ WriteSummary \/ Interrupt \/ InterruptTick
           \/ Die \/ World
  BY <1>0, <1>4 DEF Connect, Quiet, Finish, Disconnect, WriteSummary, Interrupt,
                    InterruptTick, Die, World, feedVars, FeedTypes
<1>5. CASE UNCHANGED vars
  BY <1>0, <1>5 DEF vars, feedVars, FeedTypes
<1> QED
  BY <1>1, <1>2, <1>3, <1>4, <1>5 DEF Next, Session, Poll

\* The relation of the averages is one of three.
LEMMA SignType == Sign \in Directions \cup {"flat"}
BY DEF Sign, Relation, Directions

\* What AppendLine writes is a line, and not what a torn write leaves.
LEMMA NewLine ==
  ASSUME OutTypes, pc = "append"
  PROVE  /\ [ts |-> signal.ts, dir |-> signal.dir, gap |-> lost] \in Line
         /\ [ts |-> signal.ts, dir |-> signal.dir, gap |-> lost] # Garbage
         /\ signal.ts \in Nat /\ signal.dir \in Directions
<1>1. signal \in Signal /\ lost \in Nat
  BY DEF OutTypes
<1>2. signal.ts \in Times /\ signal.dir \in Directions
  BY <1>1 DEF Signal
<1>3. "ts" \in DOMAIN [ts |-> signal.ts, dir |-> signal.dir, gap |-> lost]
  OBVIOUS
<1>4. "ts" \notin DOMAIN Garbage
  BY DEF Garbage
<1> QED
  BY <1>1, <1>2, <1>3, <1>4 DEF Line, Times

LEMMA StepOutTypes ==
  ASSUME Types, [Next]_vars
  PROVE  OutTypes'
<1>0. OutTypes
  BY DEF Types
<1>1. CASE Poll
  BY <1>0, <1>1 DEF Poll, PollAsk, PollRefused, PollNothing, PollDuplicate, PollAccept,
                    Reject, Quiet, outVars, OutTypes
<1>2. CASE Evaluate
  <2>1. lastSign' \in Directions \cup {"unknown"}
    BY <1>0, <1>2, SignType DEF Evaluate, EvaluateSilent, EvaluateBehind, EvaluateSignal,
                                Remember, OutTypes
  <2>2. EvaluateSignal => signal' \in Signal
    <3>1. lastEpoch \in Times
      BY DEF Types, FeedTypes
    <3>2. EvaluateSignal => Sign \in Directions
      BY SignType DEF EvaluateSignal, Decides
    <3> QED
      BY <3>1, <3>2 DEF EvaluateSignal, Signal
  <2> QED
    BY <1>0, <1>2, <2>1, <2>2 DEF Evaluate, EvaluateSilent, EvaluateBehind, EvaluateSignal,
                                  outVars, OutTypes
<1>3. CASE AppendLine
  <2>1. file' \in Seq(Line \cup {Garbage})
    BY <1>0, <1>3, NewLine, AppendElements DEF AppendLine, OutTypes
  <2>2. torn' \in BOOLEAN
    BY <1>3 DEF AppendLine
  <2>3. lost' \in Nat /\ signal' = signal /\ signal \in Signal
    BY <1>0, <1>3 DEF AppendLine, OutTypes
  <2> QED
    BY <1>0, <1>3, <2>1, <2>2, <2>3 DEF AppendLine, OutTypes
<1>4. CASE AppendFails
  <2>1. file' \in Seq(Line \cup {Garbage})
    BY <1>0, <1>4, AppendElements DEF AppendFails, OutTypes
  <2>2. torn' \in BOOLEAN
    BY <1>0, <1>4 DEF AppendFails, OutTypes
  <2>3. lost' \in Nat /\ failures' \in Nat /\ signal' = NoSignal /\ pc' = "poll"
    BY <1>0, <1>4 DEF AppendFails, OutTypes
  <2> QED
    BY <1>0, <1>4, <2>1, <2>2, <2>3 DEF AppendFails, OutTypes
<1>5. CASE Count
  BY <1>0, <1>5 DEF Count, OutTypes, Signal
<1>6. CASE Connect \/ Finish \/ Disconnect \/ WriteSummary \/ Interrupt \/ InterruptTick
           \/ Die \/ World
  BY <1>0, <1>6 DEF Connect, Quiet, Finish, Disconnect, WriteSummary, Interrupt,
                    InterruptTick, Die, World, outVars, OutTypes
<1>7. CASE UNCHANGED vars
  BY <1>0, <1>7 DEF vars, outVars, OutTypes
<1> QED
  BY <1>1, <1>2, <1>3, <1>4, <1>5, <1>6, <1>7 DEF Next, Session, Emit

LEMMA StepTypes ==
  ASSUME ChannelAssumption, ObservationAssumption, Types, [Next]_vars
  PROVE  Types'
<1>1. OrderInv'
  BY StepMoves, MovesKeepOrder DEF Types
<1> QED
  BY <1>1, StepControlTypes, StepFeedTypes, StepOutTypes DEF Types

\* The variables of a session keep their types, and its channel its order.
THEOREM TypesCorrect == Spec => []Types
<1>1. Init => Types
  BY ChannelAssumption, ObservationAssumption, InitTypes
<1>2. Types /\ [Next]_vars => Types'
  BY ChannelAssumption, ObservationAssumption, StepTypes
<1> QED
  BY <1>1, <1>2, PTL DEF Spec

\* TypeOK is invariant; the buffer of the feed never exceeds its length.
THEOREM SessionTypes == Spec => []TypeOK
<1>1. Types => TypeOK
  BY TypesAreTypes
<1> QED
  BY <1>1, TypesCorrect, PTL

-----------------------------------------------------------------------------
(* The lines of the file.                                                  *)

LEMMA LineTypes ==
  ASSUME OutTypes
  PROVE  /\ Lines \subseteq 1..Len(file) /\ Len(file) \in Nat
         /\ \A i \in Lines : /\ file[i] \in Line
                             /\ file[i].ts \in Nat /\ file[i].dir \in Directions
                             /\ file[i].gap \in Nat
<1>1. file \in Seq(Line \cup {Garbage})
  BY DEF OutTypes
<1>2. \A i \in DOMAIN file : file[i] \in Line \cup {Garbage}
  BY <1>1
<1>3. \A i \in Lines : file[i] \in Line
  BY <1>2 DEF Lines
<1>4. \A l \in Line : l.ts \in Nat /\ l.dir \in Directions /\ l.gap \in Nat
  BY DEF Line, Times
<1>5. Lines \subseteq 1..Len(file) /\ Len(file) \in Nat
  BY <1>1 DEF Lines
<1> QED
  BY <1>3, <1>4, <1>5

\* A line that is written whole goes behind the others.
Written == AppendLine /\ ~torn

NewLineOf == [ts |-> signal.ts, dir |-> signal.dir, gap |-> lost]

LEMMA WrittenLines ==
  ASSUME OutTypes, Written
  PROVE  /\ Lines' = Lines \cup {Len(file) + 1}
         /\ Len(file) + 1 \notin Lines
         /\ \A i \in Lines : file'[i] = file[i] /\ i < Len(file) + 1
         /\ file'[Len(file) + 1] = NewLineOf
<1>1. file' = Append(file, NewLineOf) /\ pc = "append"
  BY DEF Written, AppendLine, NewLineOf
<1>2. NewLineOf \in Line /\ NewLineOf # Garbage
  BY <1>1, NewLine DEF NewLineOf
<1>3. /\ DOMAIN file' = 1..(Len(file) + 1)
      /\ DOMAIN file = 1..Len(file) /\ Len(file) \in Nat
      /\ \A i \in DOMAIN file : file'[i] = file[i]
      /\ file'[Len(file) + 1] = NewLineOf
  BY <1>1, <1>2, AppendElements DEF OutTypes
<1>4. \A i \in DOMAIN file' : i \in DOMAIN file \/ i = Len(file) + 1
  BY <1>3
<1>5. Lines' = {i \in DOMAIN file' : file'[i] # Garbage}
  BY DEF Lines
<1>6. Len(file) + 1 \in DOMAIN file' /\ DOMAIN file \subseteq DOMAIN file'
  BY <1>3
<1>7. Lines' = Lines \cup {Len(file) + 1}
  BY <1>2, <1>3, <1>4, <1>5, <1>6 DEF Lines
<1>8. \A i \in Lines : i < Len(file) + 1 /\ i \in DOMAIN file
  BY <1>3 DEF Lines
<1> QED
  BY <1>3, <1>7, <1>8

\* No other step changes a line or adds one.
SameLines == Lines' = Lines /\ \A i \in Lines : file'[i] = file[i]

LEMMA OtherLines ==
  ASSUME OutTypes, [Next]_vars, ~Written
  PROVE  SameLines
<1>1. CASE file' = file
  BY <1>1 DEF SameLines, Lines
<1>2. CASE AppendFails /\ file' = Append(file, Garbage)
  <2>1. /\ DOMAIN file' = 1..(Len(file) + 1)
        /\ DOMAIN file = 1..Len(file) /\ Len(file) \in Nat
        /\ \A i \in DOMAIN file : file'[i] = file[i]
        /\ file'[Len(file) + 1] = Garbage
    BY <1>2, AppendElements DEF OutTypes
  <2>2. \A i \in DOMAIN file' : i \in DOMAIN file \/ i = Len(file) + 1
    BY <2>1
  <2>3. Lines' = {i \in DOMAIN file' : file'[i] # Garbage}
    BY DEF Lines
  <2>4. DOMAIN file \subseteq DOMAIN file'
    BY <2>1
  <2>5. Lines' = Lines
    BY <2>1, <2>2, <2>3, <2>4 DEF Lines
  <2> QED
    BY <2>1, <2>5 DEF SameLines, Lines
<1>3. CASE AppendFails
  BY <1>1, <1>2, <1>3 DEF AppendFails
<1>4. CASE AppendLine
  <2>1. file' = file
    BY <1>4 DEF AppendLine, Written
  <2> QED
    BY <1>1, <2>1
<1>5. CASE Poll \/ Evaluate \/ Count
  <2>1. file' = file
    BY <1>5 DEF Poll, PollAsk, PollRefused, PollNothing, PollDuplicate, PollAccept, Reject,
                Quiet, outVars, Evaluate, EvaluateSilent, EvaluateBehind, EvaluateSignal,
                Count
  <2> QED
    BY <1>1, <2>1
<1>6. CASE Connect \/ Finish \/ Disconnect \/ WriteSummary \/ Interrupt \/ InterruptTick
           \/ Die \/ World \/ UNCHANGED vars
  <2>1. file' = file
    BY <1>6 DEF Connect, Quiet, Finish, Disconnect, WriteSummary, Interrupt,
                InterruptTick, Die, World, outVars, vars
  <2> QED
    BY <1>1, <2>1
<1> QED
  BY <1>3, <1>4, <1>5, <1>6 DEF Next, Session, Emit

-----------------------------------------------------------------------------
(* Timestamps.                                                             *)

LinesUpTo(n) == \A i \in Lines : file[i].ts <= n

\* The lines are not later than the last signal counted, and a signal on its way
\* to the file is later.
TimesInv ==
  /\ TimestampsIncrease
  /\ pc \in {"connect", "poll", "quote", "evaluate", "append"} => LinesUpTo(lastTs)
  /\ pc = "append" => lastTs < signal.ts
  /\ pc = "count" => LinesUpTo(signal.ts)

LEMMA StepTimes ==
  ASSUME Types, TimesInv, [Next]_vars
  PROVE  TimesInv'
<1>0. /\ OutTypes
      /\ lastTs \in Nat /\ lastEpoch \in Nat
      /\ pc \in {"append", "count"} => signal.ts \in Nat
  BY DEF Types, OutTypes, FeedTypes, Times, Signal
<1>1. CASE Written
  <2>1. pc = "append" /\ pc' = "count" /\ signal' = signal
    BY <1>1 DEF Written, AppendLine
  <2>2. \A i \in Lines : file[i].ts \in Nat /\ file[i].ts < signal.ts
    BY <1>0, <2>1, LineTypes DEF TimesInv, LinesUpTo
  <2>3. TimestampsIncrease'
    <3> DEFINE n == Len(file) + 1
    <3>1. /\ Lines' = Lines \cup {n}
          /\ \A i \in Lines : file'[i] = file[i] /\ i < n
          /\ file'[n].ts = signal.ts
      BY <1>0, <1>1, WrittenLines DEF NewLineOf
    <3>2. n \in Nat /\ Lines \subseteq Nat
      BY <1>0, LineTypes
    <3> SUFFICES ASSUME NEW i \in Lines', NEW j \in Lines', i < j
                 PROVE  file'[i].ts < file'[j].ts
      BY DEF TimestampsIncrease
    <3> HIDE DEF n
    <3>3. i \in Lines
      BY <3>1, <3>2
    <3>4. CASE j \in Lines
      BY <3>1, <3>3, <3>4 DEF TimesInv, TimestampsIncrease
    <3>5. CASE j = n
      BY <2>2, <3>1, <3>3, <3>5
    <3> QED
      BY <3>1, <3>4, <3>5
  <2>4. LinesUpTo(signal.ts)'
    BY <1>0, <1>1, <2>1, <2>2, WrittenLines DEF LinesUpTo, NewLineOf
  <2> QED
    BY <2>1, <2>3, <2>4 DEF TimesInv
<1>2. CASE ~Written
  <2>1. SameLines
    BY <1>0, <1>2, OtherLines
  <2>2. TimestampsIncrease'
    BY <2>1 DEF TimesInv, TimestampsIncrease, SameLines
  <2>3. \A n \in Nat : LinesUpTo(n) => \A i \in Lines' : file'[i].ts <= n
    BY <2>1 DEF LinesUpTo, SameLines
  <2>4. CASE pc' \in {"close", "summary"} \cup Ended
    BY <2>2, <2>4 DEF TimesInv, Ended
  <2>5. CASE EvaluateSignal
    <3>1. lastTs < lastEpoch /\ signal'.ts = lastEpoch /\ pc = "evaluate" /\ pc' = "append"
          /\ lastTs' = lastTs
      BY <1>0, <2>5 DEF EvaluateSignal, Advances
    <3> QED
      BY <1>0, <2>2, <2>3, <3>1 DEF TimesInv, LinesUpTo
  <2>6. CASE AppendLine
    <3>1. pc = "append" /\ pc' = "count" /\ signal' = signal
      BY <2>6 DEF AppendLine
    <3>2. LinesUpTo(lastTs) /\ lastTs < signal.ts
      BY <3>1 DEF TimesInv
    <3>3. LinesUpTo(signal.ts)
      BY <1>0, <3>1, <3>2, LineTypes DEF LinesUpTo
    <3> QED
      BY <1>0, <2>2, <2>3, <3>1, <3>3 DEF TimesInv, LinesUpTo
  <2>7. CASE AppendFails
    BY <1>0, <2>2, <2>3, <2>7 DEF AppendFails, TimesInv, LinesUpTo
  <2>8. CASE Count
    BY <1>0, <2>2, <2>3, <2>8 DEF Count, TimesInv, LinesUpTo
  <2>9. CASE Connect \/ Poll \/ EvaluateSilent \/ EvaluateBehind
    <3>1. /\ lastTs' = lastTs /\ pc \in {"connect", "poll", "quote", "evaluate"}
          /\ pc' \in {"poll", "quote", "evaluate"}
      BY <2>9 DEF Connect, Poll, PollAsk, PollRefused, PollNothing, PollDuplicate,
                  PollAccept, Reject, MayPoll, Quiet, outVars, EvaluateSilent,
                  EvaluateBehind
    <3> QED
      BY <1>0, <2>2, <2>3, <3>1 DEF TimesInv, LinesUpTo
  <2>10. CASE World \/ UNCHANGED vars
    <3>1. pc' = pc /\ lastTs' = lastTs /\ signal' = signal
      BY <2>10 DEF World, vars, outVars
    <3> QED
      BY <1>0, <2>2, <2>3, <3>1 DEF TimesInv, LinesUpTo
  <2>11. CASE Finish \/ Disconnect \/ WriteSummary \/ Interrupt \/ InterruptTick \/ Die
    BY <2>4, <2>11 DEF Finish, Disconnect, WriteSummary, Interrupt, InterruptTick, Die,
                       Ended
  <2> QED
    BY <2>5, <2>6, <2>7, <2>8, <2>9, <2>10, <2>11 DEF Next, Session, Evaluate, Emit
<1> QED
  BY <1>1, <1>2

\* Every signal of a session is later than the ones before it, with a clock that is
\* ahead of the market and ticks without an epoch (`snap.timestamp <= last_emitted_ts`
\* in run_live).
THEOREM TimestampsCorrect == Spec => []TimestampsIncrease
<1>1. Init => TimesInv
  BY DEF Init, TimesInv, TimestampsIncrease, LinesUpTo, Lines
<1>2. Types /\ TimesInv /\ [Next]_vars => TimesInv'
  BY StepTimes
<1>3. TimesInv => TimestampsIncrease
  BY DEF TimesInv
<1> QED
  BY <1>1, <1>2, <1>3, TypesCorrect, PTL DEF Spec

-----------------------------------------------------------------------------
(* Closes.                                                                 *)

LEMMA ReadGrows ==
  ASSUME ChannelAssumption, OrderInv, Moves
  PROVE  read \in Nat /\ read' \in Nat /\ read <= read'
<1>1. read \in Nat /\ read' \in Nat
  <2>1. OrderInv'
    BY MovesKeepOrder
  <2>2. Ticks \subseteq Nat
    BY DEF Ticks, ChannelAssumption
  <2> QED
    BY <2>1, <2>2 DEF OrderInv, ChannelTypeOK
<1>2. CASE Receive
  <2>1. TakeFrame(Head(inbox))
    BY <1>2 DEF Receive
  <2>2. CASE TickOf(Head(inbox)) = 0
    BY <1>1, <2>1, <2>2 DEF TakeFrame
  <2>3. CASE TickOf(Head(inbox)) # 0
    BY <1>1, <1>2, <2>3, ReceivedTick
  <2> QED
    BY <2>2, <2>3
<1>3. CASE MarketTick \/ Answer \/ Drop \/ (\E kind \in Kinds \ {"forget_all"} : Ask(kind))
           \/ AskDead \/ GiveUp \/ Close
  <2>1. read' = read
    BY <1>3 DEF MarketTick, Answer, Drop, Ask, AskDead, GiveUp, Close
  <2> QED
    BY <1>1, <2>1
<1>4. CASE UNCHANGED read
  BY <1>1, <1>4
<1> QED
  BY <1>2, <1>3, <1>4 DEF Moves, ChannelNext, channelVars

NewestClose == accepted[Len(accepted)]

\* The newest close came from the newest tick read or an older one, and is the one
\* the feed compares with.
EpochInv ==
  /\ EpochIsOneClose
  /\ accepted # <<>> =>
       /\ NewestClose <= read
       /\ closes # <<>>
       /\ NewestClose \notin Epochless => lastEpoch = NewestClose

LEMMA AcceptEpoch ==
  ASSUME ChannelAssumption, ObservationAssumption, Types, EpochInv, PollAccept
  PROVE  EpochInv'
<1> DEFINE t == TickOf(Head(inbox))
           n == Len(accepted) + 1
<1>1. /\ t \in 1..MaxTicks /\ read <= t /\ read' = t /\ read \in Nat
      /\ t \in Nat
  BY ReceivedTick DEF PollAccept, Types
<1>2. /\ accepted' = Append(accepted, t) /\ ~IsReread(t)
      /\ closes' = Buffered(prices[t])
      /\ lastEpoch' \in IF t \in Epochless THEN ReceiptTimes ELSE {t}
  BY DEF PollAccept
<1>3. /\ DOMAIN accepted' = 1..n /\ Len(accepted') = n /\ DOMAIN accepted = 1..Len(accepted)
      /\ Len(accepted) \in Nat /\ \A i \in DOMAIN accepted : accepted'[i] = accepted[i]
      /\ accepted'[n] = t
      /\ \A i \in DOMAIN accepted : accepted[i] \in 1..MaxTicks
  <2>1. accepted \in Seq(1..MaxTicks)
    BY DEF Types, FeedTypes
  <2>2. \A i \in DOMAIN accepted : accepted[i] \in 1..MaxTicks
    BY <2>1
  <2> QED
    BY <1>1, <1>2, <2>1, <2>2, AppendElements
<1>4. closes' # <<>>
  BY <1>1, <1>2, BufferedType DEF Types, FeedTypes
<1>5. \A i \in DOMAIN accepted : accepted[i] \in Nat
  BY <1>3, ChannelAssumption DEF ChannelAssumption
<1>6. \A i \in DOMAIN accepted :
        /\ accepted[i] <= t
        /\ accepted[i] = t => t \in Epochless
  <2> SUFFICES ASSUME NEW i \in DOMAIN accepted
               PROVE  accepted[i] <= t /\ (accepted[i] = t => t \in Epochless)
    OBVIOUS
  <2>1. /\ Len(accepted) \in DOMAIN accepted /\ accepted # <<>>
        /\ i = Len(accepted) \/ i < Len(accepted)
    BY <1>3
  <2>2. accepted[i] <= NewestClose /\ NewestClose \in Nat
    BY <1>5, <2>1 DEF EpochInv, EpochIsOneClose, NewestClose
  <2>3. /\ NewestClose <= read /\ closes # <<>>
        /\ NewestClose \notin Epochless => lastEpoch = NewestClose
    BY <2>1 DEF EpochInv
  <2>4. accepted[i] <= t
    BY <1>1, <1>5, <2>2, <2>3
  <2>5. ASSUME accepted[i] = t, t \notin Epochless
        PROVE  FALSE
    <3>1. NewestClose = t
      BY <1>1, <1>5, <2>2, <2>3, <2>5
    <3> QED
      BY <1>2, <2>3, <2>5, <3>1 DEF IsReread
  <2> QED
    BY <2>4, <2>5
<1>7. EpochIsOneClose'
  <2> SUFFICES ASSUME NEW i \in DOMAIN accepted', NEW j \in DOMAIN accepted', i < j
               PROVE  /\ accepted'[i] <= accepted'[j]
                      /\ accepted'[i] = accepted'[j] => accepted'[i] \in Epochless
    BY DEF EpochIsOneClose
  <2>1. i \in DOMAIN accepted /\ (j \in DOMAIN accepted \/ j = n)
    BY <1>3
  <2>2. CASE j \in DOMAIN accepted
    BY <1>3, <2>1, <2>2 DEF EpochInv, EpochIsOneClose
  <2>3. CASE j = n
    BY <1>3, <1>6, <2>1, <2>3
  <2> QED
    BY <2>1, <2>2, <2>3
<1>8. NewestClose' = t
  BY <1>3 DEF NewestClose
<1> QED
  BY <1>1, <1>2, <1>4, <1>7, <1>8 DEF EpochInv

LEMMA StepEpoch ==
  ASSUME ChannelAssumption, ObservationAssumption, Types, EpochInv, [Next]_vars
  PROVE  EpochInv'
<1>1. CASE PollAccept
  BY <1>1, AcceptEpoch
<1>2. CASE UNCHANGED <<closes, lastEpoch, accepted>>
  <2>1. read \in Nat /\ read' \in Nat /\ read <= read'
    BY StepMoves, ReadGrows DEF Types
  <2>2. accepted # <<>> => NewestClose \in Nat
    <3>1. accepted \in Seq(1..MaxTicks) /\ 1..MaxTicks \subseteq Nat
      BY DEF Types, FeedTypes, ChannelAssumption
    <3>2. accepted # <<>> => Len(accepted) \in DOMAIN accepted
      BY <3>1
    <3> QED
      BY <3>1, <3>2 DEF NewestClose
  <2> QED
    BY <1>2, <2>1, <2>2 DEF EpochInv, EpochIsOneClose, NewestClose
<1>3. CASE PollAsk \/ PollRefused \/ PollNothing \/ PollDuplicate
  BY <1>2, <1>3 DEF PollAsk, PollRefused, PollNothing, PollDuplicate, Reject, feedVars
<1>4. CASE Evaluate \/ Emit
  BY <1>2, <1>4 DEF Evaluate, EvaluateSilent, EvaluateBehind, EvaluateSignal, Emit,
                    AppendLine, AppendFails, Count, feedVars
<1>5. CASE Connect \/ Finish \/ Disconnect \/ WriteSummary \/ Interrupt \/ InterruptTick
           \/ Die \/ World \/ UNCHANGED vars
  BY <1>2, <1>5 DEF Connect, Finish, Disconnect, WriteSummary, Interrupt, InterruptTick,
                    Die, World, feedVars, vars
<1> QED
  BY <1>1, <1>3, <1>4, <1>5 DEF Next, Session, Poll

\* Closes are in the order of the market, and a tick that has an epoch is never two of
\* them (`float(epoch) == self._last_epoch` in poll()): what the channel gives out is
\* in order, so that comparing with the newest close is enough.
THEOREM ClosesCorrect == Spec => []EpochIsOneClose
<1>1. Init => EpochInv
  BY DEF Init, EpochInv, EpochIsOneClose
<1>2. Types /\ EpochInv /\ [Next]_vars => EpochInv'
  BY ChannelAssumption, ObservationAssumption, StepEpoch
<1>3. EpochInv => EpochIsOneClose
  BY DEF EpochInv
<1> QED
  BY <1>1, <1>2, <1>3, TypesCorrect, PTL DEF Spec

-----------------------------------------------------------------------------
(* Directions.                                                             *)

LEMMA Parity ==
  ASSUME NEW n \in Nat
  PROVE  /\ n % 2 \in {0, 1}
         /\ n % 2 = 0 => (n + 1) % 2 = 1
         /\ n % 2 = 1 => (n + 1) % 2 = 0
OBVIOUS

IsLast(i) == i \in Lines /\ \A k \in Lines : k <= i

\* The sign in memory is that of the last line, turned once for each crossing lost.
SignFollows(count) ==
  \A i \in Lines :
    IsLast(i) =>
      /\ lastSign \in Directions
      /\ lastSign = file[i].dir <=> count % 2 = 0

AlternateInv ==
  Strategy = "ema_cross" =>
    /\ SignalsAlternate
    /\ pc \in {"connect", "poll", "quote", "evaluate", "count"} => SignFollows(lost)
    /\ pc = "append" => signal.dir = lastSign /\ SignFollows(lost + 1)

\* What a crossing does to the sign, and what its absence leaves alone.
LEMMA Turns ==
  ASSUME OutTypes, Strategy = "ema_cross", SignFollows(lost), Remember
  PROVE  /\ Decides => /\ \A i \in Lines : IsLast(i) =>
                            (lastSign' = file[i].dir <=> (lost + 1) % 2 = 0)
                       /\ lastSign' = Sign /\ lastSign' \in Directions
         /\ ~Decides => \A i \in Lines : IsLast(i) => lastSign' = lastSign
<1>1. Sign \in Directions \cup {"flat"} /\ lastSign \in Directions \cup {"unknown"}
  BY SignType DEF OutTypes
<1>2. "flat" \notin Directions /\ "unknown" \notin Directions
      /\ \A a, b, c \in Directions : a # b => (a = c <=> b # c)
  BY DEF Directions
<1>3. ASSUME Decides
      PROVE  /\ Sign \in Directions /\ lastSign \in Directions /\ Sign # lastSign
             /\ lastSign' = Sign
  BY <1>1, <1>2, <1>3 DEF Decides, Crosses, Remember
<1>4. ASSUME Decides, NEW i \in Lines, IsLast(i)
      PROVE  lastSign' = file[i].dir <=> (lost + 1) % 2 = 0
  <2>1. file[i].dir \in Directions /\ lost \in Nat
    BY LineTypes DEF OutTypes
  <2>2. lastSign = file[i].dir <=> lost % 2 = 0
    BY <1>4 DEF SignFollows
  <2>3. lastSign' = file[i].dir <=> lastSign # file[i].dir
    BY <1>2, <1>3, <1>4, <2>1
  <2>4. (lost + 1) % 2 = 0 <=> lost % 2 # 0
    BY <2>1, Parity
  <2> QED
    BY <2>2, <2>3, <2>4
<1>5. ASSUME ~Decides, NEW i \in Lines, IsLast(i)
      PROVE  lastSign' = lastSign
  <2>1. lastSign \in Directions
    BY <1>5 DEF SignFollows
  <2>2. CASE Sign = "flat"
    BY <2>2 DEF Remember
  <2>3. CASE Sign # "flat"
    BY <1>2, <1>5, <2>1, <2>3 DEF Decides, Crosses, Remember
  <2> QED
    BY <2>2, <2>3
<1> QED
  BY <1>3, <1>4, <1>5

LEMMA WrittenAlternate ==
  ASSUME Types, AlternateInv, Written, Strategy = "ema_cross"
  PROVE  AlternateInv'
<1> DEFINE n == Len(file) + 1
<1>1. /\ OutTypes /\ pc = "append" /\ pc' = "count" /\ lost' = 0 /\ lastSign' = lastSign
  BY DEF Types, Written, AppendLine
<1>2. /\ Lines' = Lines \cup {n} /\ n \notin Lines
      /\ \A i \in Lines : file'[i] = file[i] /\ i < n
      /\ file'[n].dir = signal.dir /\ file'[n].gap = lost
  BY <1>1, WrittenLines DEF NewLineOf
<1>3. signal.dir = lastSign /\ SignFollows(lost + 1) /\ SignalsAlternate
  BY <1>1 DEF AlternateInv
<1>4. n \in Nat /\ Lines \subseteq Nat /\ signal.dir \in Directions /\ lost \in Nat
  BY <1>1, LineTypes, NewLine DEF OutTypes
<1> HIDE DEF n
<1>5. SignalsAlternate'
  <2> SUFFICES ASSUME NEW i \in Lines', NEW j \in Lines', Follows(i, j)'
               PROVE  file'[i].dir = file'[j].dir <=> file'[j].gap % 2 = 1
    BY DEF SignalsAlternate
  <2>1. i < j /\ \A k \in Lines' : k <= i \/ j <= k
    BY DEF Follows
  <2>2. i \in Lines
    BY <1>2, <1>4, <2>1
  <2>3. CASE j \in Lines
    <3>1. Follows(i, j)
      BY <1>2, <2>1 DEF Follows
    <3> QED
      BY <1>2, <1>3, <2>2, <2>3, <3>1 DEF SignalsAlternate
  <2>4. CASE j = n
    <3>1. \A k \in Lines : k <= i
      BY <1>2, <1>4, <2>1, <2>4
    <3>2. lastSign = file[i].dir <=> (lost + 1) % 2 = 0
      BY <1>3, <2>2, <3>1 DEF SignFollows, IsLast
    <3>3. (lost + 1) % 2 = 0 <=> lost % 2 = 1
      BY <1>4, Parity
    <3> QED
      BY <1>2, <1>3, <2>2, <2>4, <3>2, <3>3
  <2> QED
    BY <1>2, <2>3, <2>4
<1>6. SignFollows(lost)'
  <2> SUFFICES ASSUME NEW i \in Lines', IsLast(i)'
               PROVE  /\ lastSign' \in Directions
                      /\ lastSign' = file'[i].dir <=> lost' % 2 = 0
    BY DEF SignFollows
  <2>1. i = n
    BY <1>2, <1>4 DEF IsLast
  <2>2. 0 % 2 = 0
    OBVIOUS
  <2> QED
    BY <1>1, <1>2, <1>3, <1>4, <2>1, <2>2
<1> QED
  BY <1>1, <1>5, <1>6 DEF AlternateInv

LEMMA OtherAlternate ==
  ASSUME Types, AlternateInv, [Next]_vars, ~Written, Strategy = "ema_cross"
  PROVE  AlternateInv'
<1>0. OutTypes /\ lost \in Nat
  BY DEF Types, OutTypes
<1>1. SameLines
  BY <1>0, OtherLines
<1>2. SignalsAlternate'
  BY <1>1 DEF AlternateInv, SignalsAlternate, Follows, SameLines
<1>3. \A i \in Lines' : i \in Lines /\ (IsLast(i)' => IsLast(i)) /\ file'[i] = file[i]
  BY <1>1 DEF SameLines, IsLast
<1>4. CASE pc' \in {"close", "summary"} \cup Ended
  BY <1>2, <1>4 DEF AlternateInv, Ended
<1>5. CASE EvaluateSilent
  <2>1. /\ pc = "evaluate" /\ pc' = "poll" /\ ~Decides /\ Remember /\ lost' = lost
    BY <1>5 DEF EvaluateSilent, outVars
  <2>2. SignFollows(lost)
    BY <2>1 DEF AlternateInv
  <2>3. SignFollows(lost)'
    BY <1>0, <1>3, <2>1, <2>2, Turns DEF SignFollows
  <2> QED
    BY <1>2, <2>1, <2>3 DEF AlternateInv
<1>6. CASE EvaluateBehind
  <2>1. /\ pc = "evaluate" /\ pc' = "poll" /\ Decides /\ Remember /\ lost' = lost + 1
    BY <1>6 DEF EvaluateBehind
  <2>2. SignFollows(lost)
    BY <2>1 DEF AlternateInv
  <2>3. SignFollows(lost)'
    BY <1>0, <1>3, <2>1, <2>2, Turns DEF SignFollows
  <2> QED
    BY <1>2, <2>1, <2>3 DEF AlternateInv
<1>7. CASE EvaluateSignal
  <2>1. /\ pc = "evaluate" /\ pc' = "append" /\ Decides /\ Remember /\ lost' = lost
        /\ signal'.dir = Sign
    BY <1>7 DEF EvaluateSignal
  <2>2. SignFollows(lost)
    BY <2>1 DEF AlternateInv
  <2>3. SignFollows(lost + 1)' /\ lastSign' = Sign
    BY <1>0, <1>3, <2>1, <2>2, Turns DEF SignFollows
  <2> QED
    BY <1>2, <2>1, <2>3 DEF AlternateInv
<1>8. CASE AppendLine \/ AppendFails
  <2>1. /\ pc = "append" /\ pc' \in {"poll", "count"} /\ lastSign' = lastSign
        /\ lost' = lost + 1
    BY <1>8 DEF AppendLine, AppendFails, Written
  <2>2. SignFollows(lost + 1)
    BY <2>1 DEF AlternateInv
  <2>3. SignFollows(lost)'
    BY <1>3, <2>1, <2>2 DEF SignFollows
  <2> QED
    BY <1>2, <2>1, <2>3 DEF AlternateInv
<1>9. CASE Connect \/ Poll \/ Count
  <2>1. /\ pc \in {"connect", "poll", "quote", "count"} /\ pc' \in {"poll", "quote", "evaluate"}
        /\ lastSign' = lastSign /\ lost' = lost
    BY <1>9 DEF Connect, Poll, PollAsk, PollRefused, PollNothing, PollDuplicate,
                PollAccept, Reject, MayPoll, Quiet, outVars, Count
  <2>2. SignFollows(lost)
    BY <2>1 DEF AlternateInv
  <2>3. SignFollows(lost)'
    BY <1>3, <2>1, <2>2 DEF SignFollows
  <2> QED
    BY <1>2, <2>1, <2>3 DEF AlternateInv
<1>10. CASE World \/ UNCHANGED vars
  <2>1. pc' = pc /\ lastSign' = lastSign /\ lost' = lost /\ signal' = signal
    BY <1>10 DEF World, vars, outVars
  <2>2. /\ SignFollows(lost) => SignFollows(lost)'
        /\ SignFollows(lost + 1) => SignFollows(lost + 1)'
    BY <1>3, <2>1 DEF SignFollows
  <2> QED
    BY <1>2, <2>1, <2>2 DEF AlternateInv
<1>11. CASE Finish \/ Disconnect \/ WriteSummary \/ Interrupt \/ InterruptTick \/ Die
  BY <1>4, <1>11 DEF Finish, Disconnect, WriteSummary, Interrupt, InterruptTick, Die, Ended
<1> QED
  BY <1>5, <1>6, <1>7, <1>8, <1>9, <1>10, <1>11 DEF Next, Session, Evaluate, Emit

\* Two signals of a crossing strategy in a row have one direction only when an odd
\* number of crossings between them was lost (EmaCross advances _last_sign before
\* the signal is written).
THEOREM DirectionsCorrect == Spec => []SignalsAlternate
<1>1. Init => AlternateInv
  BY DEF Init, AlternateInv, SignalsAlternate, SignFollows, Lines
<1>2. Types /\ AlternateInv /\ [Next]_vars => AlternateInv'
  <2>1. CASE Strategy # "ema_cross"
    BY <2>1 DEF AlternateInv
  <2>2. CASE Strategy = "ema_cross"
    BY <2>2, WrittenAlternate, OtherAlternate
  <2> QED
    BY <2>1, <2>2
<1>3. AlternateInv => SignalsAlternate
  BY DEF AlternateInv, SignalsAlternate
<1> QED
  BY <1>1, <1>2, <1>3, TypesCorrect, PTL DEF Spec

-----------------------------------------------------------------------------
(* Counters.                                                               *)

Counted == rejected + duplicate + Len(accepted)

\* Every poll is counted, but the one that waits and one that was interrupted.
TicksInv ==
  /\ Counted <= seen /\ seen <= polls /\ polls <= Counted + 1
  /\ pc \in {"connect", "poll", "evaluate", "append", "count"} => polls = Counted
  /\ pc = "quote" => seen = Counted /\ polls = Counted + 1
  /\ pc \in {"close", "summary", "done"} => polls = Counted \/ stoppedBy = "manual_stop"

LEMMA StepTicks ==
  ASSUME ChannelAssumption, ObservationAssumption, Types, TicksInv, [Next]_vars
  PROVE  TicksInv'
<1>0. /\ polls \in Nat /\ seen \in Nat /\ rejected \in Nat /\ duplicate \in Nat
      /\ Len(accepted) \in Nat /\ Counted \in Nat
      /\ pc \in {"connect", "close", "summary"} \cup InLoop \cup Ended
  <2>1. Len(accepted) \in Nat
    BY DEF Types, FeedTypes
  <2> QED
    BY <2>1 DEF Types, FeedTypes, OutTypes, ControlTypes, Counted
<1>1. CASE PollAsk
  BY <1>0, <1>1 DEF PollAsk, MayPoll, feedVars, TicksInv, Counted
<1>2. CASE PollRefused
  BY <1>0, <1>2 DEF PollRefused, MayPoll, Reject, TicksInv, Counted
<1>3. CASE PollNothing
  BY <1>0, <1>3 DEF PollNothing, Reject, TicksInv, Counted
<1>4. CASE PollDuplicate
  BY <1>0, <1>4 DEF PollDuplicate, TicksInv, Counted
<1>5. CASE PollAccept
  <2>1. Len(accepted') = Len(accepted) + 1
    BY <1>5, ReceivedTick, AppendElements DEF PollAccept, Types, FeedTypes
  <2>2. /\ pc = "quote" /\ pc' \in {"evaluate", "poll"} /\ seen' = seen + 1 /\ polls' = polls
        /\ rejected' = rejected /\ duplicate' = duplicate
    BY <1>5 DEF PollAccept
  <2> QED
    BY <1>0, <2>1, <2>2 DEF TicksInv, Counted
<1>6. CASE InterruptTick
  BY <1>0, <1>6 DEF InterruptTick, TicksInv, Counted
<1>7. CASE Evaluate \/ Emit
  <2>1. /\ UNCHANGED <<polls, seen, rejected, duplicate, accepted>>
        /\ pc \in {"evaluate", "append", "count"} /\ pc' \in {"poll", "append", "count"}
    BY <1>7 DEF Evaluate, EvaluateSilent, EvaluateBehind, EvaluateSignal, Emit, AppendLine,
                AppendFails, Count, feedVars
  <2> QED
    BY <1>0, <2>1 DEF TicksInv, Counted
<1>8. CASE Connect \/ Finish \/ Disconnect \/ WriteSummary
  <2>1. /\ UNCHANGED <<polls, seen, rejected, duplicate, accepted>>
        /\ \/ pc = "connect" /\ pc' = "poll"
           \/ pc = "poll" /\ pc' = "close"
           \/ pc \in {"close", "summary"} /\ pc' \in {"summary", "done"} /\ stoppedBy' = stoppedBy
    BY <1>8 DEF Connect, Finish, Disconnect, WriteSummary, feedVars
  <2> QED
    BY <1>0, <2>1 DEF TicksInv, Counted
<1>9. CASE Interrupt \/ Die
  <2>1. /\ UNCHANGED <<polls, seen, rejected, duplicate, accepted>>
        /\ \/ pc' = "close" /\ stoppedBy' = "manual_stop"
           \/ pc' = "died"
    BY <1>9 DEF Interrupt, Die, feedVars
  <2> QED
    BY <1>0, <2>1 DEF TicksInv, Counted
<1>10. CASE World \/ UNCHANGED vars
  <2>1. UNCHANGED <<polls, seen, rejected, duplicate, accepted, pc, stoppedBy>>
    BY <1>10 DEF World, vars, feedVars
  <2> QED
    BY <1>0, <2>1 DEF TicksInv, Counted
<1> QED
  BY <1>1, <1>2, <1>3, <1>4, <1>5, <1>6, <1>7, <1>8, <1>9, <1>10 DEF Next, Session, Poll

\* Every answered poll is a tick seen, and every tick seen is a close or is counted as
\* skipped, through errors, re-reads and interrupts (the counters of poll() and run_live
\* that the summary reports).
THEOREM TicksCorrect == Spec => []TicksAccounted
<1>1. Init => TicksInv
  <2>1. Len(<<>>) = 0
    OBVIOUS
  <2> QED
    BY <2>1 DEF Init, TicksInv, Counted
<1>2. Types /\ TicksInv /\ [Next]_vars => TicksInv'
  BY ChannelAssumption, ObservationAssumption, StepTicks
<1>3. Types /\ TicksInv => TicksAccounted
  BY DEF Types, ControlTypes, TicksInv, TicksAccounted, Counted, InLoop, Ended
<1> QED
  BY <1>1, <1>2, <1>3, TypesCorrect, PTL DEF Spec

Broken == IF torn THEN 1 ELSE 0

Whole == Cardinality(Lines)

LEMMA LinesCounted ==
  ASSUME OutTypes
  PROVE  Whole \in Nat /\ IsFiniteSet(Lines)
<1>1. Lines \subseteq 1..Len(file) /\ Len(file) \in Nat
  BY LineTypes
<1>2. IsFiniteSet(1..Len(file))
  BY <1>1, FS_Interval
<1>3. IsFiniteSet(Lines)
  BY <1>1, <1>2, FS_Subset
<1> QED
  BY <1>3, FS_CardinalityType DEF Whole

\* The signals counted are lines, but for one that each failed write may have taken
\* with it; a torn line holds one back.
CountInv ==
  /\ emitted <= MaxSignals /\ Whole <= emitted + 1
  /\ pc \in {"quote", "evaluate", "append", "count"} => emitted < MaxSignals
  /\ pc = "count" => emitted + 1 + Broken <= Whole + failures
  /\ pc # "count" => emitted + Broken <= Whole + failures
  /\ pc \in {"connect", "poll", "quote", "evaluate", "append"} => Whole <= emitted
  /\ pc \in {"close", "summary", "done"} /\ Whole = emitted + 1 => stoppedBy = "manual_stop"

LEMMA StepCount ==
  ASSUME ObservationAssumption, Types, CountInv, [Next]_vars
  PROVE  CountInv'
<1>0. /\ OutTypes /\ emitted \in Nat /\ failures \in Nat /\ MaxSignals \in Nat
      /\ Whole \in Nat /\ IsFiniteSet(Lines) /\ Broken \in {0, 1} /\ Broken' \in {0, 1}
      /\ torn \in BOOLEAN
      /\ pc \in {"connect", "close", "summary"} \cup InLoop \cup Ended
  <2>1. OutTypes
    BY DEF Types
  <2>2. Broken \in {0, 1} /\ Broken' \in {0, 1}
    BY DEF Broken
  <2> QED
    BY <2>1, <2>2, LinesCounted DEF Types, OutTypes, ControlTypes, ObservationAssumption
<1>1. CASE Written
  <2>1. Whole' = Whole + 1
    BY <1>0, <1>1, WrittenLines, FS_AddElement DEF Whole
  <2>2. Broken = 0 /\ Broken' = 0
    BY <1>1 DEF Written, AppendLine, Broken
  <2>3. pc = "append" /\ pc' = "count" /\ emitted' = emitted /\ failures' = failures
    BY <1>1 DEF Written, AppendLine
  <2> QED
    BY <1>0, <2>1, <2>2, <2>3 DEF CountInv
<1>2. CASE ~Written
  <2>0. Whole' = Whole
    BY <1>0, <1>2, OtherLines DEF Whole, SameLines
  <2>1. CASE AppendLine
    <3>1. Broken = 1 /\ Broken' = 0
      BY <1>2, <2>1 DEF Written, AppendLine, Broken
    <3>2. pc = "append" /\ pc' = "count" /\ emitted' = emitted /\ failures' = failures
      BY <2>1 DEF AppendLine
    <3> QED
      BY <1>0, <2>0, <3>1, <3>2 DEF CountInv
  <2>2. CASE AppendFails
    <3>1. /\ pc = "append" /\ pc' = "poll" /\ emitted' = emitted
          /\ failures' = failures + 1
      BY <2>2 DEF AppendFails
    <3>2. emitted <= MaxSignals /\ Whole <= emitted /\ emitted + Broken <= Whole + failures
      BY <3>1 DEF CountInv
    <3>3. emitted <= Whole + failures
      BY <1>0, <3>2
    <3>4. emitted' + Broken' <= Whole' + failures'
      <4>1. emitted + 1 <= Whole + (failures + 1)
        BY <1>0, <3>3
      <4>2. CASE Broken' = 0
        BY <1>0, <2>0, <3>1, <3>3, <4>2
      <4>3. CASE Broken' = 1
        BY <2>0, <3>1, <4>1, <4>3
      <4> QED
        BY <1>0, <4>2, <4>3
    <3>5. Whole' <= emitted' + 1
      BY <1>0, <2>0, <3>1, <3>2
    <3> QED
      BY <2>0, <3>1, <3>2, <3>4, <3>5 DEF CountInv
  <2>3. CASE Count
    <3>1. /\ pc = "count" /\ pc' = "poll" /\ emitted' = emitted + 1
          /\ failures' = failures /\ torn' = torn
      BY <2>3 DEF Count
    <3> QED
      BY <1>0, <2>0, <3>1 DEF CountInv, Broken
  <2>4. CASE Poll
    <3>1. /\ UNCHANGED <<emitted, failures, torn>>
          /\ pc \in {"poll", "quote"} /\ pc' \in {"poll", "quote", "evaluate"}
          /\ pc = "quote" \/ emitted < MaxSignals
      BY <2>4 DEF Poll, PollAsk, PollRefused, PollNothing, PollDuplicate, PollAccept,
                  MayPoll, Reject, Quiet, outVars
    <3> QED
      BY <1>0, <2>0, <3>1 DEF CountInv, Broken
  <2>5. CASE Evaluate
    <3>1. /\ UNCHANGED <<emitted, failures, torn>>
          /\ pc = "evaluate" /\ pc' \in {"poll", "append"}
      BY <2>5 DEF Evaluate, EvaluateSilent, EvaluateBehind, EvaluateSignal, outVars
    <3> QED
      BY <1>0, <2>0, <3>1 DEF CountInv, Broken
  <2>6. CASE Connect \/ Finish \/ Disconnect \/ WriteSummary
    <3>1. /\ UNCHANGED <<emitted, failures, torn>>
          /\ \/ pc = "connect" /\ pc' = "poll"
             \/ pc = "poll" /\ pc' = "close"
             \/ /\ pc \in {"close", "summary"} /\ pc' \in {"summary", "done"}
                /\ stoppedBy' = stoppedBy
      BY <2>6 DEF Connect, Quiet, Finish, Disconnect, WriteSummary, outVars
    <3> QED
      BY <1>0, <2>0, <3>1 DEF CountInv, Broken
  <2>7. CASE Interrupt \/ InterruptTick \/ Die
    <3>1. /\ UNCHANGED <<emitted, failures, torn>>
          /\ \/ pc' = "close" /\ stoppedBy' = "manual_stop"
             \/ pc' = "died"
      BY <2>7 DEF Interrupt, InterruptTick, Die, outVars
    <3> QED
      BY <1>0, <2>0, <3>1 DEF CountInv, Broken
  <2>8. CASE World \/ UNCHANGED vars
    <3>1. UNCHANGED <<emitted, failures, torn, pc, stoppedBy>>
      BY <2>8 DEF World, vars, outVars
    <3> QED
      BY <1>0, <2>0, <3>1 DEF CountInv, Broken
  <2> QED
    BY <2>1, <2>2, <2>3, <2>4, <2>5, <2>6, <2>7, <2>8 DEF Next, Session, Emit
<1> QED
  BY <1>1, <1>2

\* signals_emitted is the number of signals in the file: one more is there at most when
\* the session was interrupted, and one fewer at most for each failed write.
THEOREM CountsCorrect == Spec => []FileMatchesCount
<1>1. Init => CountInv
  <2> SUFFICES ASSUME Init
               PROVE  CountInv
    OBVIOUS
  <2>1. Lines = {}
    BY DEF Init, Lines
  <2>2. Whole = 0 /\ Broken = 0
    BY <2>1, FS_EmptySet DEF Whole, Broken, Init
  <2>3. MaxSignals \in Nat
    BY ObservationAssumption DEF ObservationAssumption
  <2> QED
    BY <2>2, <2>3 DEF Init, CountInv
<1>2. Types /\ CountInv /\ [Next]_vars => CountInv'
  BY ObservationAssumption, StepCount
<1>3. Types /\ CountInv => FileMatchesCount
  <2> SUFFICES ASSUME Types, CountInv
               PROVE  FileMatchesCount
    OBVIOUS
  <2>1. /\ Whole \in Nat /\ emitted \in Nat /\ failures \in Nat
        /\ pc \in {"connect", "close", "summary"} \cup InLoop \cup Ended
    BY LinesCounted DEF Types, OutTypes, ControlTypes
  <2>2. Broken \in {0, 1}
    BY DEF Broken
  <2>3. Whole = Cardinality(Lines)
    BY DEF Whole
  <2> QED
    BY <2>1, <2>2, <2>3 DEF CountInv, FileMatchesCount, InLoop, Ended
<1> QED
  BY <1>1, <1>2, <1>3, TypesCorrect, PTL DEF Spec

-----------------------------------------------------------------------------
(* The reason a session stopped.                                           *)

\* Neither bound is passed inside the loop, where the reason is still the one the
\* session started with.
ReasonInv ==
  /\ emitted <= MaxSignals
  /\ pc \in {"quote", "evaluate", "append", "count"} => emitted < MaxSignals
  /\ MaxPolls # 0 => polls <= MaxPolls
  /\ pc \in {"connect"} \cup InLoop => stoppedBy = "max_signals"
  /\ pc \in {"close", "summary", "done"} /\ stoppedBy = "max_signals" => emitted = MaxSignals
  /\ pc \in {"close", "summary", "done"} /\ stoppedBy = "max_polls" =>
       polls = MaxPolls /\ emitted < MaxSignals

LEMMA StepReason ==
  ASSUME ObservationAssumption, ChannelAssumption, Types, ReasonInv, [Next]_vars
  PROVE  ReasonInv'
<1>0. /\ emitted \in Nat /\ polls \in Nat /\ MaxSignals \in Nat /\ MaxPolls \in Nat
      /\ pc \in {"connect", "close", "summary"} \cup InLoop \cup Ended
  BY DEF Types, OutTypes, ControlTypes, ObservationAssumption, ChannelAssumption
<1> USE DEF ReasonInv, InLoop, Ended
<1>1. CASE Count
  BY <1>0, <1>1 DEF Count
<1>2. CASE PollAsk \/ PollRefused
  <2>1. /\ UNCHANGED <<emitted, stoppedBy>> /\ polls' = polls + 1 /\ pc = "poll"
        /\ pc' \in {"poll", "quote"} /\ emitted < MaxSignals
        /\ MaxPolls = 0 \/ polls < MaxPolls
    BY <1>2 DEF PollAsk, PollRefused, MayPoll, Reject, Quiet, outVars
  <2> QED
    BY <1>0, <2>1
<1>3. CASE PollNothing \/ PollDuplicate \/ PollAccept
  <2>1. /\ UNCHANGED <<emitted, polls, stoppedBy>>
        /\ pc = "quote" /\ pc' \in {"poll", "evaluate"}
    BY <1>3 DEF PollNothing, PollDuplicate, PollAccept, Reject, Quiet, outVars
  <2> QED
    BY <1>0, <2>1
<1>4. CASE Evaluate \/ AppendLine \/ AppendFails
  <2>1. /\ UNCHANGED <<emitted, polls, stoppedBy>>
        /\ pc \in {"evaluate", "append"} /\ pc' \in {"poll", "append", "count"}
    BY <1>4 DEF Evaluate, EvaluateSilent, EvaluateBehind, EvaluateSignal, AppendLine,
                AppendFails, outVars
  <2> QED
    BY <1>0, <2>1
<1>5. CASE Finish
  <2>1. /\ UNCHANGED <<emitted, polls>> /\ pc = "poll" /\ pc' = "close" /\ ~MayPoll
        /\ stoppedBy' = IF emitted < MaxSignals THEN "max_polls" ELSE stoppedBy
    BY <1>5 DEF Finish, outVars
  <2>2. emitted < MaxSignals => MaxPolls # 0 /\ ~(polls < MaxPolls)
    BY <2>1 DEF MayPoll
  <2> QED
    BY <1>0, <2>1, <2>2
<1>6. CASE Connect \/ Disconnect \/ WriteSummary
  <2>1. /\ UNCHANGED <<emitted, polls, stoppedBy>>
        /\ \/ pc = "connect" /\ pc' = "poll"
           \/ pc \in {"close", "summary"} /\ pc' \in {"summary", "done"}
    BY <1>6 DEF Connect, Quiet, Disconnect, WriteSummary, outVars
  <2> QED
    BY <1>0, <2>1
<1>7. CASE Interrupt \/ InterruptTick \/ Die
  <2>1. /\ UNCHANGED <<emitted, polls>>
        /\ \/ pc' = "close" /\ stoppedBy' = "manual_stop"
           \/ pc' = "died"
    BY <1>7 DEF Interrupt, InterruptTick, Die, outVars
  <2> QED
    BY <1>0, <2>1
<1>8. CASE World \/ UNCHANGED vars
  <2>1. UNCHANGED <<emitted, polls, pc, stoppedBy>>
    BY <1>8 DEF World, vars, outVars
  <2> QED
    BY <1>0, <2>1
<1> QED
  BY <1>1, <1>2, <1>3, <1>4, <1>5, <1>6, <1>7, <1>8 DEF Next, Session, Poll, Emit

\* The summary names the bound that ended the session: all the signals were emitted,
\* or the polls were used up before.
THEOREM ReasonCorrect == Spec => []StoppedForReason
<1>1. Init => ReasonInv
  BY ObservationAssumption, ChannelAssumption
     DEF Init, ReasonInv, InLoop, ObservationAssumption, ChannelAssumption
<1>2. Types /\ ReasonInv /\ [Next]_vars => ReasonInv'
  BY ObservationAssumption, ChannelAssumption, StepReason
<1>3. ReasonInv => StoppedForReason
  BY DEF ReasonInv, StoppedForReason
<1> QED
  BY <1>1, <1>2, <1>3, TypesCorrect, PTL DEF Spec
===============================================================================
