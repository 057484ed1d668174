----------------------------- MODULE OtpChannel -----------------------------
(***************************************************************************)
(* The market data half of DerivRestOtpTransport                           *)
(* (infrastructure/broker/deriv/rest_transport.py): one WebSocket, opened  *)
(* at the first request, over which one request at a time is sent and a    *)
(* number of frames is read back.  A request carries a number that the     *)
(* answer repeats and that the code never looks at: a call takes the next  *)
(* frame of the socket, whichever call it answers.                         *)
(*                                                                         *)
(* A tick is its number in the market.  A frame names what it is, the tick *)
(* it holds (0 when it holds none) and the request it belongs to; `of' is  *)
(* "error" for a frame with an error.                                      *)
(***************************************************************************)
EXTENDS Naturals, Sequences

CONSTANTS
  StreamCount,     \* subscribe_ticks' count
  MaxTicks,        \* bound: ticks of the market
  MaxRequests      \* bound: requests sent in one life of the transport

ASSUME ChannelAssumption ==
  /\ StreamCount \in Nat \ {0}
  /\ MaxTicks \in Nat \ {0}
  /\ MaxRequests \in Nat

VARIABLES
  market,          \* number of the newest tick
  ws,              \* _ws: absent, an open socket, or an object whose connection is gone
  reqId,           \* _req_id, the number of the last request
  pending,         \* requests the server has not acted on
  streaming,       \* the subscription the server pushes ticks for, 0 for none
  inbox,           \* frames that have arrived and nobody has read
  call,            \* the round trip the caller is in, or NoCall
  read,            \* history: the newest tick taken out of the socket
  punctual         \* history: every call on this socket got its answers and nothing else

channelVars == <<market, ws, reqId, pending, streaming, inbox, call, read, punctual>>

Kinds == {"ticks_history", "contracts_for", "ticks", "forget_all"}
Ticks == 0..MaxTicks
Requests == 0..MaxRequests

Request == [of : Kinds, req : Requests]
Frame == [of : Kinds \cup {"error"}, req : Requests, tick : Ticks]

\* left: frames the call still wants; asked: the newest tick when it was sent.
Call == [of : Kinds, req : Requests, left : Nat \ {0}, asked : Ticks]
NoCall == [of |-> "none"]

ChannelTypeOK ==
  /\ market \in 1..MaxTicks
  /\ ws \in {"none", "open", "down"}
  /\ reqId \in Requests
  /\ pending \in Seq(Request)
  /\ streaming \in Requests
  /\ inbox \in Seq(Frame)
  /\ call \in Call \cup {NoCall}
  /\ read \in Ticks
  /\ punctual \in BOOLEAN

ChannelInit ==
  /\ market = 1
  /\ ws = "none"
  /\ reqId = 0
  /\ pending = <<>>
  /\ streaming = 0
  /\ inbox = <<>>
  /\ call = NoCall
  /\ read = 0
  /\ punctual = TRUE

-----------------------------------------------------------------------------
(* The market and the server at the other end.                              *)

Pushed(n) == [of |-> "ticks", req |-> streaming, tick |-> n]

MarketTick ==
  /\ market < MaxTicks
  /\ market' = market + 1
  /\ inbox' = IF streaming # 0 THEN Append(inbox, Pushed(market + 1)) ELSE inbox
  /\ UNCHANGED <<ws, reqId, pending, streaming, call, read, punctual>>

\* The server acts on its oldest request: with what it was asked for, as the
\* market is now, or with an error.
Answers(r) ==
  {[of |-> r.of, req |-> r.req,
    tick |-> IF r.of \in {"ticks_history", "ticks"} THEN market ELSE 0],
   [of |-> "error", req |-> r.req, tick |-> 0]}

Answer ==
  /\ pending # <<>>
  /\ pending' = Tail(pending)
  /\ \E f \in Answers(Head(pending)) :
       /\ inbox' = Append(inbox, f)
       /\ streaming' = CASE f.of = "ticks" -> f.req
                         [] f.of = "forget_all" -> 0
                         [] OTHER -> streaming
  /\ UNCHANGED <<market, ws, reqId, call, read, punctual>>

\* The connection is lost. The transport keeps the dead socket object, and
\* frames that had arrived can still be read.
Drop ==
  /\ ws = "open"
  /\ ws' = "down"
  /\ pending' = <<>>
  /\ streaming' = 0
  /\ UNCHANGED <<market, reqId, inbox, call, read, punctual>>

-----------------------------------------------------------------------------
(* Round trips.                                                             *)

Wanted(kind) == IF kind = "ticks" THEN StreamCount ELSE 1

\* _ensure_ws and the send of _ws_roundtrip. When no socket can be opened the
\* request ends at once and changes nothing, which is a stuttering step.
Ask(kind) ==
  /\ call = NoCall
  /\ ws # "down"
  /\ reqId < MaxRequests
  /\ ws' = "open"
  /\ reqId' = reqId + 1
  /\ pending' = Append(pending, [of |-> kind, req |-> reqId + 1])
  /\ call' = [of |-> kind, req |-> reqId + 1, left |-> Wanted(kind), asked |-> market]
  /\ UNCHANGED <<market, streaming, inbox, read, punctual>>

\* A request on a dead socket takes a number and ends with the error of send().
AskDead ==
  /\ call = NoCall
  /\ ws = "down"
  /\ reqId < MaxRequests
  /\ reqId' = reqId + 1
  /\ UNCHANGED <<market, ws, pending, streaming, inbox, call, read, punctual>>

\* What follows a round trip: _ws_forget_all after a subscription, which sends
\* without a number and throws one frame away; nothing after any other.
EndCall ==
  IF call.of = "ticks" /\ ws = "open"
    THEN /\ call' = [of |-> "forget_all", req |-> 0, left |-> 1, asked |-> market]
         /\ pending' = Append(pending, [of |-> "forget_all", req |-> 0])
    ELSE /\ call' = NoCall
         /\ UNCHANGED pending

\* The parsers of the round trip: a tick of either shape is a latest tick, a
\* stream takes only ticks, and every other frame is nothing to them.
TickOf(frame) ==
  CASE call.of = "ticks_history" -> frame.tick
    [] call.of = "ticks" /\ frame.of = "ticks" -> frame.tick
    [] OTHER -> 0

\* A fault: the count of the frames still wanted is one off.
TakeOneMore(frame) ==
  /\ read' = IF TickOf(frame) = 0 THEN read ELSE TickOf(frame)
  /\ \/ EndCall
     \/ /\ frame.of # "error"
        /\ call' = [call EXCEPT !.left = @ - 1]
        /\ UNCHANGED pending
  /\ punctual' = (punctual /\ call.of # "ticks")
  /\ UNCHANGED <<market, ws, reqId, streaming>>

\* The deadline of the round trip may pass between two frames.
TakeFrame(frame) ==
  /\ read' = IF TickOf(frame) = 0 THEN read ELSE TickOf(frame)
  /\ \/ EndCall
     \/ /\ call.left > 1 /\ frame.of # "error"
        /\ call' = [call EXCEPT !.left = @ - 1]
        /\ UNCHANGED pending
  /\ punctual' = (punctual /\ call.of # "ticks")
  /\ UNCHANGED <<market, ws, reqId, streaming>>

\* A fault: the newest frame is taken and the older ones are kept.
ReceiveNewest ==
  /\ call # NoCall
  /\ inbox # <<>>
  /\ inbox' = SubSeq(inbox, 1, Len(inbox) - 1)
  /\ TakeFrame(inbox[Len(inbox)])

\* A fault: the frame is looked at and left in the socket.
ReceivePeeking ==
  /\ call # NoCall
  /\ inbox # <<>>
  /\ UNCHANGED inbox
  /\ TakeFrame(Head(inbox))

Receive ==
  /\ call # NoCall
  /\ inbox # <<>>
  /\ inbox' = Tail(inbox)
  /\ TakeFrame(Head(inbox))

\* A fault: a call without an answer goes on waiting for it.
WaitOn ==
  /\ call # NoCall
  /\ inbox = <<>>
  /\ ws = "down"
  /\ EndCall
  /\ punctual' = FALSE
  /\ UNCHANGED <<market, ws, reqId, streaming, inbox, read>>

\* Nothing has arrived in time, or the connection is gone: recv() raises.
\* Nothing is cancelled, and the socket is kept.
GiveUp ==
  /\ call # NoCall
  /\ inbox = <<>>
  /\ EndCall
  /\ punctual' = FALSE
  /\ UNCHANGED <<market, ws, reqId, streaming, inbox, read>>

\* close(): the socket goes with everything in it.
Hangup ==
  /\ ws' = "none"
  /\ pending' = <<>>
  /\ streaming' = 0
  /\ inbox' = <<>>
  /\ punctual' = TRUE

Close ==
  /\ call = NoCall
  /\ Hangup
  /\ UNCHANGED <<market, reqId, call, read>>

ChannelNext ==
  \/ MarketTick
  \/ Answer
  \/ Drop
  \/ \E kind \in Kinds \ {"forget_all"} : Ask(kind)
  \/ AskDead
  \/ Receive
  \/ GiveUp
  \/ Close

ChannelSpec == ChannelInit /\ [][ChannelNext]_channelVars

\* Each recv() returns or times out; nothing is assumed of the server.
ChannelFairSpec == ChannelSpec /\ WF_channelVars(Receive \/ GiveUp)

-----------------------------------------------------------------------------
(* Properties.                                                              *)

\* As long as every call on a socket has had its answer, and none was a
\* subscription, a frame in the socket answers the call that is waiting, and a
\* tick in it is at least as new as the call.
AnswersMatchCalls ==
  punctual /\ inbox # <<>> =>
    /\ call # NoCall
    /\ \A i \in DOMAIN inbox :
         /\ inbox[i].req = call.req
         /\ inbox[i].tick # 0 => inbox[i].tick >= call.asked

\* Ticks come in the order of the market across timeouts, late answers,
\* subscriptions that leave frames behind, drops and new sockets.
TicksInOrder == INSTANCE QuoteReader
ImplementsReader == TicksInOrder!Spec

\* Every round trip ends, whatever the server does.
CallsEnd == call # NoCall ~> call = NoCall
=============================================================================
