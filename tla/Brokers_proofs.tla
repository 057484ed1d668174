---------------------------- MODULE Brokers_proofs ----------------------------
(*****************************************************************************)
(* Machine-checked proofs about ContractGate, what stands behind a gate that *)
(* has passed, for any accounts, answers and specs; about DemoBroker, what it *)
(* tells of the orders it placed and of their fills, for any number of them; *)
(* and that the brokers keep their types, each with the others beside it.    *)
(*****************************************************************************)
EXTENDS MCBrokers, DerivBroker_proofs

-----------------------------------------------------------------------------
(* The account.                                                            *)

\* A gate past the check of the account goes on with the account it checked.
AccountInv == stage \in Passed => otpReady /\ AccountVerified

\* Only a virtual account passes, whatever the accounts endpoint answers.
THEOREM VirtualOnly == GateSpec => []OnlyVirtualPasses
<1>1. GateInit => AccountInv
  BY DEF GateInit, AccountInv, Passed
<1>2. AccountInv /\ [GateNext]_gateVars => AccountInv'
  <2> SUFFICES ASSUME AccountInv, [GateNext]_gateVars PROVE AccountInv'
    OBVIOUS
  <2> USE DEF AccountInv, Passed, AccountVerified
  <2>1. CASE LoadConfig
    BY <2>1 DEF LoadConfig
  <2>2. CASE RestAuthorize
    BY <2>2 DEF RestAuthorize
  <2>3. CASE VerifyAccount
    BY <2>3 DEF VerifyAccount, BalanceAnswered, AccountIsVirtual
  <2>4. CASE AskContracts
    BY <2>4 DEF AskContracts, AccountIsVirtual
  <2>5. ASSUME NEW p \in Preferred, Select(p) PROVE AccountInv'
    BY <2>5 DEF Select, AccountIsVirtual
  <2>6. ASSUME NEW s \in EnvSpecs, SpecFromEnv(s) PROVE AccountInv'
    BY <2>6 DEF SpecFromEnv, AccountIsVirtual
  <2>7. CASE Check
    <3>1. /\ stage = "specified" /\ stage' \in {"ready", "blocked"}
          /\ UNCHANGED <<login, chosen, otpReady>>
      BY <2>7 DEF Check
    <3> QED
      BY <3>1 DEF AccountIsVirtual
  <2>8. CASE UNCHANGED gateVars
    BY <2>8 DEF gateVars, AccountIsVirtual
  <2> QED
    BY <2>1, <2>2, <2>3, <2>4, <2>5, <2>6, <2>7, <2>8 DEF GateNext
<1>3. AccountInv => OnlyVirtualPasses
  BY DEF AccountInv, OnlyVirtualPasses, AccountVerified, AccountIsVirtual
<1> QED
  BY <1>1, <1>2, <1>3, PTL DEF GateSpec

-----------------------------------------------------------------------------
(* The selection.                                                          *)

\* The category preferred among those that qualify is one of them.
LEMMA PreferredQualifies ==
  ASSUME NEW q \in SUBSET Category, q # {}
  PROVE  LET c == CHOOSE c \in q : \A d \in q : Preference[c] <= Preference[d]
         IN  c \in q
<1>1. \E c \in q : \A d \in q : Preference[c] <= Preference[d]
  <2> USE DEF Category, Preference
  <2>1. CASE "multiplier" \in q
    BY <2>1
  <2>2. CASE "multiplier" \notin q /\ "turbos" \in q
    BY <2>2
  <2>3. CASE "multiplier" \notin q /\ "turbos" \notin q /\ "callput" \in q
    BY <2>3
  <2>4. CASE q = {"callputequal"}
    BY <2>4
  <2> QED
    BY <2>1, <2>2, <2>3, <2>4
<1> QED
  BY <1>1

\* A multiplier pair that was selected has its stake within the limits, a multiplier
\* of its range, and carries a stop and a target when the intent has one.
LEMMA SelectedPair ==
  ASSUME AnswerAssumption, PreferredAssumption,
         NEW a \in Answers, NEW needed, NEW preferred \in Preferred,
         Selected(a, needed, preferred).confirmed,
         Selected(a, needed, preferred).multiplier # 0
  PROVE  LET s == Selected(a, needed, preferred)
             e == a.entries["MULTUP"]
         IN  /\ s.category = "multiplier"
             /\ Paired(a, "multiplier")
             /\ StakeFits(a, e)
             /\ \E i \in DOMAIN e.multipliers : e.multipliers[i] = s.multiplier
             /\ s.limitOrder = SupportsLimitOrder(e, "multiplier")
             /\ needed # {} => s.limitOrder
<1> DEFINE q == Qualifying(a, needed, preferred)
           c == CHOOSE x \in q : \A d \in q : Preference[x] <= Preference[d]
           e == a.entries[Up[c]]
           s == Selected(a, needed, preferred)
<1>1. q # {}
  BY DEF Selected, NotSelected
<1>2. q \in SUBSET Category
  BY DEF Qualifying
<1>3. c \in q
  BY <1>1, <1>2, PreferredQualifies
<1>4. s = [confirmed |-> TRUE, category |-> c,
           multiplier |-> IF c = "multiplier" THEN ChosenMultiplier(e, preferred) ELSE 0,
           limitOrder |-> SupportsLimitOrder(e, c)]
  BY <1>1 DEF Selected
<1>a. s.multiplier # 0
  OBVIOUS
<1> HIDE DEF c, e, s
<1>5. /\ c = "multiplier" /\ s.category = "multiplier"
      /\ s.multiplier = ChosenMultiplier(e, preferred)
      /\ s.limitOrder = SupportsLimitOrder(e, "multiplier")
  BY <1>4, <1>a
<1>6. Up["multiplier"] = "MULTUP"
  BY DEF Up, Category
<1>7. e = a.entries["MULTUP"]
  BY <1>5, <1>6 DEF e
<1>8. /\ Paired(a, "multiplier") /\ StakeFits(a, e)
      /\ needed # {} => SupportsLimitOrder(e, "multiplier")
      /\ e.multipliers # <<>>
      /\ preferred # 0 => \E i \in DOMAIN e.multipliers : e.multipliers[i] = preferred
  BY <1>3, <1>5, <1>6, <1>7 DEF Qualifying
<1>9. e.multipliers \in Seq(Nat)
  <2>1. "MULTUP" \in DOMAIN a.entries
    BY <1>6, <1>8 DEF Paired
  <2> QED
    BY <1>7, <2>1 DEF AnswerAssumption
<1>10. \E i \in DOMAIN e.multipliers : e.multipliers[i] = ChosenMultiplier(e, preferred)
  <2>1. CASE preferred # 0
    BY <1>8, <2>1 DEF ChosenMultiplier
  <2>2. CASE preferred = 0
    <3> DEFINE n == Len(e.multipliers)
    <3>1. n \in Nat \ {0} /\ DOMAIN e.multipliers = 1..n
      BY <1>8, <1>9
    <3> HIDE DEF n
    <3>2. (n \div 2) + 1 \in 1..n
      BY <3>1
    <3> QED
      BY <2>2, <3>1, <3>2 DEF ChosenMultiplier, n
  <2> QED
    BY <2>1, <2>2
<1> QED
  BY <1>5, <1>7, <1>8, <1>10 DEF s

\* What a selection that was confirmed rests on.
SelectionInv ==
    /\ stage \in {"start", "configured", "authorized", "verified", "answered"} => selection = <<>>
    /\ stage \in {"answered", "specified"} => answer \in Answers
    /\ (stage = "specified" /\ selection # <<>>) =>
          \E p \in Preferred : /\ selection = Selected(answer, needs, p)
                               /\ selection.confirmed
                               /\ spec = ToSpec(selection)

LEMMA StepSelection ==
  ASSUME SelectionInv, [GateNext]_gateVars
  PROVE  SelectionInv'
<1> USE DEF SelectionInv
<1>1. CASE LoadConfig
  BY <1>1 DEF LoadConfig
<1>2. CASE RestAuthorize
  BY <1>2 DEF RestAuthorize
<1>3. CASE VerifyAccount
  BY <1>3 DEF VerifyAccount
<1>4. CASE AskContracts
  BY <1>4 DEF AskContracts
<1>5. ASSUME NEW p \in Preferred, Select(p) PROVE SelectionInv'
  <2>1. CASE selection'.confirmed
    <3>1. /\ selection' = Selected(answer, needs, p) /\ spec' = ToSpec(selection')
          /\ stage' = "specified" /\ answer' = answer /\ needs' = needs /\ answer \in Answers
      BY <1>5, <2>1 DEF Select
    <3>2. selection' = Selected(answer', needs', p)
      BY <3>1
    <3> QED
      BY <2>1, <3>1, <3>2
  <2>2. CASE ~selection'.confirmed
    BY <1>5, <2>2 DEF Select
  <2> QED
    BY <2>1, <2>2
<1>6. ASSUME NEW s \in EnvSpecs, SpecFromEnv(s) PROVE SelectionInv'
  BY <1>6 DEF SpecFromEnv
<1>7. CASE Check
  <2>1. stage = "specified" /\ stage' \in {"ready", "blocked"}
    BY <1>7 DEF Check
  <2> QED
    BY <2>1
<1>8. CASE UNCHANGED gateVars
  BY <1>8 DEF gateVars
<1> QED
  BY <1>1, <1>2, <1>3, <1>4, <1>5, <1>6, <1>7, <1>8 DEF GateNext

\* The multiplier pair select_contract() confirms passes the other two functions that
\* read the answer, for any answer and any preferred multiplier.
THEOREM SelectionIsVerified == GateSpec => []SelectionVerifies
<1>1. GateInit => SelectionInv
  BY DEF GateInit, SelectionInv
<1>2. SelectionInv /\ [GateNext]_gateVars => SelectionInv'
  BY StepSelection
<1>3. SelectionInv => SelectionVerifies
  <2> DEFINE e == answer.entries[spec.buy]
  <2> SUFFICES ASSUME SelectionInv, stage = "specified", selection # <<>>, spec.multiplier # 0,
                      answer.symbol = "same",
                      e.limitOrder # "absent" \/ e.category = "multiplier"
               PROVE  /\ Verified(answer, spec)
                      /\ MappingValid(spec, needs)
                      /\ needs # {} => MappingConfirmed(answer, spec)
    BY DEF SelectionVerifies
  <2>1. PICK p \in Preferred : /\ selection = Selected(answer, needs, p)
                               /\ selection.confirmed
                               /\ spec = ToSpec(selection)
    BY DEF SelectionInv
  <2>2. answer \in Answers
    BY DEF SelectionInv
  <2>3. spec.multiplier = selection.multiplier /\ spec.limitOrder = selection.limitOrder
        /\ spec.buy = Up[selection.category] /\ spec.sell = Down[selection.category]
        /\ spec.duration = 0
    BY <2>1 DEF ToSpec
  <2> DEFINE u == answer.entries["MULTUP"]
  <2>4. /\ selection.category = "multiplier"
        /\ Paired(answer, "multiplier")
        /\ StakeFits(answer, u)
        /\ \E i \in DOMAIN u.multipliers : u.multipliers[i] = spec.multiplier
        /\ spec.limitOrder = SupportsLimitOrder(u, "multiplier")
        /\ needs # {} => spec.limitOrder
    BY <2>1, <2>2, <2>3, SelectedPair, AnswerAssumption, PreferredAssumption
  <2>5. spec.buy = "MULTUP" /\ spec.sell = "MULTDOWN" /\ e = u
    BY <2>3, <2>4 DEF Up, Down, Category
  <2>6. Up["multiplier"] = "MULTUP" /\ Down["multiplier"] = "MULTDOWN"
    BY DEF Up, Down, Category
  <2>7. {spec.buy, spec.sell} \subseteq DOMAIN answer.entries
    BY <2>4, <2>5, <2>6 DEF Paired
  <2>8. spec.limitOrder => VerifiedLimitOrder(e)
    BY <2>4, <2>5 DEF SupportsLimitOrder, VerifiedLimitOrder
  <2>9. Verified(answer, spec)
    BY <2>4, <2>5, <2>7, <2>8 DEF Verified
  <2>10. MappingValid(spec, needs)
    BY <2>3, <2>4 DEF MappingValid, CanPrice
  <2> QED
    BY <2>4, <2>8, <2>9, <2>10 DEF MappingConfirmed
<1> QED
  BY <1>1, <1>2, <1>3, PTL DEF GateSpec

-----------------------------------------------------------------------------
(* The generic broker: types, and what the broker did with the order being *)
(* placed.                                                                 *)

DemoOrder == [side : {"BUY", "SELL"},
              status : {"SUBMITTED", "PARTIALLY_FILLED", "FILLED", "REJECTED", "TIMED_OUT"}]

\* An order being placed is the last one and was not told yet; it was not carried
\* out while it is pending or, but over HTTP, when it was rejected, and it was when it
\* was filled.
DemoCarried == { fills[f].order : f \in DOMAIN fills }
DemoAgrees ==
    /\ Last <= MaxDemoOrders
    /\ reply # "none" => /\ Last >= 1
                         /\ demoOrders[Last].status = "SUBMITTED"
    /\ (reply = "pending" \/ (reply = "rejected" /\ kind # "http")) => Last \notin DemoCarried
    /\ reply \in {"filled", "partial"} => Last \in DemoCarried

DemoInv == DemoTypeOK /\ DemoAgrees

\* What a step of the broker does to the fills: nothing, or one more, for the last
\* order or for none.
LEMMA FillTypes ==
  ASSUME DemoTypeOK, NEW side \in {"BUY", "SELL"}, NEW q \in Nat, NEW o \in 0..Last,
         Fills(side, q, o), UNCHANGED <<kind, demoOrders>>
  PROVE  /\ fills' \in Seq([side : {"BUY", "SELL"}, qty : Nat, order : 0..Last])
         /\ pos'.qty \in Int /\ pos'.basis \subseteq DOMAIN fills'
         /\ DemoCarried' = DemoCarried \cup {o}
<1> DEFINE fill == [side |-> side, qty |-> q, order |-> o]
           n == Len(fills) + 1
<1>1. fills \in Seq([side : {"BUY", "SELL"}, qty : Nat, order : 0..Last])
  BY DEF DemoTypeOK
<1>2. fills' = Append(fills, fill)
      /\ fill \in [side : {"BUY", "SELL"}, qty : Nat, order : 0..Last]
  BY DEF Fills
<1>3. /\ DOMAIN fills' = 1..n /\ DOMAIN fills = 1..(n - 1) /\ n \in Nat
      /\ \A f \in 1..(n - 1) : fills'[f] = fills[f]
      /\ fills'[n] = fill
  BY <1>1, <1>2
<1>4. pos'.qty \in Int /\ pos'.basis \subseteq DOMAIN fills'
  <2>1. pos.qty \in Int /\ pos.basis \subseteq 1..(n - 1) /\ SignedQty(side, q) \in Int
    BY <1>3 DEF DemoTypeOK, SignedQty
  <2>2. CASE kind = "http"
    BY <1>3, <2>1, <2>2 DEF Fills
  <2>3. CASE kind # "http"
    <3>1. pos' = Applied(side, q, n)
      BY <2>3 DEF Fills
    <3> QED
      BY <1>3, <2>1, <3>1 DEF Applied
  <2> QED
    BY <2>2, <2>3
<1>5. DemoCarried' = DemoCarried \cup {o}
  BY <1>3 DEF DemoCarried
<1> QED
  BY <1>1, <1>2, <1>4, <1>5

LEMMA DemoHandleInv == ASSUME DemoInv, DemoHandle PROVE DemoInv'
<1>1. /\ reply = "pending" /\ UNCHANGED <<kind, liveEndpoint, state, demoOrders>>
      /\ Last >= 1 /\ Last \in Nat /\ demoOrders[Last].side \in {"BUY", "SELL"}
      /\ demoOrders[Last].status = "SUBMITTED" /\ Last \notin DemoCarried
      /\ Last' = Last /\ Last <= MaxDemoOrders
  <2>1. /\ demoOrders \in Seq(DemoOrder)
        /\ reply = "pending" /\ UNCHANGED <<kind, liveEndpoint, state, demoOrders>>
    BY DEF DemoHandle, DemoInv, DemoTypeOK, config, DemoOrder
  <2>2. Last \in 1..Len(demoOrders) /\ demoOrders[Last] \in DemoOrder
    BY <2>1 DEF DemoInv, DemoAgrees, Last
  <2> QED
    BY <2>1, <2>2 DEF DemoInv, DemoAgrees, DemoOrder, Last
<1>2. ASSUME NEW q \in Nat, Fills(demoOrders[Last].side, q, Last),
             reply' \in Replies \ {"none", "pending"},
             reply' = "rejected" => kind = "http",
             dropped' \in BOOLEAN, demoFaults' \subseteq DemoFault
      PROVE  DemoInv'
  <2>1. /\ fills' \in Seq([side : {"BUY", "SELL"}, qty : Nat, order : 0..Last])
        /\ pos'.qty \in Int /\ pos'.basis \subseteq DOMAIN fills'
        /\ Last \in DemoCarried'
    <3>1. Last \in 0..Last /\ DemoTypeOK /\ UNCHANGED <<kind, demoOrders>>
      BY <1>1 DEF DemoInv
    <3>2. DemoCarried' = DemoCarried \cup {Last}
      BY <1>1, <1>2, <3>1, FillTypes
    <3> QED
      BY <1>1, <1>2, <3>1, <3>2, FillTypes
  <2> QED
    BY <1>1, <1>2, <2>1 DEF DemoInv, DemoTypeOK, DemoAgrees
<1>3. ASSUME UNCHANGED <<fills, pos>>,
             reply' \in {"rejected", "timeout", "down", "escapes"},
             dropped' \in BOOLEAN, demoFaults' \subseteq DemoFault
      PROVE  DemoInv'
  BY <1>1, <1>3 DEF DemoInv, DemoTypeOK, DemoAgrees, DemoCarried, Replies
<1>4. {Qty, PartQty} \subseteq Nat /\ dropped \in BOOLEAN /\ demoFaults \subseteq DemoFault
  BY DemoAssumption DEF DemoInv, DemoTypeOK
<1>5. CASE SimHandles
  <2>1. demoFaults' \subseteq DemoFault
    BY <1>4, <1>5 DEF SimHandles
  <2>2. CASE \E f \in demoFaults \cap {"timeout_next", "reject_next", "disconnect_during_next"} :
                /\ reply' = FaultReply(f)
                /\ dropped' = (kind = "sim" /\ reply' = "down")
                /\ UNCHANGED <<fills, pos>>
    BY <1>3, <2>1, <2>2 DEF FaultReply
  <2>3. CASE /\ demoFaults \subseteq {"partial_fill_next", "drop_on_next_ping"}
             /\ reply' = IF "partial_fill_next" \in demoFaults THEN "partial" ELSE "filled"
             /\ Fills(demoOrders[Last].side, IF reply' = "partial" THEN PartQty ELSE Qty, Last)
             /\ UNCHANGED dropped
    BY <1>2, <1>4, <2>1, <2>3 DEF Replies
  <2> QED
    BY <1>5, <2>2, <2>3 DEF SimHandles
<1>6. CASE SimIsDown
  BY <1>3, <1>4, <1>6 DEF SimIsDown
<1>7. CASE HttpHandles
  <2>1. CASE UNCHANGED <<fills, pos>> /\ reply' \in {"rejected", "timeout", "down", "escapes"}
    BY <1>3, <1>4, <1>7, <2>1 DEF HttpHandles
  <2>2. CASE /\ reply' \in {"filled", "partial", "rejected", "timeout", "down", "escapes"}
             /\ Fills(demoOrders[Last].side, IF reply' = "partial" THEN PartQty ELSE Qty, Last)
    BY <1>2, <1>4, <1>7, <2>2 DEF HttpHandles, Replies
  <2> QED
    BY <1>7, <2>1, <2>2 DEF HttpHandles
<1> QED
  BY <1>5, <1>6, <1>7 DEF DemoHandle

FillOf(n) == [side : {"BUY", "SELL"}, qty : Nat, order : 0..n]

LEMMA DemoSubmitInv ==
  ASSUME DemoInv, NEW side \in {"BUY", "SELL"}, DemoSubmit(side) PROVE DemoInv'
<1> DEFINE order == [side |-> side, status |-> "SUBMITTED"]
<1>1. /\ demoOrders \in Seq(DemoOrder) /\ demoOrders' = Append(demoOrders, order)
      /\ reply = "none" /\ reply' = "pending" /\ Last < MaxDemoOrders /\ Last \in Nat
      /\ UNCHANGED <<kind, liveEndpoint, dropped, state, demoFaults, fills, pos>>
  BY DEF DemoSubmit, DemoInv, DemoTypeOK, DemoOrder, Quiet, Last, config, link
<1>2. /\ order \in DemoOrder
      /\ demoOrders' \in Seq(DemoOrder) /\ Last' = Last + 1 /\ demoOrders'[Last'] = order
  BY <1>1 DEF DemoOrder, Last
<1>3. /\ \A f \in DOMAIN fills : fills[f].order \in 0..Last
      /\ fills' \in Seq(FillOf(Last'))
  <2>1. fills \in Seq(FillOf(Last))
    BY DEF DemoInv, DemoTypeOK, FillOf
  <2>2. \A x \in FillOf(Last) : x \in FillOf(Last + 1) /\ x.order \in 0..Last
    BY <1>1 DEF FillOf
  <2>4. fills \in Seq(FillOf(Last + 1))
    BY <2>1, <2>2
  <2>5. fills' \in Seq(FillOf(Last'))
    BY <1>1, <1>2, <2>4
  <2>6. \A f \in DOMAIN fills : fills[f].order \in 0..Last
    BY <2>1, <2>2
  <2> QED
    BY <2>5, <2>6
<1>4. Last' \notin DemoCarried'
  BY <1>1, <1>2, <1>3 DEF DemoCarried
<1>5. DemoTypeOK'
  BY <1>1, <1>2, <1>3 DEF DemoInv, DemoTypeOK, DemoOrder, FillOf, Replies
<1>6. DemoAgrees'
  <2>1. Last' <= MaxDemoOrders /\ Last' >= 1
    BY <1>1, <1>2, DemoAssumption
  <2>2. demoOrders'[Last'].status = "SUBMITTED" /\ reply' = "pending"
    <3>1. order.status = "SUBMITTED"
      OBVIOUS
    <3> HIDE DEF order
    <3> QED
      BY <1>1, <1>2, <3>1
  <2> QED
    BY <1>4, <2>1, <2>2 DEF DemoAgrees
<1> QED
  BY <1>5, <1>6 DEF DemoInv

LEMMA DemoAnswerInv == ASSUME DemoInv, DemoAnswer PROVE DemoInv'
<1>1. /\ demoOrders \in Seq(DemoOrder) /\ Last \in 1..Len(demoOrders)
      /\ demoOrders' = [demoOrders EXCEPT ![Last].status = Reported]
      /\ reply \in Replies \ {"none", "pending"} /\ reply' = "none"
      /\ UNCHANGED <<kind, liveEndpoint, dropped, demoFaults, fills, pos>>
      /\ state' \in {"DISCONNECTED", "CONNECTED"}
  BY DEF DemoAnswer, DemoInv, DemoTypeOK, DemoAgrees, DemoOrder, Last, config
<1>2. Reported \in {"SUBMITTED", "PARTIALLY_FILLED", "FILLED", "REJECTED", "TIMED_OUT"}
  BY <1>1 DEF Reported, Replies
<1>3. demoOrders' \in Seq(DemoOrder) /\ Last' = Last
  <2> DEFINE told == [demoOrders[Last] EXCEPT !.status = Reported]
  <2>1. told \in DemoOrder
    <3>1. demoOrders[Last] \in DemoOrder
      BY <1>1
    <3> QED
      BY <1>2, <3>1 DEF DemoOrder
  <2>2. demoOrders' = [demoOrders EXCEPT ![Last] = told]
    BY <1>1
  <2> HIDE DEF told
  <2> QED
    BY <1>1, <2>1, <2>2 DEF Last
<1> QED
  BY <1>1, <1>3 DEF DemoInv, DemoTypeOK, DemoAgrees, DemoOrder, DemoCarried, Replies

\* The position held by the broker is an integer.
LEMMA HeldIsInteger == ASSUME DemoTypeOK PROVE Held \in Int
<1> DEFINE n == Len(fills)
           M == Moved
<1>1. fills \in Seq(FillOf(Last)) /\ n \in Nat /\ DOMAIN fills = 1..n
  BY DEF DemoTypeOK, FillOf
<1>2. \A x \in FillOf(Last) : x.qty \in Nat
  BY DEF FillOf
<1>3. DOMAIN M = 1..n /\ \A f \in 1..n : M[f] \in Int
  <2>1. \A f \in 1..n : fills[f].qty \in Nat
    BY <1>1, <1>2
  <2> QED
    BY <1>1, <2>1 DEF Moved, SignedQty
<1>4. IsFiniteSet(1..n)
  BY <1>1, FS_Interval
<1>5. SumFunctionOnSet(M, 1..n) \in Int
  <2> HIDE DEF M, n
  <2> QED
    BY <1>3, <1>4, SumIsInteger
<1> QED
  BY <1>3, <1>5 DEF Held, SumFunction

\* A close trades the position away in one fill, of no order, or does nothing.
DemoCloses == DemoClose \/ DemoCloseHttp

LEMMA ClosingFills ==
  ASSUME DemoTypeOK, DemoCloses
  PROVE  /\ reply = "none" /\ reply' = "none" /\ state' \in {"DISCONNECTED", "CONNECTED"}
         /\ UNCHANGED <<kind, liveEndpoint, dropped, demoFaults, demoOrders>>
         /\ \/ UNCHANGED <<fills, pos>>
            \/ \E side \in {"BUY", "SELL"}, q \in Nat : Fills(side, q, 0)
<1>1. ASSUME NEW held \in Int, TradesAway(held)
      PROVE  \/ UNCHANGED <<fills, pos>>
             \/ \E side \in {"BUY", "SELL"}, q \in Nat : Fills(side, q, 0)
  BY <1>1 DEF TradesAway
<1>2. CASE DemoClose
  <2>1. pos.qty \in Int
    BY DEF DemoTypeOK
  <2>2. TradesAway(pos.qty)
    BY <1>2 DEF DemoClose
  <2>3. \/ UNCHANGED <<fills, pos>>
        \/ \E side \in {"BUY", "SELL"}, q \in Nat : Fills(side, q, 0)
    BY <1>1, <2>1, <2>2
  <2> QED
    BY <1>2, <2>3 DEF DemoClose, Quiet, config
<1>3. CASE DemoCloseHttp
  <2>1. Held \in Int
    BY HeldIsInteger
  <2>2. TradesAway(Held) \/ UNCHANGED <<fills, pos>>
    BY <1>3 DEF DemoCloseHttp
  <2>3. \/ UNCHANGED <<fills, pos>>
        \/ \E side \in {"BUY", "SELL"}, q \in Nat : Fills(side, q, 0)
    BY <1>1, <2>1, <2>2
  <2> QED
    BY <1>3, <2>3 DEF DemoCloseHttp, Quiet, config, DemoTypeOK
<1> QED
  BY <1>2, <1>3 DEF DemoCloses

LEMMA DemoCloseInv == ASSUME DemoInv, DemoCloses PROVE DemoInv'
<1>1. /\ reply = "none" /\ reply' = "none" /\ state' \in {"DISCONNECTED", "CONNECTED"}
      /\ UNCHANGED <<kind, liveEndpoint, dropped, demoFaults, demoOrders>>
      /\ Last' = Last /\ Last \in Nat
  BY ClosingFills DEF DemoInv, DemoTypeOK, Last
<1>2. CASE UNCHANGED <<fills, pos>>
  BY <1>1, <1>2 DEF DemoInv, DemoTypeOK, DemoAgrees, DemoCarried
<1>3. CASE \E side \in {"BUY", "SELL"}, q \in Nat : Fills(side, q, 0)
  <2>1. PICK side \in {"BUY", "SELL"}, q \in Nat : Fills(side, q, 0)
    BY <1>3
  <2>2. 0 \in 0..Last /\ DemoTypeOK /\ UNCHANGED <<kind, demoOrders>>
    BY <1>1 DEF DemoInv
  <2>3. /\ fills' \in Seq([side : {"BUY", "SELL"}, qty : Nat, order : 0..Last])
        /\ pos'.qty \in Int /\ pos'.basis \subseteq DOMAIN fills'
    BY <2>1, <2>2, FillTypes
  <2> QED
    BY <1>1, <2>3 DEF DemoInv, DemoTypeOK, DemoAgrees
<1> QED
  BY <1>2, <1>3, ClosingFills DEF DemoInv

\* The other operations leave the orders, the fills and the position alone.
DemoLinks == DemoConnect \/ MockConnect \/ DemoDisconnect \/ DemoForceDrop \/ DemoHeartbeat
             \/ MockPing \/ DemoRead \/ \E f \in DemoFault : DemoInject(f)

LEMMA DemoLinkKeeps ==
  ASSUME DemoTypeOK, DemoLinks
  PROVE  /\ UNCHANGED <<kind, liveEndpoint, demoOrders, fills, pos, reply>>
         /\ dropped' \in BOOLEAN /\ state' \in {"DISCONNECTED", "CONNECTED"}
         /\ demoFaults' \subseteq DemoFault
<1> USE DEF DemoTypeOK, config, link, books
<1>1. CASE DemoConnect
  BY <1>1 DEF DemoConnect
<1>2. CASE MockConnect
  BY <1>2 DEF MockConnect
<1>3. CASE DemoDisconnect
  BY <1>3 DEF DemoDisconnect
<1>4. CASE DemoForceDrop
  BY <1>4 DEF DemoForceDrop
<1>5. CASE DemoHeartbeat
  BY <1>5 DEF DemoHeartbeat
<1>6. CASE MockPing
  BY <1>6 DEF MockPing
<1>7. CASE DemoRead
  BY <1>7 DEF DemoRead
<1>8. CASE \E f \in DemoFault : DemoInject(f)
  BY <1>8 DEF DemoInject
<1> QED
  BY <1>1, <1>2, <1>3, <1>4, <1>5, <1>6, <1>7, <1>8 DEF DemoLinks

LEMMA DemoCases ==
  ASSUME [DemoNext]_demoVars
  PROVE  \/ DemoLinks \/ DemoHandle \/ DemoAnswer \/ DemoCloses \/ UNCHANGED demoVars
         \/ \E side \in {"BUY", "SELL"} : DemoSubmit(side)
  BY DEF DemoNext, DemoLinks, DemoCloses

LEMMA DemoInitInv == DemoInit => DemoInv
<1> SUFFICES ASSUME DemoInit PROVE DemoInv
  OBVIOUS
<1>1. /\ demoOrders = <<>> /\ fills = <<>> /\ reply = "none"
      /\ kind \in {"sim", "http", "mock"} /\ liveEndpoint \in BOOLEAN
      /\ dropped = FALSE /\ state = "DISCONNECTED" /\ demoFaults = {}
      /\ pos = [qty |-> 0, basis |-> {}]
  BY DEF DemoInit, LinkInit, BooksInit
<1>2. Last = 0 /\ demoOrders \in Seq(DemoOrder)
      /\ fills \in Seq([side : {"BUY", "SELL"}, qty : Nat, order : 0..Last])
  BY <1>1 DEF Last
<1>3. DemoTypeOK
  <2>1. pos.qty \in Int /\ pos.basis \subseteq DOMAIN fills
    BY <1>1
  <2> QED
    BY <1>1, <1>2, <2>1 DEF DemoTypeOK, DemoOrder, Replies
<1> QED
  BY <1>1, <1>2, <1>3, DemoAssumption DEF DemoInv, DemoAgrees

LEMMA DemoNextInv == DemoInv /\ [DemoNext]_demoVars => DemoInv'
<1> SUFFICES ASSUME DemoInv, [DemoNext]_demoVars PROVE DemoInv'
  OBVIOUS
<1>1. CASE DemoLinks
  <2>1. /\ UNCHANGED <<kind, liveEndpoint, demoOrders, fills, pos, reply>>
        /\ dropped' \in BOOLEAN /\ state' \in {"DISCONNECTED", "CONNECTED"}
        /\ demoFaults' \subseteq DemoFault
    BY <1>1, DemoLinkKeeps DEF DemoInv
  <2> QED
    BY <2>1 DEF DemoInv, DemoTypeOK, DemoAgrees, DemoCarried, Last
<1>2. CASE UNCHANGED demoVars
  BY <1>2 DEF DemoInv, DemoTypeOK, DemoAgrees, DemoCarried, Last, demoVars
<1> QED
  BY <1>1, <1>2, DemoCases, DemoHandleInv, DemoAnswerInv, DemoCloseInv, DemoSubmitInv

-----------------------------------------------------------------------------
(* The generic broker implements BrokerOrders.                             *)

DemoTold == [o \in DemoOrderNumber |-> Told(o)]
DemoDone == DemoCarried \ {0}

LEMMA DemoNextLedger == DemoInv /\ [DemoNext]_demoVars => [DemoLedger!Next]_(DemoLedger!vars)
<1> SUFFICES ASSUME DemoInv, [DemoNext]_demoVars PROVE [DemoLedger!Next]_(DemoLedger!vars)
  OBVIOUS
<1>1. /\ demoOrders \in Seq(DemoOrder) /\ Last \in Nat /\ Last <= MaxDemoOrders
      /\ MaxDemoOrders \in Nat /\ Last = Len(demoOrders)
      /\ DemoTypeOK /\ DOMAIN demoOrders = 1..Last
  BY DemoAssumption DEF DemoInv, DemoTypeOK, DemoAgrees, DemoOrder, Last
<1>2. ASSUME UNCHANGED <<kind, demoOrders>>, DemoDone' = DemoDone
      PROVE  UNCHANGED DemoLedger!vars
  BY <1>2 DEF DemoLedger!vars, Told, DemoOrderNumber, DemoDone, DemoCarried
<1>3. CASE DemoLinks
  <2>1. UNCHANGED <<kind, demoOrders, fills>>
    BY <1>1, <1>3, DemoLinkKeeps
  <2> QED
    BY <1>2, <2>1 DEF DemoDone, DemoCarried
<1>4. CASE UNCHANGED demoVars
  BY <1>2, <1>4 DEF DemoDone, DemoCarried, demoVars
<1>5. ASSUME NEW side \in {"BUY", "SELL"}, DemoSubmit(side)
      PROVE  DemoLedger!Next
  <2>0. PICK o \in Nat : o = Last + 1
    BY <1>1
  <2>1. /\ demoOrders' = Append(demoOrders, [side |-> side, status |-> "SUBMITTED"])
        /\ UNCHANGED <<kind, fills>> /\ o <= MaxDemoOrders
    BY <1>1, <1>5, <2>0 DEF DemoSubmit, config
  <2>2. /\ o \in DemoOrderNumber /\ DOMAIN demoOrders' = 1..o
        /\ demoOrders'[o].status = "SUBMITTED"
        /\ \A k \in 1..Last : demoOrders'[k] = demoOrders[k]
    BY <1>1, <2>0, <2>1 DEF DemoOrderNumber
  <2>3. Told(o) = "PENDING" /\ Told(o)' = "SUBMITTED"
    BY <1>1, <2>0, <2>1, <2>2 DEF Told
  <2>4. \A k \in DemoOrderNumber \ {o} : Told(k)' = Told(k)
    BY <1>1, <2>0, <2>1, <2>2 DEF Told, DemoOrderNumber
  <2>5. DemoTold' = [DemoTold EXCEPT ![o] = "SUBMITTED"]
    BY <2>2, <2>3, <2>4 DEF DemoTold
  <2>6. DemoDone' = DemoDone
    BY <2>1 DEF DemoDone, DemoCarried
  <2>7. DemoLedger!Submit(o)
    BY <2>2, <2>3, <2>5, <2>6 DEF DemoLedger!Submit, DemoTold, DemoDone, DemoCarried
  <2> QED
    BY <2>2, <2>7 DEF DemoLedger!Next
<1>6. CASE DemoHandle
  <2>1. /\ reply = "pending" /\ UNCHANGED <<kind, demoOrders>>
        /\ Last \in 1..MaxDemoOrders /\ demoOrders[Last] \in DemoOrder
        /\ demoOrders[Last].status = "SUBMITTED" /\ Last \notin DemoCarried
    BY <1>1, <1>6 DEF DemoHandle, DemoInv, DemoAgrees, config
  <2>2. CASE UNCHANGED fills
    BY <1>2, <2>1, <2>2 DEF DemoDone, DemoCarried
  <2>3. ASSUME NEW q \in Nat, Fills(demoOrders[Last].side, q, Last)
        PROVE  DemoLedger!Next
    <3>1. Last \in 0..Last /\ demoOrders[Last].side \in {"BUY", "SELL"}
      BY <1>1, <2>1 DEF DemoOrder
    <3>2. DemoCarried' = DemoCarried \cup {Last}
      BY <1>1, <2>1, <2>3, <3>1, FillTypes
    <3>3. DemoDone' = DemoDone \cup {Last} /\ Last \notin DemoDone
      BY <1>1, <2>1, <3>2 DEF DemoDone
    <3>4. Told(Last) = "SUBMITTED" /\ \A k \in DemoOrderNumber : Told(k)' = Told(k)
      BY <1>1, <2>1 DEF Told
    <3>5. DemoLedger!Execute(Last)
      BY <2>1, <3>3, <3>4 DEF DemoLedger!Execute, DemoDone, DemoCarried, DemoOrderNumber
    <3> QED
      <4>1. PICK o \in DemoOrderNumber : o = Last
        BY <2>1 DEF DemoOrderNumber
      <4>2. DemoLedger!Execute(o)
        BY <3>5, <4>1 DEF DemoLedger!Execute
      <4> QED
        BY <4>2 DEF DemoLedger!Next
  <2>4. \/ UNCHANGED fills
        \/ \E q \in Nat : Fills(demoOrders[Last].side, q, Last)
    <3>1. Qty \in Nat /\ PartQty \in Nat
      BY DemoAssumption
    <3>2. CASE SimHandles
      BY <3>1, <3>2 DEF SimHandles
    <3>3. CASE SimIsDown
      BY <3>3 DEF SimIsDown
    <3>4. CASE HttpHandles
      BY <3>1, <3>4 DEF HttpHandles
    <3> QED
      BY <1>6, <3>2, <3>3, <3>4 DEF DemoHandle
  <2> QED
    BY <2>2, <2>3, <2>4
<1>7. CASE DemoAnswer
  <2>0. PICK o \in Nat : o = Last
    BY <1>1
  <2>1. /\ demoOrders' = [demoOrders EXCEPT ![o].status = Reported]
        /\ UNCHANGED <<kind, fills>> /\ reply \in Replies \ {"none", "pending"}
        /\ o \in 1..MaxDemoOrders /\ o \in 1..Last /\ demoOrders[o].status = "SUBMITTED"
        /\ demoOrders[o] \in DemoOrder
    BY <1>1, <1>7, <2>0 DEF DemoAnswer, DemoInv, DemoAgrees, DemoTypeOK, config
  <2>2. /\ DOMAIN demoOrders' = DOMAIN demoOrders /\ demoOrders'[o].status = Reported
        /\ \A k \in 1..Last : k # o => demoOrders'[k] = demoOrders[k]
    BY <1>1, <2>1 DEF DemoOrder
  <2>3. DemoDone' = DemoDone
    BY <2>1 DEF DemoDone, DemoCarried
  <2>4. \A k \in DemoOrderNumber \ {o} : Told(k)' = Told(k)
    BY <1>1, <2>1, <2>2 DEF Told, DemoOrderNumber
  <2>5. Told(o) = "SUBMITTED" /\ o \in DemoOrderNumber
    BY <1>1, <2>1 DEF Told, DemoOrderNumber
  <2>6. DemoTold' = [DemoTold EXCEPT ![o] = Told(o)']
    BY <2>4, <2>5 DEF DemoTold
  <2>7. \/ Told(o)' = "SUBMITTED"
        \/ o \in DemoDone /\ Told(o)' \in {"PARTIALLY_FILLED", "FILLED"}
        \/ o \notin DemoDone /\ Told(o)' = "REJECTED"
        \/ Told(o)' = "TIMED_OUT"
    BY <1>1, <2>0, <2>1, <2>2 DEF Told, Reported, Replies, DemoInv, DemoAgrees, DemoDone
  <2>8. CASE Told(o)' = "SUBMITTED"
    <3>1. DemoTold' = DemoTold
      BY <2>5, <2>6, <2>8 DEF DemoTold
    <3> QED
      BY <2>3, <3>1 DEF DemoLedger!vars, DemoTold, DemoDone, DemoCarried
  <2>9. CASE Told(o)' # "SUBMITTED"
    <3>1. DemoLedger!Report(o)
      BY <2>3, <2>5, <2>6, <2>7, <2>9
      DEF DemoLedger!Report, DemoLedger!Filled, DemoTold, DemoDone, DemoCarried
    <3> QED
      BY <2>5, <3>1 DEF DemoLedger!Next
  <2> QED
    BY <2>8, <2>9
<1>8. CASE DemoCloses
  <2>1. UNCHANGED <<kind, demoOrders>>
    BY <1>1, <1>8, ClosingFills
  <2>2. CASE UNCHANGED fills
    BY <1>2, <2>1, <2>2 DEF DemoDone, DemoCarried
  <2>3. CASE \E side \in {"BUY", "SELL"}, q \in Nat : Fills(side, q, 0)
    <3>1. PICK side \in {"BUY", "SELL"}, q \in Nat : Fills(side, q, 0)
      BY <2>3
    <3>2. 0 \in 0..Last
      BY <1>1
    <3>3. DemoCarried' = DemoCarried \cup {0}
      BY <1>1, <2>1, <3>1, <3>2, FillTypes
    <3> QED
      BY <1>2, <2>1, <3>3 DEF DemoDone
  <2> QED
    BY <1>1, <1>8, <2>2, <2>3, ClosingFills
<1> QED
  BY <1>3, <1>4, <1>5, <1>6, <1>7, <1>8, DemoCases

LEMMA DemoInitLedger == DemoInit => DemoLedger!Init
<1> SUFFICES ASSUME DemoInit PROVE DemoLedger!Init
  OBVIOUS
<1>1. demoOrders = <<>> /\ fills = <<>>
  BY DEF DemoInit, LinkInit, BooksInit
<1>2. \A o \in DemoOrderNumber : Told(o) = "PENDING"
  BY <1>1 DEF Told
<1> QED
  BY <1>1, <1>2 DEF DemoLedger!Init

\* Every variable of the generic brokers has the values the code gives it, and a fill
\* is of an order that was placed, through every fault, drop and answer.
THEOREM DemoTypes == DemoSpec => []DemoTypeOK
<1>1. DemoInv => DemoTypeOK
  BY DEF DemoInv
<1> QED
  BY <1>1, DemoInitInv, DemoNextInv, PTL DEF DemoSpec

\* Over the simulator, over HTTP and in the mock, for any number of orders: an order
\* is carried out at most once, a fill was carried out and a rejection was not, where
\* a rejection over HTTP counts as an unknown outcome (submitOrder, _handle_submit,
\* MockBroker.submit_order).
THEOREM DemoOrdersImplemented == DemoSpec => DemoImplementsOrders
<1> QED
  BY DemoInitInv, DemoNextInv, DemoInitLedger, DemoNextLedger, PTL
  DEF DemoSpec, DemoImplementsOrders, DemoLedger!Spec

-----------------------------------------------------------------------------
(* The simulated position.                                                 *)

\* One fill more adds what it moved, to the sum of all and to no sum before it.
LEMMA FillMoves ==
  ASSUME DemoTypeOK, NEW side \in {"BUY", "SELL"}, NEW q \in Nat, NEW o \in 0..Last,
         Fills(side, q, o)
  PROVE  /\ Held \in Int
         /\ Held' = Held + SignedQty(side, q)
         /\ SumFunctionOnSet(Moved', 1..Len(fills)) = Held
         /\ \A f \in 1..Len(fills) :
               SumFunctionOnSet(Moved', 1..(f - 1)) = SumFunctionOnSet(Moved, 1..(f - 1))
<1> DEFINE n == Len(fills)
<1>1. /\ fills \in Seq([side : {"BUY", "SELL"}, qty : Nat, order : 0..Last])
      /\ fills' = Append(fills, [side |-> side, qty |-> q, order |-> o])
  BY DEF DemoTypeOK, Fills
<1>2. /\ n \in Nat /\ DOMAIN fills = 1..n /\ DOMAIN fills' = 1..(n + 1)
      /\ \A f \in 1..n : fills'[f] = fills[f]
      /\ fills'[n + 1].side = side /\ fills'[n + 1].qty = q
  BY <1>1
<1>3. \A f \in 1..n : Moved[f] \in Int
  <2>1. \A f \in 1..n : fills[f].qty \in Nat
    <3>1. fills \in Seq(FillOf(Last))
      BY <1>1 DEF FillOf
    <3>2. \A x \in FillOf(Last) : x.qty \in Nat
      BY DEF FillOf
    <3> QED
      BY <3>1, <3>2
  <2> QED
    BY <1>2, <2>1 DEF Moved, SignedQty
<1>4. /\ DOMAIN Moved = 1..n /\ DOMAIN Moved' = 1..(n + 1)
      /\ \A f \in 1..n : Moved'[f] = Moved[f]
      /\ Moved'[n + 1] = SignedQty(side, q)
  BY <1>2 DEF Moved, SignedQty
<1>5. SignedQty(side, q) \in Int
  BY DEF SignedQty
<1>6. IsFiniteSet(1..n) /\ \A f \in 1..n : IsFiniteSet(1..(f - 1)) /\ 1..(f - 1) \subseteq 1..n
  <2>1. ASSUME NEW f \in 1..n
        PROVE  IsFiniteSet(1..(f - 1)) /\ 1..(f - 1) \subseteq 1..n
    <3>1. f - 1 \in Int /\ 1 \in Int /\ f - 1 <= n
      BY <1>2
    <3>2. IsFiniteSet(1..(f - 1))
      BY <3>1, FS_Interval
    <3> QED
      BY <1>2, <3>1, <3>2
  <2> QED
    BY <1>2, <2>1, FS_Interval
<1> DEFINE M == Moved
           N == Moved'
<1>7. /\ SumFunctionOnSet(N, 1..n) = SumFunctionOnSet(M, 1..n)
      /\ SumFunctionOnSet(M, 1..n) \in Int
  <2> HIDE DEF M, N, n
  <2>1. \A f \in 1..n : M[f] = N[f] /\ M[f] \in Int
    BY <1>3, <1>4 DEF M, N, n
  <2> QED
    BY <1>6, <2>1, SumOfEquals, SumIsInteger, ZenonT(60)
<1>8. ASSUME NEW f \in 1..n
      PROVE  SumFunctionOnSet(N, 1..(f - 1)) = SumFunctionOnSet(M, 1..(f - 1))
  <2> HIDE DEF M, N, n
  <2>1. \A g \in 1..(f - 1) : N[g] = M[g]
    BY <1>4, <1>6 DEF M, N, n
  <2> QED
    BY <1>6, <2>1, SumOfEquals
<1>9. SumFunctionOnSet(N, 1..(n + 1)) = SumFunctionOnSet(N, 1..n) + N[n + 1]
  <2>1. 1..(n + 1) = (1..n) \cup {n + 1} /\ n + 1 \notin 1..n
    BY <1>2
  <2>2. \A f \in 1..n : N[f] \in Int
    BY <1>3, <1>4
  <2>3. N[n + 1] \in Int
    BY <1>4, <1>5
  <2> HIDE DEF N, n
  <2> QED
    BY <1>6, <2>1, <2>2, <2>3, SumWith, ZenonT(30)
<1>10. /\ Held = SumFunctionOnSet(M, 1..n)
       /\ Held' = SumFunctionOnSet(N, 1..(n + 1))
  BY <1>4 DEF SumFunction, Held
<1> QED
  BY <1>4, <1>7, <1>8, <1>9, <1>10

LEMMA FillKeepsPosition ==
  ASSUME DemoTypeOK, PositionIsFills,
         NEW side \in {"BUY", "SELL"}, NEW q \in Nat, NEW o \in 0..Last,
         Fills(side, q, o), UNCHANGED kind
  PROVE  PositionIsFills'
<1> SUFFICES ASSUME kind # "http" PROVE PositionIsFills'
  BY DEF PositionIsFills
<1> DEFINE n == Len(fills)
           s == SignedQty(side, q)
           Before(f) == SumFunctionOnSet(Moved, 1..(f - 1))
           After(f) == SumFunctionOnSet(Moved', 1..(f - 1))
<1>1. /\ n \in Nat /\ pos.qty \in Int /\ pos.basis \subseteq 1..n /\ s \in Int
      /\ pos' = Applied(side, q, n + 1)
  BY DEF DemoTypeOK, SignedQty, Fills
<1>2. /\ pos.qty = Held
      /\ (pos.basis = {}) <=> (pos.qty = 0)
      /\ (pos.qty # 0) => \E f \in pos.basis : Before(f) = 0
  BY DEF PositionIsFills
<1>3. /\ Held' = pos.qty + s
      /\ After(n + 1) = pos.qty
      /\ \A f \in 1..n : After(f) = Before(f)
  <2>1. (n + 1) - 1 = n
    BY <1>1
  <2> QED
    BY <1>2, <2>1, FillMoves
<1> HIDE DEF Before, After
<1>4. /\ pos'.qty = pos.qty + s
      /\ pos'.basis = IF pos.qty + s = 0 THEN {}
                      ELSE IF Blends(s) THEN pos.basis \cup {n + 1} ELSE pos.basis
  BY <1>1 DEF Applied
<1>5. pos.qty = 0 => Blends(s)
  BY DEF Blends
<1>6. pos'.basis = {} <=> pos'.qty = 0
  BY <1>2, <1>4, <1>5
<1>7. ASSUME pos'.qty # 0 PROVE \E f \in pos'.basis : After(f) = 0
  <2>1. CASE pos.qty = 0
    BY <1>3, <1>4, <1>5, <1>7, <2>1
  <2>2. CASE pos.qty # 0
    <3>1. PICK f \in pos.basis : Before(f) = 0
      BY <1>2, <2>2
    <3>2. After(f) = 0 /\ f \in pos'.basis
      BY <1>1, <1>3, <1>4, <1>7, <3>1
    <3> QED
      BY <3>2
  <2> QED
    BY <2>1, <2>2
<1> QED
  BY <1>3, <1>4, <1>6, <1>7 DEF PositionIsFills, After

LEMMA NextSimPosition == DemoInv /\ PositionIsFills /\ [DemoNext]_demoVars => PositionIsFills'
<1> SUFFICES ASSUME DemoInv, PositionIsFills, [DemoNext]_demoVars PROVE PositionIsFills'
  OBVIOUS
<1>1. DemoTypeOK /\ Last \in Nat
  BY DEF DemoInv, DemoTypeOK, Last
<1>2. ASSUME UNCHANGED <<kind, fills, pos>> PROVE PositionIsFills'
  BY <1>2 DEF PositionIsFills, Moved, Held, SumFunction
<1>3. CASE DemoLinks
  BY <1>1, <1>2, <1>3, DemoLinkKeeps
<1>4. CASE UNCHANGED demoVars
  BY <1>2, <1>4 DEF demoVars
<1>5. CASE \E side \in {"BUY", "SELL"} : DemoSubmit(side)
  BY <1>2, <1>5 DEF DemoSubmit, config
<1>6. CASE DemoAnswer
  BY <1>2, <1>6 DEF DemoAnswer, config
<1>7. CASE DemoHandle
  <2>1. UNCHANGED kind /\ Last \in 0..Last /\ demoOrders[Last].side \in {"BUY", "SELL"}
        /\ Qty \in Nat /\ PartQty \in Nat
    <3>1. demoOrders \in Seq(DemoOrder) /\ Last \in 1..Len(demoOrders)
      BY <1>7 DEF DemoHandle, DemoInv, DemoAgrees, DemoTypeOK, DemoOrder, Last
    <3>2. demoOrders[Last] \in DemoOrder
      BY <3>1
    <3> QED
      BY <1>1, <1>7, <3>2, DemoAssumption DEF DemoHandle, config, DemoOrder
  <2>2. ASSUME NEW q \in Nat, Fills(demoOrders[Last].side, q, Last) PROVE PositionIsFills'
    BY <1>1, <2>1, <2>2, FillKeepsPosition
  <2>3. CASE SimHandles
    BY <1>2, <2>1, <2>2, <2>3 DEF SimHandles
  <2>4. CASE SimIsDown
    BY <1>2, <2>1, <2>4 DEF SimIsDown
  <2>5. CASE HttpHandles
    BY <1>2, <2>1, <2>2, <2>5 DEF HttpHandles
  <2> QED
    BY <1>7, <2>3, <2>4, <2>5 DEF DemoHandle
<1>8. CASE DemoCloses
  <2>1. UNCHANGED kind
    BY <1>1, <1>8, ClosingFills
  <2>2. CASE UNCHANGED <<fills, pos>>
    BY <1>2, <2>1, <2>2
  <2>3. CASE \E side \in {"BUY", "SELL"}, q \in Nat : Fills(side, q, 0)
    <3>1. PICK side \in {"BUY", "SELL"}, q \in Nat : Fills(side, q, 0)
      BY <2>3
    <3> QED
      BY <1>1, <2>1, <3>1, FillKeepsPosition
  <2> QED
    BY <1>1, <1>8, <2>2, <2>3, ClosingFills
<1> QED
  BY <1>3, <1>4, <1>5, <1>6, <1>7, <1>8, DemoCases

\* Whatever is filled, partly filled, reversed or closed, for any quantities and any
\* number of orders, the simulated position is the sum of its fills, and its average
\* price is kept exactly while the position is not flat (_apply_fill).
THEOREM PositionFollowsFills == DemoSpec => []PositionIsFills
<1>1. DemoInit => PositionIsFills
  <2> SUFFICES ASSUME DemoInit PROVE PositionIsFills
    OBVIOUS
  <2>1. fills = <<>> /\ pos = [qty |-> 0, basis |-> {}]
    BY DEF DemoInit, BooksInit
  <2>2. DOMAIN Moved = {}
    BY <2>1 DEF Moved
  <2>3. Held = 0
    BY <2>2, SumOfNone DEF SumFunction, Held
  <2> QED
    BY <2>1, <2>3 DEF PositionIsFills
<1> QED
  BY <1>1, DemoInitInv, DemoNextInv, NextSimPosition, PTL DEF DemoSpec
-----------------------------------------------------------------------------
(* The gate: types.                                                        *)

\* A record is not the empty sequence that stands for none.
LEMMA SpecSet == \A s : ToSpec(s) # <<>>
  BY DEF ToSpec

\* GateTypeOK without the login, which no step changes.
GateLogin == login \in Logins \cup {""}
GateTypes ==
    /\ stage \in {"start", "blocked", "configured", "authorized", "verified", "answered",
                   "specified", "ready"}
    /\ needs \subseteq {"sl", "tp"}
    /\ otpReady => chosen # NoAccount
    /\ stage \in {"specified", "ready"} =>
          /\ answer # <<>> /\ spec # <<>>
          /\ selection # <<>> => (selection.confirmed /\ spec = ToSpec(selection))

LEMMA InParts == GateTypeOK <=> GateLogin /\ GateTypes
  BY Zenon DEF GateTypeOK, GateLogin, GateTypes

LEMMA InitGate == GateInit => GateTypeOK /\ SelectionInv
<1> SUFFICES ASSUME GateInit PROVE GateTypeOK /\ SelectionInv
  OBVIOUS
<1>1. GateLogin /\ stage = "start" /\ otpReady = FALSE /\ needs \in SUBSET {"sl", "tp"}
      /\ selection = <<>>
  BY Zenon DEF GateInit, GateLogin
<1> QED
  BY <1>1, InParts DEF GateTypes, SelectionInv

LEMMA StepGate ==
  ASSUME GateTypes, SelectionInv, [GateNext]_gateVars
  PROVE  GateTypes' /\ UNCHANGED login
<1> USE DEF GateTypes
<1>1. CASE LoadConfig
  <2>1. /\ stage' = "blocked" \/ stage' = "configured"
        /\ UNCHANGED <<login, chosen, otpReady, answer, needs, selection, spec>>
    BY <1>1, Zenon DEF LoadConfig
  <2> QED
    BY <2>1
<1>2. CASE RestAuthorize
  <2>1. /\ stage = "configured" /\ stage' \in {"configured", "authorized"}
        /\ UNCHANGED <<login, needs>> /\ (otpReady' => chosen' # NoAccount)
    BY <1>2 DEF RestAuthorize
  <2> QED
    BY <2>1
<1>3. CASE VerifyAccount
  <2>1. /\ stage' = "verified" \/ stage' = "blocked"
        /\ UNCHANGED <<login, chosen, otpReady, answer, needs, selection, spec>>
    BY <1>3, Zenon DEF VerifyAccount
  <2> QED
    BY <2>1
<1>4. CASE AskContracts
  BY <1>4 DEF AskContracts
<1>5. ASSUME NEW p \in Preferred, Select(p) PROVE GateTypes' /\ UNCHANGED login
  <2>1. stage = "answered" /\ answer # <<>> /\ UNCHANGED <<login, chosen, otpReady, answer, needs>>
    BY <1>5, AnswerAssumption DEF Select, SelectionInv
  <2>2. CASE selection'.confirmed
    <3>1. stage' = "specified" /\ spec' = ToSpec(selection')
      BY <1>5, <2>2, Zenon DEF Select
    <3>2. spec' # <<>>
      BY <3>1, SpecSet
    <3> QED
      BY <2>1, <2>2, <3>1, <3>2
  <2>3. CASE ~selection'.confirmed
    <3>1. stage' = "blocked"
      BY <1>5, <2>3, Zenon DEF Select
    <3> QED
      BY <2>1, <3>1
  <2> QED
    BY <2>2, <2>3
<1>6. ASSUME NEW s \in EnvSpecs, SpecFromEnv(s) PROVE GateTypes' /\ UNCHANGED login
  <2>1. answer # <<>> /\ selection = <<>> /\ s # <<>>
    BY <1>6, AnswerAssumption DEF SpecFromEnv, SelectionInv
  <2> QED
    BY <1>6, <2>1 DEF SpecFromEnv
<1>7. CASE Check
  <2>1. /\ stage = "specified" /\ stage' \in {"ready", "blocked"}
        /\ UNCHANGED <<login, chosen, otpReady, answer, needs, selection, spec>>
    BY <1>7 DEF Check
  <2> QED
    BY <2>1 DEF ToSpec
<1>8. CASE UNCHANGED gateVars
  BY <1>8 DEF gateVars, ToSpec
<1> QED
  BY <1>1, <1>2, <1>3, <1>4, <1>5, <1>6, <1>7, <1>8 DEF GateNext

LEMMA NextGate ==
  (GateTypeOK /\ SelectionInv) /\ [GateNext]_gateVars => (GateTypeOK /\ SelectionInv)'
<1> SUFFICES ASSUME GateTypeOK, SelectionInv, [GateNext]_gateVars
             PROVE  GateTypeOK' /\ SelectionInv'
  OBVIOUS
<1>1. GateLogin /\ GateTypes
  BY InParts
<1>2. GateTypes' /\ UNCHANGED login /\ SelectionInv'
  BY <1>1, StepGate, StepSelection
<1>3. GateLogin'
  BY <1>1, <1>2, Zenon DEF GateLogin
<1>4. GateTypeOK'
  BY <1>2, <1>3, Zenon DEF GateTypeOK, GateLogin, GateTypes
<1> QED
  BY <1>2, <1>4

-----------------------------------------------------------------------------
(* The three parts, one of them at work and the others as they started.    *)

PartsInv == DemoInv /\ (GateTypeOK /\ SelectionInv) /\ TypeInv

LEMMA InitParts == BrokersInit => PartsInv
<1> SUFFICES ASSUME BrokersInit PROVE PartsInv
  OBVIOUS
<1>1. DemoInit /\ GateInit /\ Init
  BY DEF BrokersInit, DemoIdle, GateIdle, DerivIdle
<1> QED
  BY <1>1, DemoInitInv, InitGate, InitTypes DEF PartsInv

LEMMA NextParts == PartsInv /\ [BrokersNext]_brokersVars => PartsInv'
<1> SUFFICES ASSUME PartsInv, [BrokersNext]_brokersVars PROVE PartsInv'
  OBVIOUS
<1>1. [DemoNext]_demoVars /\ [GateNext]_gateVars
  BY DEF BrokersNext, brokersVars
<1>2. [Next]_vars
  BY DEF BrokersNext, brokersVars
<1> QED
  BY <1>1, <1>2, DemoNextInv, NextGate, NextTypes DEF PartsInv

\* The generic broker, the gate and the Deriv adapter keep the types of their modules,
\* each with the others beside it (BrokersTypeOK of MCBrokers).
THEOREM BrokersTypes == BrokersSpec => []BrokersTypeOK
<1>1. PartsInv => BrokersTypeOK
  BY DEF PartsInv, DemoInv, TypeInv, BrokersTypeOK
<1>2. BrokersInit /\ [][BrokersNext]_brokersVars => []BrokersTypeOK
  BY <1>1, InitParts, NextParts, PTL
<1> QED
  BY <1>2, PTL DEF BrokersSpec
===============================================================================
