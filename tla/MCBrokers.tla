------------------------------ MODULE MCBrokers ------------------------------
(* Three parts that share nothing, one of them at work in each behaviour: the  *)
(* generic broker, the gate before a first order, and the Deriv adapter with   *)
(* its monitor, whose operations are to end.                                   *)
EXTENDS DemoBroker, MCContractGate, MCDerivBroker

VARIABLE part

brokersVars == <<part, demoVars, gateVars, vars>>

DemoIdle == DemoInit /\ kind = "mock" /\ ~liveEndpoint
GateIdle == GateInit /\ login = "" /\ needs = {}
DerivIdle == Init /\ transport = "sim" /\ account = "virtual" /\ ~background

BrokersInit ==
    \/ part = "demo" /\ DemoInit /\ GateIdle /\ DerivIdle
    \/ part = "gate" /\ GateInit /\ DemoIdle /\ DerivIdle
    \/ part = "deriv" /\ Init /\ DemoIdle /\ GateIdle

BrokersNext ==
    \/ part = "demo" /\ DemoNext /\ UNCHANGED <<part, gateVars, vars>>
    \/ part = "gate" /\ GateNext /\ UNCHANGED <<part, demoVars, vars>>
    \/ part = "deriv" /\ Next /\ UNCHANGED <<part, demoVars, gateVars>>

BrokersSpec == BrokersInit /\ [][BrokersNext]_brokersVars
                           /\ \A t \in Thread : WF_vars(Step(t))

\* The type invariants of the three parts (DemoBroker, ContractGate, DerivBroker).
BrokersTypeOK == DemoTypeOK /\ GateTypeOK /\ TypeOK
=============================================================================
