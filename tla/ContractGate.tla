---------------------------- MODULE ContractGate ----------------------------
(***************************************************************************)
(* What stands between the configuration and a first order on Deriv: the   *)
(* configuration is loaded, the account is chosen and checked, a contract  *)
(* is selected from the broker's contracts_for answer and becomes a spec,  *)
(* and the spec is verified against the same answer and against the intent *)
(* (config_loader.py, rest_transport.py, contract_selection.py,            *)
(* contract_verification.py, execution_mapping.py).  The gate programs     *)
(* call these functions in this order, each program some of them.          *)
(***************************************************************************)
EXTENDS Integers, Sequences, FiniteSets

CONSTANTS Logins,       \* login ids; some have the virtual prefix
          VirtualLogins,
          AccountLists, \* what the accounts endpoint may list
          Answers,      \* the answers to contracts_for
          EnvSpecs,     \* the specs an environment may describe
          Preferred     \* preferred_multiplier: a multiplier, or 0

ASSUME LoginAssumption == VirtualLogins \subseteq Logins
ASSUME PreferredAssumption == Preferred \subseteq Nat
ASSUME AnswerAssumption ==
    /\ \A a \in Answers : a # <<>> /\ \A t \in DOMAIN a.entries : a.entries[t].multipliers \in Seq(Nat)
    /\ \A s \in EnvSpecs : s # <<>>

VARIABLES stage,        \* how far the gate has come, "blocked" when it stopped
          login,        \* DERIV_ACCOUNT_LOGIN, "" if not set
          chosen,       \* _account of the REST transport, NoAccount at first
          otpReady,     \* its _authorized
          answer,       \* the contracts_for answer
          needs,        \* which of "sl" and "tp" the intent carries
          selection,    \* the ContractSelection
          spec          \* the DerivContractSpec the gate goes on with

gateVars == <<stage, login, chosen, otpReady, answer, needs, selection, spec>>

NoAccount == [flag |-> "absent", type |-> "", login |-> ""]
Category == {"multiplier", "turbos", "callput", "callputequal"}
Up == [c \in Category |->
         CASE c = "multiplier" -> "MULTUP" [] c = "turbos" -> "TURBOSLONG"
           [] c = "callput" -> "CALL" [] c = "callputequal" -> "CALLE"]
Down == [c \in Category |->
         CASE c = "multiplier" -> "MULTDOWN" [] c = "turbos" -> "TURBOSSHORT"
           [] c = "callput" -> "PUT" [] c = "callputequal" -> "PUTE"]
\* CATEGORY_PREFERENCE: the position of a category
Preference == [c \in Category |->
         CASE c = "multiplier" -> 1 [] c = "turbos" -> 2
           [] c = "callput" -> 3 [] c = "callputequal" -> 4]

-----------------------------------------------------------------------------
(* Configuration and account.                                             *)

GateInit ==
    /\ stage = "start"
    /\ login \in Logins \cup {""}
    /\ chosen = NoAccount
    /\ otpReady = FALSE
    /\ answer = <<>> /\ selection = <<>> /\ spec = <<>>
    /\ needs \in SUBSET {"sl", "tp"}

\* load_deriv_config(): a configured login must be a virtual one
LoadConfig ==
    /\ stage = "start"
    /\ stage' = IF login # "" /\ login \notin VirtualLogins THEN "blocked" ELSE "configured"
    /\ UNCHANGED <<login, chosen, otpReady, answer, needs, selection, spec>>

\* _account_is_virtual(): a flag decides; without one the account type, and
\* without a demo type the login
AccountIsVirtual(a) ==
    \/ a.flag = "yes"
    \/ a.flag = "absent" /\ (a.type = "demo" \/ a.login \in VirtualLogins)

\* _choose_account() with prefer_virtual: the first virtual account
Choice(accounts) ==
    LET virtual == { i \in DOMAIN accounts : AccountIsVirtual(accounts[i]) }
    IN  IF virtual = {} THEN NoAccount
        ELSE accounts[CHOOSE i \in virtual : \A j \in virtual : i <= j]

\* connect() and the translated authorize: list the accounts, choose one, ask
\* for its one-time password.  An error on the way leaves the transport not
\* authorized, with the account if one was chosen.
RestAuthorize ==
    /\ stage = "configured"
    /\ \E accounts \in AccountLists :
         LET found == Choice(accounts) # NoAccount IN
         \/ /\ found /\ chosen' = Choice(accounts)
            /\ otpReady' = TRUE
            /\ stage' = "authorized"
         \/ /\ chosen' = chosen \/ (found /\ chosen' = Choice(accounts))
            /\ otpReady' = FALSE
            /\ UNCHANGED stage
    /\ UNCHANGED <<login, answer, needs, selection, spec>>

\* _balance(): answered only on an authorized transport, from the account
BalanceAnswered == otpReady /\ chosen # NoAccount

\* A fault: the flag of the account is taken for the prefix of its login.
AccountFlagged ==
    /\ AccountIsVirtual(chosen)
    /\ login = "" \/ login = chosen.login

\* verify_virtual_account(): the flag of the answer, which the transport worked
\* out, then the prefix of the login, then the configured login
AccountVerified ==
    /\ AccountIsVirtual(chosen)
    /\ chosen.login \in VirtualLogins
    /\ login = "" \/ login = chosen.login

VerifyAccount ==
    /\ stage = "authorized"
    /\ stage' = IF AccountVerified /\ BalanceAnswered THEN "verified" ELSE "blocked"
    /\ UNCHANGED <<login, chosen, otpReady, answer, needs, selection, spec>>

-----------------------------------------------------------------------------
(* contract_selection.py.  An answer names a symbol, has stake limits of   *)
(* its own, and entries: contract type -> entry.  An entry's stake limits  *)
(* fit the size of the intent, do not, or are absent, when the answer's    *)
(* own are used.                                                           *)

StakeFits(a, e) == IF e.stake = "absent" THEN a.stake # "misfit" ELSE e.stake = "fits"

\* _supports_limit_order(): an explicit flag, else by the category of the pair
SupportsLimitOrder(e, category) ==
    IF e.limitOrder = "absent" THEN category \in {"multiplier", "turbos"}
                               ELSE e.limitOrder = "yes"

Paired(a, c) == {Up[c], Down[c]} \subseteq DOMAIN a.entries

\* the multiplier of a pair: the preferred one, else the middle of the range
ChosenMultiplier(e, preferred) ==
    IF preferred # 0 THEN preferred ELSE e.multipliers[(Len(e.multipliers) \div 2) + 1]

\* A fault: a preferred multiplier need not be in the range.
QualifyingAtAnyMultiplier(a, needed, preferred) ==
    { c \in Category :
        /\ Paired(a, c)
        /\ LET e == a.entries[Up[c]] IN
           /\ needed # {} => SupportsLimitOrder(e, c)
           /\ StakeFits(a, e)
           /\ c = "multiplier" => e.multipliers # <<>> }

\* the pairs of the answer that can represent the intent.  Only the entry of
\* the up leg is looked at.
Qualifying(a, needed, preferred) ==
    { c \in Category :
        /\ Paired(a, c)
        /\ LET e == a.entries[Up[c]] IN
           /\ needed # {} => SupportsLimitOrder(e, c)
           /\ StakeFits(a, e)
           /\ c = "multiplier" =>
                /\ e.multipliers # <<>>
                /\ preferred # 0 => \E i \in DOMAIN e.multipliers : e.multipliers[i] = preferred }

NotSelected == [confirmed |-> FALSE, category |-> "none", multiplier |-> 0, limitOrder |-> FALSE]

\* select_contract(): the qualifying pair of the category most preferred
Selected(a, needed, preferred) ==
    LET q == Qualifying(a, needed, preferred) IN
    IF q = {} THEN NotSelected
    ELSE LET c == CHOOSE c \in q : \A d \in q : Preference[c] <= Preference[d]
             e == a.entries[Up[c]]
         IN [confirmed |-> TRUE, category |-> c,
             multiplier |-> IF c = "multiplier" THEN ChosenMultiplier(e, preferred) ELSE 0,
             limitOrder |-> SupportsLimitOrder(e, c)]

\* to_spec(): no duration, and a multiplier for multipliers only; 0 is None
ToSpec(s) ==
    [buy |-> Up[s.category], sell |-> Down[s.category], multiplier |-> s.multiplier,
     duration |-> 0, limitOrder |-> s.limitOrder]

AskContracts ==
    /\ stage = "verified"
    /\ answer' \in Answers
    /\ stage' = "answered"
    /\ UNCHANGED <<login, chosen, otpReady, needs, selection, spec>>

\* A fault: the gate goes on whether or not a contract was selected.
SelectAnyway(preferred) ==
    /\ stage = "answered"
    /\ selection' = Selected(answer, needs, preferred)
    /\ spec' = IF selection'.confirmed THEN ToSpec(selection') ELSE <<>>
    /\ stage' = "specified"
    /\ UNCHANGED <<login, chosen, otpReady, answer, needs>>

Select(preferred) ==
    /\ stage = "answered"
    /\ selection' = Selected(answer, needs, preferred)
    /\ spec' = IF selection'.confirmed THEN ToSpec(selection') ELSE <<>>
    /\ stage' = IF selection'.confirmed THEN "specified" ELSE "blocked"
    /\ UNCHANGED <<login, chosen, otpReady, answer, needs>>

\* load_contract_spec(): a spec of the environment instead
SpecFromEnv(s) ==
    /\ stage = "answered"
    /\ spec' = s
    /\ stage' = "specified"
    /\ UNCHANGED <<login, chosen, otpReady, answer, needs, selection>>

-----------------------------------------------------------------------------
(* contract_verification.py and execution_mapping.py.                      *)

\* the flag of an entry, else by the category the entry gives
VerifiedLimitOrder(e) ==
    IF e.limitOrder = "absent" THEN e.category = "multiplier" ELSE e.limitOrder = "yes"

\* verify_contracts_for(): the verification of a spec is confirmed
Verified(a, s) ==
    /\ a.symbol = "same" /\ DOMAIN a.entries # {}
    /\ {s.buy, s.sell} \subseteq DOMAIN a.entries
    /\ LET e == a.entries[s.buy] IN
       /\ StakeFits(a, e)
       /\ e.category = "multiplier" =>
            /\ s.multiplier # 0
            /\ e.multipliers # <<>> =>
                 \E i \in DOMAIN e.multipliers : e.multipliers[i] = s.multiplier
       /\ s.limitOrder => VerifiedLimitOrder(e)

\* confirm_apex_mapping(): the contract must carry a stop and a target
MappingConfirmed(a, s) == Verified(a, s) /\ VerifiedLimitOrder(a.entries[s.buy])

\* validate_mapping(): a proposal built from the spec can be priced, and
\* carries the stop and the target of the intent
CanPrice(s) == s.multiplier # 0 \/ s.duration # 0
MappingValid(s, needed) ==
    /\ CanPrice(s)
    /\ needed # {} => s.limitOrder /\ s.duration = 0

\* the request map_intent_to_proposal() builds: what it carries
Proposal(s, side, needed) ==
    [type |-> IF side = "BUY" THEN s.buy ELSE s.sell,
     fields |-> (IF s.multiplier # 0 THEN {"multiplier"} ELSE {})
                \cup (IF s.duration # 0 THEN {"duration", "duration_unit"} ELSE {})
                \cup (IF needed # {} THEN {"limit_order"} ELSE {})]

\* the verification gate asks verify and confirm, the readiness gate validate,
\* the live gate whether the proposal carries what the intent needs
Check ==
    /\ stage = "specified"
    /\ \/ stage' = IF MappingConfirmed(answer, spec) THEN "ready" ELSE "blocked"
       \/ stage' = IF MappingValid(spec, needs) THEN "ready" ELSE "blocked"
       \/ stage' = IF needs # {} => "limit_order" \in Proposal(spec, "BUY", needs).fields
                     THEN "ready" ELSE "blocked"
    /\ UNCHANGED <<login, chosen, otpReady, answer, needs, selection, spec>>

GateNext ==
    \/ LoadConfig \/ RestAuthorize \/ VerifyAccount \/ AskContracts \/ Check
    \/ \E p \in Preferred : Select(p)
    \/ \E s \in EnvSpecs : SpecFromEnv(s)

GateSpec == GateInit /\ [][GateNext]_gateVars

-----------------------------------------------------------------------------
(* Properties.                                                             *)

\* Every variable has the values its code gives it, and a gate that goes on has a
\* spec of an answer.
GateTypeOK ==
    /\ stage \in {"start", "blocked", "configured", "authorized", "verified", "answered",
                   "specified", "ready"}
    /\ login \in Logins \cup {""} /\ needs \subseteq {"sl", "tp"}
    /\ otpReady => chosen # NoAccount
    /\ stage \in {"specified", "ready"} =>
          /\ answer # <<>> /\ spec # <<>>
          /\ selection # <<>> => (selection.confirmed /\ spec = ToSpec(selection))

Passed == {"verified", "answered", "specified", "ready"}

\* Past the check of the account, the login has the virtual prefix, is the
\* configured one if one was configured, and is of an account the token lists,
\* whatever flags and types the accounts endpoint gave (verify_virtual_account,
\* _choose_account).
OnlyVirtualPasses ==
    stage \in Passed =>
        /\ otpReady
        /\ chosen.login \in VirtualLogins
        /\ login # "" => (login = chosen.login)
        /\ chosen.flag # "no"

\* Two functions read one answer: a multiplier pair that select_contract()
\* confirms is confirmed by verify_contracts_for() and can be priced, and with
\* a stop or a target confirm_apex_mapping() accepts it too -- when the answer
\* names the symbol and gives the flag or the category the two infer from.
SelectionVerifies ==
    (stage = "specified" /\ selection # <<>> /\ spec.multiplier # 0) =>
        LET e == answer.entries[spec.buy] IN
        (answer.symbol = "same" /\ (e.limitOrder # "absent" \/ e.category = "multiplier")) =>
            /\ Verified(answer, spec)
            /\ MappingValid(spec, needs)
            /\ needs # {} => MappingConfirmed(answer, spec)
=============================================================================
