---------------------------- MODULE PhoneProofs -----------------------------
(***************************************************************************)
(* Proofs about the buyer's phone: first that an authorization names only  *)
(* a registered key, for any keys, payments and bounds, and whichever      *)
(* prompts the wallet answers; then about the parts of MCPhoneSync, which  *)
(* deposit into the vault, copy the log, pay QR codes and catch up with    *)
(* the mediator, for any orders, amounts, messages and bounds.             *)
(***************************************************************************)
EXTENDS MCPhoneSync, PhoneKeys, Sequences, FiniteSetTheorems, WellFoundedInduction, TLAPS

FlowState == [step : Steps, wait : Kinds \cup {None}, signed : Tx \cup {None},
              key : Keys \cup {None}, for : Payments \cup Keys \cup {None}]
Request == [old : Keys, new : Keys]

Typed ==
    /\ flow \in [Flows -> FlowState]
    /\ waiting \in [Kinds -> Flows \cup {None}]
    /\ offers \subseteq [payment : Payments, key : Keys \cup {None}]
    /\ mail \subseteq Request /\ renewal \in Request \cup {None}
    /\ \A f \in Flows : flow[f].step \notin {"closed", "await"} => flow[f].key \in Keys

\* An open completer belongs to a flow that waits at a step with a transaction.
Completers ==
    /\ \A c \in Kinds : waiting[c] # None => flow[waiting[c]].wait = c
    /\ \A f \in Flows : flow[f].wait # None => flow[f].step \in {"create"} \cup Assets

\* Past its confirmation the wizard holds a registered key.
PastConfirmation ==
    flow["wizard"].step \in Assets \cup {"respond"} => flow["wizard"].key \in registered

Inductive == Typed /\ Completers /\ PastConfirmation /\ AuthorizedKeysAreRegistered

LEMMA InitHolds == Init => Inductive
<1> USE PhoneKeysAssumption
<1> SUFFICES ASSUME Init PROVE Inductive
  OBVIOUS
<1> QED
  BY SMT DEF Init, Inductive, Typed, Completers, PastConfirmation, Closed, FlowState,
      AuthorizedKeysAreRegistered, Flows, Kinds, Steps, Assets, Request, Tx

\* Going to the next step with the wizard's key registered keeps the invariant,
\* once no completer is the flow's any more.
LEMMA MoveOn ==
    ASSUME Inductive, NEW f \in Flows, NEW step \in Steps, Goto(f, step),
           flow[f].step \notin {"closed", "await"},
           f = "wizard" /\ step \in Assets \cup {"respond"} => flow[f].key \in registered,
           registered \subseteq registered', UNCHANGED <<mcp, answers>>,
           waiting' \in [Kinds -> Flows \cup {None}],
           \A c \in Kinds : waiting'[c] # None => waiting'[c] = waiting[c] /\ waiting[c] # f
    PROVE  Inductive'
<1> USE PhoneKeysAssumption
<1>1. Typed'
  BY DEF Inductive, Typed, Goto, FlowState, mcp, Flows, Kinds
<1>2. Completers'
  BY DEF Inductive, Typed, Completers, Goto, FlowState, Flows, Kinds
<1>3. PastConfirmation'
  BY DEF Inductive, Typed, PastConfirmation, Goto, FlowState, Flows
<1>4. AuthorizedKeysAreRegistered'
  BY DEF Inductive, AuthorizedKeysAreRegistered
<1> QED
  BY <1>1, <1>2, <1>3, <1>4 DEF Inductive

\* So does an error.
LEMMA Fails ==
    ASSUME Inductive, NEW f \in Flows, Fail(f),
           registered \subseteq registered', UNCHANGED <<mcp, answers>>,
           waiting' \in [Kinds -> Flows \cup {None}],
           \A c \in Kinds : waiting'[c] # None => waiting'[c] = waiting[c] /\ waiting[c] # f
    PROVE  Inductive'
<1> USE PhoneKeysAssumption
<1> DEFINE stay == [flow[f] EXCEPT !.wait = None, !.signed = None,
               !.step = IF flow[f].step = "confirm" THEN "create" ELSE flow[f].step]
<1>0. flow' = [flow EXCEPT ![f] = IF f = "renew" THEN Closed ELSE stay]
  BY DEF Fail
<1>a. Closed \in FlowState
  BY DEF Closed, FlowState, Steps
<1>b. flow \in [Flows -> FlowState] /\ flow[f] \in FlowState
  BY DEF Inductive, Typed
<1>c. stay \in FlowState
  BY <1>b DEF FlowState, Steps
<1>1. flow' \in [Flows -> FlowState]
  BY <1>0, <1>a, <1>b, <1>c
<1>2. Typed'
  <2>1. \A g \in Flows : flow'[g].step \notin {"closed", "await"} => flow'[g].key \in Keys
    BY <1>0, <1>b DEF Inductive, Typed, Closed, FlowState
  <2> QED
    BY <1>1, <2>1 DEF Inductive, Typed, mcp
<1>3. Completers'
  BY <1>1 DEF Inductive, Typed, Completers, Fail, FlowState, Flows, Kinds, Closed
<1>4. PastConfirmation'
  BY <1>1 DEF Inductive, Typed, PastConfirmation, Fail, FlowState, Flows, Closed, Assets
<1>5. AuthorizedKeysAreRegistered'
  BY DEF Inductive, AuthorizedKeysAreRegistered
<1> QED
  BY <1>2, <1>3, <1>4, <1>5 DEF Inductive

\* So does a request to the wallet.
LEMMA Prompts ==
    ASSUME Inductive, NEW f \in Flows, NEW kind \in Kinds, NEW prompted, NEW open,
           Prompt(f, kind, prompted, open), flow[f].step \in {"create"} \cup Assets,
           open \in [Kinds -> Flows \cup {None}],
           \A c \in Kinds : open[c] # None => open[c] = waiting[c] /\ (c = kind \/ open[c] # f),
           UNCHANGED <<chain, mcp, answers>>
    PROVE  Inductive'
<1> USE PhoneKeysAssumption
<1>1. Typed'
  BY DEF Inductive, Typed, Prompt, FlowState, mcp, Flows, Kinds
<1>2. Completers'
  BY DEF Inductive, Typed, Completers, Prompt, FlowState, Flows, Kinds
<1>3. PastConfirmation'
  BY DEF Inductive, Typed, PastConfirmation, Prompt, FlowState, Flows, chain
<1>4. AuthorizedKeysAreRegistered'
  BY DEF Inductive, AuthorizedKeysAreRegistered, chain
<1> QED
  BY <1>1, <1>2, <1>3, <1>4 DEF Inductive

\* So does a signature the flow waited for, once no completer is its own any more.
LEMMA Advances ==
    ASSUME Inductive, NEW f \in Flows, Advance(f),
           registered \subseteq registered', UNCHANGED <<mcp, answers>>,
           waiting' \in [Kinds -> Flows \cup {None}],
           \A c \in Kinds : waiting'[c] # None => waiting'[c] = waiting[c] /\ waiting[c] # f
    PROVE  Inductive'
<1> USE PhoneKeysAssumption
<1>1. CASE flow[f].step = "create"
  <2>1. PICK step \in {"confirm", "sol"} : Goto(f, step) /\ (f = "wizard" => step = "confirm")
    BY <1>1 DEF Advance, Assets
  <2> QED
    BY <1>1, <2>1, MoveOn DEF Steps, Assets
<1>2. CASE flow[f].step = "sol"
  <2>1. Goto(f, "usdc")
    BY <1>2 DEF Advance
  <2> QED
    BY <1>2, <2>1, MoveOn DEF Steps, Assets, Inductive, PastConfirmation
<1>3. CASE flow[f].step = "usdc"
  <2>1. Goto(f, "respond")
    BY <1>3 DEF Advance
  <2> QED
    BY <1>3, <2>1, MoveOn DEF Steps, Assets, Inductive, PastConfirmation
<1> QED
  BY <1>1, <1>2, <1>3 DEF Advance

\* So does a flow that gets no signature.
LEMMA WithoutSignature ==
    ASSUME Inductive, NEW f \in Flows, NEW kind \in Kinds, flow[f].wait = kind,
           NEW prompted, NEW open, NoSignature(f, prompted, open),
           open \in [Kinds -> Flows \cup {None}],
           \A c \in Kinds : open[c] # None => open[c] = waiting[c] /\ open[c] # f,
           UNCHANGED <<records, chain, mcp, history>>
    PROVE  Inductive'
<1> USE PhoneKeysAssumption
<1>1. flow[f].step \in {"create"} \cup Assets
  BY DEF Inductive, Completers, Kinds
<1>2. UNCHANGED <<chain, mcp, answers>> /\ registered \subseteq registered'
  BY DEF chain, history
<1>3. CASE Prompt(f, "signAndSend", prompted, open)
  <2>1. "signAndSend" \in Kinds
    BY DEF Kinds
  <2> QED
    BY <1>1, <1>2, <1>3, <2>1, Prompts
<1>4. CASE Fail(f) /\ waiting' = open
  <2> QED
    BY <1>2, <1>4, Fails
<1> QED
  BY <1>3, <1>4 DEF NoSignature

\* Steps that leave flows, completers and the MCP's offers alone.
LEMMA Unmoved ==
    ASSUME Inductive, UNCHANGED <<flow, waiting, offers, mail, renewal, answers>>,
           registered \subseteq registered'
    PROVE  Inductive'
  BY DEF Inductive, Typed, Completers, PastConfirmation, AuthorizedKeysAreRegistered

\* The answers of the wallet and its timeouts.
LEMMA WalletStep ==
    ASSUME Inductive, NEW pr, SignAndSend(pr) \/ SignOnly(pr) \/ Reject(pr),
           pr.kind \in Kinds, pr.tx \in Tx
    PROVE  Inductive'
<1> USE PhoneKeysAssumption
<1>0. waiting \in [Kinds -> Flows \cup {None}]
  BY DEF Inductive, Typed
<1>1. CASE SignAndSend(pr)
  <2>1. CASE waiting["signAndSend"] = None
    <3>1. waiting' = waiting
      BY <1>0, <1>1, <2>1 DEF SignAndSend, Kinds
    <3> QED
      BY <1>1, <2>1, <3>1, Unmoved DEF SignAndSend, Owner, mcp
  <2>2. CASE waiting["signAndSend"] # None
    <3>1. /\ waiting["signAndSend"] \in Flows /\ registered \subseteq registered'
          /\ waiting' = [waiting EXCEPT !["signAndSend"] = None]
          /\ UNCHANGED <<mcp, answers>> /\ Advance(waiting["signAndSend"])
      BY <1>0, <1>1, <2>2 DEF Kinds, SignAndSend, Owner
    <3>2. /\ waiting' \in [Kinds -> Flows \cup {None}]
          /\ \A c \in Kinds : waiting'[c] # None =>
                 waiting'[c] = waiting[c] /\ waiting[c] # waiting["signAndSend"]
      BY <1>0, <2>2, <3>1 DEF Kinds, Inductive, Completers
    <3> QED
      BY <3>1, <3>2, Advances
  <2> QED
    BY <2>1, <2>2
<1>2. CASE SignOnly(pr)
  <2>1. CASE waiting["signOnly"] = None
    <3>1. waiting' = waiting
      BY <1>0, <1>2, <2>1 DEF SignOnly, Kinds
    <3> QED
      BY <1>2, <2>1, <3>1, Unmoved DEF SignOnly, Owner, mcp, chain, history
  <2>2. CASE waiting["signOnly"] # None
    <3> DEFINE f == waiting["signOnly"]
    <3>1. /\ f \in Flows /\ flow[f].wait = "signOnly"
          /\ flow' = [flow EXCEPT ![f].wait = None, ![f].signed = pr.tx]
          /\ waiting' = [waiting EXCEPT !["signOnly"] = None]
          /\ UNCHANGED <<registered, offers, mail, renewal, answers>>
      BY <1>0, <1>2, <2>2 DEF SignOnly, Owner, Kinds, Inductive, Completers, chain, mcp, history
    <3>2. Typed'
      <4>1. flow \in [Flows -> FlowState] /\ flow[f] \in FlowState
        BY <3>1 DEF Inductive, Typed
      <4>2. [flow[f] EXCEPT !.wait = None, !.signed = pr.tx] \in FlowState
        BY <4>1 DEF FlowState
      <4>3. flow' = [flow EXCEPT ![f] = [flow[f] EXCEPT !.wait = None, !.signed = pr.tx]]
        BY <3>1, <4>1
      <4>4. flow' \in [Flows -> FlowState]
        BY <4>1, <4>2, <4>3
      <4>5. \A g \in Flows : flow'[g].step = flow[g].step /\ flow'[g].key = flow[g].key
        BY <4>1, <4>3 DEF FlowState
      <4>6. waiting' \in [Kinds -> Flows \cup {None}]
        BY <1>0, <3>1
      <4> QED
        BY <3>1, <4>4, <4>5, <4>6 DEF Inductive, Typed
    <3>3. Completers'
      BY <3>1 DEF Inductive, Typed, Completers, FlowState, Kinds
    <3>4. PastConfirmation'
      BY <3>1 DEF Inductive, Typed, PastConfirmation, FlowState, Flows
    <3>5. AuthorizedKeysAreRegistered'
      BY <3>1 DEF Inductive, AuthorizedKeysAreRegistered
    <3> QED
      BY <3>2, <3>3, <3>4, <3>5 DEF Inductive
  <2> QED
    BY <2>1, <2>2
<1>3. CASE Reject(pr)
  <2> DEFINE f == waiting[pr.kind]
             prompted == prompts \ {pr}
             open == [waiting EXCEPT ![pr.kind] = None]
  <2>1. UNCHANGED <<records, chain, mcp, history>>
    BY <1>3 DEF Reject
  <2>2. CASE f = None
    <3>1. UNCHANGED <<waiting, flow>>
      BY <1>3, <2>2 DEF Reject, Owner
    <3> QED
      BY <2>1, <3>1, Unmoved DEF mcp, chain, history
  <2>3. CASE f # None
    <3>1. NoSignature(f, prompted, open)
      BY <1>3, <2>3 DEF Reject, Owner
    <3>2. f \in Flows /\ flow[f].wait = pr.kind
      BY <1>0, <2>3 DEF Inductive, Completers
    <3>3. /\ open \in [Kinds -> Flows \cup {None}]
          /\ \A c \in Kinds : open[c] # None => open[c] = waiting[c] /\ open[c] # f
      BY <1>0, <2>3 DEF Inductive, Completers
    <3> QED
      BY <2>1, <3>1, <3>2, <3>3, WithoutSignature
  <2> QED
    BY <2>2, <2>3
<1> QED
  BY <1>1, <1>2, <1>3

\* The steps of the flows themselves.
LEMMA FlowStep ==
    ASSUME Inductive, NEW f \in Flows, TimeOut(f) \/ Create(f) \/ Fund(f) \/ Broadcast(f) \/ Respond(f)
    PROVE  Inductive'
<1> USE PhoneKeysAssumption
<1>0. /\ waiting \in [Kinds -> Flows \cup {None}]
      /\ flow \in [Flows -> FlowState]
      /\ \A c \in Kinds : waiting[c] = f => flow[f].wait = c
  BY DEF Inductive, Typed, Completers, Flows
<1>1. CASE TimeOut(f)
  <2> DEFINE open == [c \in Kinds |-> IF waiting[c] = f THEN None ELSE waiting[c]]
  <2>1. flow[f].wait \in Kinds
    BY <1>0, <1>1 DEF TimeOut, FlowState
  <2>2. /\ open \in [Kinds -> Flows \cup {None}]
        /\ \A c \in Kinds : open[c] # None => open[c] = waiting[c] /\ open[c] # f
    BY <1>0
  <2>3. NoSignature(f, prompts, open) /\ UNCHANGED <<records, chain, mcp, history>>
    BY <1>1 DEF TimeOut
  <2> QED
    BY <2>1, <2>2, <2>3, WithoutSignature
<1>2. CASE Create(f)
  <2>1. /\ flow[f].step = "create" /\ flow[f].wait = None
        /\ UNCHANGED <<chain, mcp, history>>
    BY <1>2 DEF Create, Idle
  <2>2. CASE flow[f].key \in registered /\ Goto(f, "sol") /\ UNCHANGED wallet
    <3>1. \A c \in Kinds : waiting'[c] # None => waiting'[c] = waiting[c] /\ waiting[c] # f
      BY <1>0, <2>1, <2>2 DEF wallet, Kinds
    <3> QED
      BY <1>0, <2>1, <2>2, <3>1, MoveOn DEF wallet, chain, history, Steps, Assets
  <2>3. CASE Prompt(f, "signOnly", prompts, waiting)
    <3>1. \A c \in Kinds : waiting[c] # None =>
              waiting[c] = waiting[c] /\ (c = "signOnly" \/ waiting[c] # f)
      BY <1>0, <2>1 DEF Kinds
    <3> QED
      BY <1>0, <2>1, <2>3, <3>1, Prompts DEF Kinds, history
  <2>4. CASE Fail(f) /\ UNCHANGED wallet
    <3>1. \A c \in Kinds : waiting'[c] # None => waiting'[c] = waiting[c] /\ waiting[c] # f
      BY <1>0, <2>1, <2>4 DEF wallet, Kinds
    <3> QED
      BY <1>0, <2>1, <2>4, <3>1, Fails DEF wallet, chain, history
  <2> QED
    BY <1>2, <2>2, <2>3, <2>4 DEF Create, OnChain
<1>3. CASE Fund(f)
  <2>1. /\ flow[f].step \in Assets /\ flow[f].wait = None
        /\ UNCHANGED <<chain, mcp, history>>
    BY <1>3 DEF Fund, Idle
  <2>2. ASSUME NEW kind \in Kinds, Prompt(f, kind, prompts, waiting) PROVE Inductive'
    <3>1. \A c \in Kinds : waiting[c] # None =>
              waiting[c] = waiting[c] /\ (c = kind \/ waiting[c] # f)
      BY <1>0, <2>1 DEF Kinds
    <3> QED
      BY <1>0, <2>1, <2>2, <3>1, Prompts DEF history
  <2>3. CASE UNCHANGED wallet
    <3>1. /\ waiting' \in [Kinds -> Flows \cup {None}]
          /\ \A c \in Kinds : waiting'[c] # None => waiting'[c] = waiting[c] /\ waiting[c] # f
          /\ registered \subseteq registered' /\ UNCHANGED <<mcp, answers>>
      BY <1>0, <2>1, <2>3 DEF wallet, chain, history, Kinds
    <3>2. ASSUME NEW step \in {"usdc", "respond"}, f = "renew", Goto(f, step)
          PROVE  Inductive'
      BY <2>1, <3>1, <3>2, MoveOn DEF Steps, Assets
    <3>3. CASE Fail(f)
      BY <3>1, <3>3, Fails
    <3>4. CASE f = "renew" /\ \E step \in {"usdc", "respond"} : Goto(f, step)
      BY <3>2, <3>4
    <3>5. Fail(f) \/ (f = "renew" /\ \E step \in {"usdc", "respond"} : Goto(f, step))
                \/ \E kind \in Kinds : Prompt(f, kind, prompts, waiting)
      BY <1>3 DEF Fund, PassesOver, Kinds
    <3> QED
      BY <2>2, <3>3, <3>4, <3>5
  <2>4. CASE \E kind \in Kinds : Prompt(f, kind, prompts, waiting)
    BY <2>2, <2>4
  <2> QED
    BY <1>3, <2>3, <2>4 DEF Fund, Kinds
<1>5. CASE Broadcast(f)
  <2>1. /\ flow[f].wait = None /\ waiting' = waiting
        /\ registered \subseteq registered' /\ UNCHANGED <<mcp, answers>>
    BY <1>5 DEF Broadcast, Execute, wallet
  <2>2. \A c \in Kinds : waiting'[c] # None => waiting'[c] = waiting[c] /\ waiting[c] # f
    BY <1>0, <2>1 DEF Kinds
  <2>3. CASE Fail(f)
    BY <1>0, <2>1, <2>2, <2>3, Fails
  <2>4. CASE Advance(f)
    BY <1>0, <2>1, <2>2, <2>4, Advances
  <2> QED
    BY <1>5, <2>3, <2>4 DEF Broadcast
<1>4. CASE Respond(f)
  <2>1. flow[f].step = "respond" /\ flow' = [flow EXCEPT ![f] = Closed]
    BY <1>4 DEF Respond, SendAuthResponse, SendRenewResponse, Authorization, RenewResponse
  <2>2. Closed \in FlowState /\ Closed.step = "closed" /\ Closed.wait = None
    BY DEF Closed, FlowState, Steps
  <2>3. UNCHANGED <<registered, waiting, offers, mail, renewal>>
    BY <1>4 DEF Respond, SendAuthResponse, SendRenewResponse, Authorization, RenewResponse, chain, wallet, mcp
  <2>4. Typed'
    BY <1>0, <2>1, <2>2, <2>3 DEF Inductive, Typed
  <2>5. Completers'
    BY <1>0, <2>1, <2>2, <2>3 DEF Inductive, Completers, Kinds, Assets
  <2>6. PastConfirmation'
    BY <1>0, <2>1, <2>2, <2>3 DEF Inductive, PastConfirmation, Flows, Assets
  <2>7. AuthorizedKeysAreRegistered'
    BY <1>4, <2>1, <2>3 DEF Inductive, PastConfirmation, AuthorizedKeysAreRegistered, Respond, SendAuthResponse, SendRenewResponse, Authorization, RenewResponse
  <2> QED
    BY <2>4, <2>5, <2>6, <2>7 DEF Inductive
<1> QED
  BY <1>1, <1>2, <1>3, <1>4, <1>5

\* Flows that open, close and take a renewal request.
LEMMA ScreenStep ==
    ASSUME Inductive,
           \/ \E o \in offers : OpenWizard(o) \/ AuthorizeExisting(o)
           \/ \E k \in Keys : StartRenewal(k)
           \/ \E m \in mail : RenewalArrives(m)
           \/ CloseWizard
    PROVE  Inductive'
<1> USE PhoneKeysAssumption
<1>0. /\ flow \in [Flows -> FlowState] /\ mail \subseteq Request
      /\ renewal \in Request \cup {None}
      /\ offers \subseteq [payment : Payments, key : Keys \cup {None}]
      /\ Closed \in FlowState /\ Closed.step = "closed" /\ Closed.wait = None
      /\ "wizard" \in Flows /\ "renew" \in Flows
  BY DEF Inductive, Typed, Closed, FlowState, Steps, Flows
<1>1. /\ UNCHANGED <<registered, waiting, offers>>
      /\ mail' \subseteq Request /\ renewal' \in Request \cup {None}
  BY <1>0 DEF OpenWizard, CloseWizard, AuthorizeExisting, SendAuthResponse, StartRenewal,
      RenewalArrives, mcp, wallet, chain
<1>2. \/ flow' = flow
      \/ \E f \in Flows, new \in FlowState :
             /\ flow' = [flow EXCEPT ![f] = new] /\ flow[f].wait = None
             /\ new.wait = None /\ new.step \in {"closed", "await", "pick", "create"}
             /\ new.step \notin {"closed", "await"} => new.key \in Keys
  <2>1. ASSUME NEW o \in offers, OpenWizard(o) PROVE <1>2
    <3> DEFINE new == [Closed EXCEPT !.step = "create", !.key = o.key, !.for = o.payment]
    <3>1. /\ new \in FlowState /\ new.wait = None /\ new.step = "create" /\ new.key \in Keys
          /\ flow["wizard"].wait = None
      BY <1>0, <2>1 DEF OpenWizard, Closed, FlowState, Steps
    <3> HIDE DEF new
    <3>2. flow' = [flow EXCEPT !["wizard"] = new]
      BY <2>1 DEF OpenWizard, new
    <3> QED
      BY <1>0, <3>1, <3>2
  <2>2. CASE CloseWizard
    BY <1>0, <2>2 DEF CloseWizard, Idle
  <2>3. ASSUME NEW k \in Keys, StartRenewal(k) PROVE <1>2
    <3> DEFINE new == [Closed EXCEPT !.step = IF renewal = None THEN "await" ELSE "pick",
                          !.key = IF renewal = None THEN None ELSE renewal.new, !.for = k]
    <3>1. /\ new \in FlowState /\ new.wait = None /\ new.step \in {"await", "pick"}
          /\ new.step = "pick" => new.key \in Keys
          /\ flow["renew"].wait = None
      BY <1>0, <2>3 DEF StartRenewal, Closed, FlowState, Steps, Request
    <3> HIDE DEF new
    <3>2. flow' = [flow EXCEPT !["renew"] = new]
      BY <2>3 DEF StartRenewal, new
    <3> QED
      BY <1>0, <3>1, <3>2
  <2>4. ASSUME NEW m \in mail, RenewalArrives(m), flow["renew"].step = "await" PROVE <1>2
    <3> DEFINE new == [flow["renew"] EXCEPT !.step = "pick", !.key = m.new]
    <3>1. /\ new \in FlowState /\ new.step = "pick" /\ new.key \in Keys
          /\ new.wait = flow["renew"].wait
      BY <1>0 DEF FlowState, Steps, Request
    <3>2. flow["renew"].wait = None
      BY <2>4 DEF Inductive, Completers, Flows, Assets
    <3> HIDE DEF new
    <3>3. flow' = [flow EXCEPT !["renew"] = new]
      BY <1>0, <2>4 DEF RenewalArrives, new
    <3> QED
      BY <1>0, <3>1, <3>2, <3>3
  <2>5. ASSUME NEW m \in mail, RenewalArrives(m), flow["renew"].step # "await" PROVE <1>2
    BY <2>5 DEF RenewalArrives
  <2>6. ASSUME NEW o \in offers, AuthorizeExisting(o) PROVE <1>2
    BY <2>6 DEF AuthorizeExisting
  <2> QED
    BY <2>1, <2>2, <2>3, <2>4, <2>5, <2>6
<1>3. Typed'
  BY <1>0, <1>1, <1>2 DEF Inductive, Typed
<1>4. Completers'
  BY <1>0, <1>1, <1>2 DEF Inductive, Completers, Typed, Kinds
<1>5. PastConfirmation'
  BY <1>0, <1>1, <1>2 DEF Inductive, PastConfirmation, Assets
<1>6. AuthorizedKeysAreRegistered'
  BY DEF OpenWizard, CloseWizard, AuthorizeExisting, SendAuthResponse, StartRenewal, RenewalArrives,
      Inductive, AuthorizedKeysAreRegistered, chain, history
<1> QED
  BY <1>3, <1>4, <1>5, <1>6 DEF Inductive

\* The waits of the flows that are not for the wallet.
LEMMA WaitStep ==
    ASSUME Inductive, RenewalTimesOut \/ PickWallet \/ Confirm
    PROVE  Inductive'
<1> USE PhoneKeysAssumption
<1>0. /\ waiting \in [Kinds -> Flows \cup {None}]
      /\ waiting' = waiting /\ UNCHANGED <<mcp, answers>> /\ registered' = registered
  BY DEF Inductive, Typed, RenewalTimesOut, PickWallet, Confirm, wallet, chain, history
<1>1. \A f \in Flows : flow[f].step \in {"await", "pick", "confirm"} =>
          \A c \in Kinds : waiting'[c] # None => waiting'[c] = waiting[c] /\ waiting[c] # f
  BY <1>0 DEF Inductive, Completers, Assets, Kinds
<1>2. CASE RenewalTimesOut
  <2>1. "renew" \in Flows /\ flow["renew"].step = "await" /\ Fail("renew")
    BY <1>2 DEF RenewalTimesOut, Flows
  <2> QED
    BY <1>0, <1>1, <2>1, Fails
<1>3. CASE Confirm
  <2>1. "wizard" \in Flows /\ flow["wizard"].step = "confirm"
    BY <1>3 DEF Confirm, Flows
  <2>2. CASE Fail("wizard")
    BY <1>0, <1>1, <2>1, <2>2, Fails
  <2>3. CASE flow["wizard"].key \in registered /\ Goto("wizard", "sol")
    BY <1>0, <1>1, <2>1, <2>3, MoveOn DEF Steps, Assets
  <2> QED
    BY <1>3, <2>2, <2>3 DEF Confirm, OnChain
<1>4. CASE PickWallet
  <2>1. "renew" \in Flows /\ flow["renew"].step = "pick"
    BY <1>4 DEF PickWallet, Flows
  <2>2. CASE Fail("renew")
    BY <1>0, <1>1, <2>1, <2>2, Fails
  <2>3. CASE Goto("renew", "create")
    BY <1>0, <1>1, <2>1, <2>3, MoveOn DEF Steps, Assets
  <2> QED
    BY <1>4, <2>2, <2>3 DEF PickWallet
<1> QED
  BY <1>2, <1>3, <1>4

\* Every step keeps the invariant; what the wallet shows is a transaction.
PromptsTyped == \A pr \in prompts : pr.kind \in Kinds /\ pr.tx \in Tx

LEMMA PromptTyped ==
    ASSUME Inductive, PromptsTyped, NEW f \in Flows, flow[f].step \in {"create"} \cup Assets,
           NEW kind \in Kinds, NEW prompted \in SUBSET prompts, NEW open,
           Prompt(f, kind, prompted, open)
    PROVE  PromptsTyped'
<1>1. TxOf(flow[f]) \in Tx
  BY DEF Inductive, Typed, TxOf, RegisterTx, SolTx, UsdcTx, Tx, Assets
<1>2. \A pr \in prompts' : pr \in prompts \/ (pr.kind = kind /\ pr.tx = TxOf(flow[f]))
  BY DEF Prompt
<1> QED
  BY <1>1, <1>2 DEF PromptsTyped

LEMMA PromptsStep == Inductive /\ PromptsTyped /\ [Next]_vars => PromptsTyped'
<1> SUFFICES ASSUME Inductive, PromptsTyped, [Next]_vars PROVE PromptsTyped'
  OBVIOUS
<1> "signAndSend" \in Kinds /\ "signOnly" \in Kinds
  BY DEF Kinds
<1>0. \A f \in Flows : flow[f].wait # None => flow[f].step \in {"create"} \cup Assets
  BY DEF Inductive, Completers
<1>1. CASE prompts' \subseteq prompts
  BY <1>1 DEF PromptsTyped
<1>2. ASSUME NEW f \in Flows, flow[f].wait # None, NEW prompted \in SUBSET prompts, NEW open,
             NoSignature(f, prompted, open)
      PROVE  PromptsTyped'
  BY <1>0, <1>1, <1>2, PromptTyped DEF NoSignature
<1>3. ASSUME NEW pr \in prompts, SignAndSend(pr) \/ SignOnly(pr) PROVE PromptsTyped'
  BY <1>1, <1>3 DEF SignAndSend, SignOnly
<1>4. ASSUME NEW pr \in prompts, Reject(pr) PROVE PromptsTyped'
  <2>1. /\ waiting[pr.kind] = None \/ waiting[pr.kind] \in Flows
        /\ waiting[pr.kind] # None => flow[waiting[pr.kind]].wait # None
    BY PhoneKeysAssumption DEF PromptsTyped, Inductive, Typed, Completers, Kinds
  <2> QED
    BY <1>1, <1>2, <1>4, <2>1 DEF Reject, Owner
<1>5. ASSUME NEW f \in Flows, TimeOut(f) PROVE PromptsTyped'
  BY <1>2, <1>5 DEF TimeOut
<1>6. ASSUME NEW f \in Flows, Create(f) PROVE PromptsTyped'
  BY <1>1, <1>6, PromptTyped DEF Create, wallet
<1>7. ASSUME NEW f \in Flows, Fund(f) PROVE PromptsTyped'
  BY <1>1, <1>7, PromptTyped DEF Fund, wallet
<1>8. ASSUME prompts' = prompts PROVE PromptsTyped'
  BY <1>1, <1>8
<1>9. CASE \/ \E p \in Payments : AskPayment(p)
           \/ \E k \in Keys : OfferRenewal(k) \/ StartRenewal(k) \/ DeleteKey(k)
           \/ \E tx \in flight : Settle(tx)
           \/ \E o \in offers : OpenWizard(o) \/ AuthorizeExisting(o)
           \/ \E m \in mail : RenewalArrives(m)
           \/ CloseWizard \/ RenewalTimesOut \/ PickWallet \/ Confirm
           \/ \E f \in Flows : Broadcast(f) \/ Respond(f)
           \/ UNCHANGED vars
  BY <1>8, <1>9 DEF AskPayment, AuthRequest, OfferRenewal, RenewRequest, StartRenewal, DeleteKey, Settle, OpenWizard,
      AuthorizeExisting, SendAuthResponse, RenewalArrives, CloseWizard, RenewalTimesOut, PickWallet, Confirm,
      Broadcast, Respond, SendRenewResponse, Authorization, RenewResponse, wallet, vars
<1> QED
  BY <1>3, <1>4, <1>5, <1>6, <1>7, <1>9 DEF Next

LEMMA StepHolds == Inductive /\ PromptsTyped /\ [Next]_vars => Inductive'
<1> SUFFICES ASSUME Inductive, PromptsTyped, [Next]_vars PROVE Inductive'
  OBVIOUS
<1>1. ASSUME NEW p \in Payments, AskPayment(p) PROVE Inductive'
  <2>1. Typed'
    BY <1>1 DEF AskPayment, AuthRequest, Inductive, Typed, wallet
  <2>2. Completers' /\ PastConfirmation' /\ AuthorizedKeysAreRegistered'
    BY <1>1 DEF AskPayment, AuthRequest, Inductive, Completers, PastConfirmation,
        AuthorizedKeysAreRegistered, wallet, chain, history
  <2> QED
    BY <2>1, <2>2 DEF Inductive
<1>2. ASSUME NEW k \in Keys, OfferRenewal(k) PROVE Inductive'
  <2>1. Typed'
    BY <1>2 DEF OfferRenewal, RenewRequest, Inductive, Typed, wallet, Request
  <2>2. Completers' /\ PastConfirmation' /\ AuthorizedKeysAreRegistered'
    BY <1>2 DEF OfferRenewal, RenewRequest, Inductive, Completers, PastConfirmation,
        AuthorizedKeysAreRegistered, wallet, chain, history
  <2> QED
    BY <2>1, <2>2 DEF Inductive
<1>3. ASSUME NEW k \in Keys, DeleteKey(k) PROVE Inductive'
  BY <1>3, Unmoved DEF DeleteKey, chain, wallet, mcp, history
<1>4. ASSUME NEW tx \in flight, Settle(tx) PROVE Inductive'
  BY <1>4, Unmoved DEF Settle, Execute, wallet, mcp, history
<1>5. ASSUME NEW pr \in prompts, SignAndSend(pr) \/ SignOnly(pr) \/ Reject(pr) PROVE Inductive'
  BY <1>5, WalletStep DEF PromptsTyped
<1>6. ASSUME NEW f \in Flows, TimeOut(f) \/ Create(f) \/ Fund(f) \/ Broadcast(f) \/ Respond(f)
      PROVE  Inductive'
  BY <1>6, FlowStep
<1>7. CASE \/ \E o \in offers : OpenWizard(o) \/ AuthorizeExisting(o)
           \/ \E k \in Keys : StartRenewal(k)
           \/ \E m \in mail : RenewalArrives(m)
           \/ CloseWizard
  BY <1>7, ScreenStep
<1>8. CASE RenewalTimesOut \/ PickWallet \/ Confirm
  BY <1>8, WaitStep
<1>9. CASE UNCHANGED vars
  BY <1>9, Unmoved DEF vars, wallet, mcp, chain, history
<1> QED
  BY <1>1, <1>2, <1>3, <1>4, <1>5, <1>6, <1>7, <1>8, <1>9 DEF Next

\* Whatever the wallet, the network and the user do, an authorization names a
\* key only if its session account is on chain.
THEOREM AuthorizedRegistered == Spec => []AuthorizedKeysAreRegistered
<1>1. Init => PromptsTyped
  BY DEF Init, PromptsTyped
<1>2. Inductive => AuthorizedKeysAreRegistered
  BY DEF Inductive
<1> QED
  BY <1>1, <1>2, InitHolds, StepHolds, PromptsStep, PTL DEF Spec

-----------------------------------------------------------------------------
(* The deposits.                                                             *)

\* A request the phone has sent.
DepositRequest == [id : 1 .. MaxDeposits, amount : Deposits, token : DepositTokens]

\* The requests whose money may still move: queued, worked on, or given up.
Working == task.phase \in {"init", "deposit"}
Busy == task.phase # "idle"

DepositTypes ==
    /\ asked \in 0 .. MaxDeposits
    /\ commands \in Seq(DepositRequest)
    /\ task.phase \in {"idle", "init", "deposit", "total"}
    /\ Busy => task \in [phase : {"init", "deposit", "total"}, request : DepositRequest]
    /\ late \subseteq DepositRequest
    /\ deposits \in [1 .. MaxDeposits -> Seq(Deposits)]
    /\ \A a \in replies \cup {s.answer : s \in results} : a.success => a.id \in 1 .. MaxDeposits

\* Each of them has a number of its own that the phone has counted.
Numbered ==
    /\ \A j \in DOMAIN commands : commands[j].id =< asked
    /\ Busy => task.request.id =< asked
    /\ \A q \in late : q.id =< asked
    /\ \A j, k \in DOMAIN commands : commands[j].id = commands[k].id => j = k
    /\ \A j \in DOMAIN commands : Busy => commands[j].id # task.request.id
    /\ \A j \in DOMAIN commands : \A q \in late : commands[j].id # q.id
    /\ \A q \in late : Busy => q.id # task.request.id
    /\ \A q, r \in late : q.id = r.id => q = r

\* No money has moved for them.
Undeposited ==
    /\ \A n \in 1 .. MaxDeposits : n > asked => deposits[n] = <<>>
    /\ \A j \in DOMAIN commands : deposits[commands[j].id] = <<>>
    /\ Working => deposits[task.request.id] = <<>>
    /\ \A q \in late : deposits[q.id] = <<>>
    /\ task.phase = "total" => deposits[task.request.id] = <<task.request.amount>>

DepositInv == DepositTypes /\ Numbered /\ Undeposited /\ SuccessIsDeposited

LEMMA SequenceEnds ==
    ASSUME NEW S, NEW s \in Seq(S)
    PROVE  /\ Len(s) \in Nat /\ DOMAIN s = 1 .. Len(s) /\ \A j \in DOMAIN s : s[j] \in S
           /\ \A e \in S : /\ Append(s, e) \in Seq(S) /\ DOMAIN Append(s, e) = 1 .. Len(s) + 1
                           /\ Append(s, e)[Len(s) + 1] = e
                           /\ \A j \in 1 .. Len(s) : Append(s, e)[j] = s[j]
           /\ s # <<>> => /\ 1 \in DOMAIN s /\ Head(s) = s[1] /\ Head(s) \in S
                          /\ Tail(s) \in Seq(S) /\ DOMAIN Tail(s) = 1 .. Len(s) - 1
                          /\ \A j \in 1 .. Len(s) - 1 : Tail(s)[j] = s[j + 1] /\ j + 1 \in DOMAIN s
OBVIOUS

LEMMA DepositInit == Vault!Init => DepositInv
<1> SUFFICES ASSUME Vault!Init PROVE DepositInv
  OBVIOUS
<1> USE DEF Vault!Init, Vault!Idle, Vault!NoDeposits
<1>0. MaxDeposits \in Nat
  BY PhoneAssumption DEF Vault!VaultDepositAssumption
<1>1. deposits \in [1 .. MaxDeposits -> Seq(Deposits)] /\ \A n \in 1 .. MaxDeposits : deposits[n] = <<>>
  <2>1. <<>> \in Seq(Deposits)
    OBVIOUS
  <2> QED BY <2>1
<1>2. replies \cup {s.answer : s \in results} = {}
  OBVIOUS
<1>3. commands \in Seq(DepositRequest) /\ DOMAIN commands = {}
  OBVIOUS
<1>4. DepositTypes
  BY <1>0, <1>1, <1>2, <1>3 DEF DepositTypes, Busy
<1>5. Numbered
  BY <1>3 DEF Numbered, Busy
<1>6. Undeposited
  BY <1>1, <1>3 DEF Undeposited, Working
<1>7. SuccessIsDeposited
  <2>1. \A n \in 1 .. MaxDeposits : Len(deposits[n]) =< 1
    BY <1>1
  <2> QED BY <1>2, <2>1 DEF SuccessIsDeposited, Vault!SuccessIsDeposited
<1> QED
  BY <1>4, <1>5, <1>6, <1>7 DEF DepositInv

LEMMA DepositQuiet ==
    ASSUME DepositInv, UNCHANGED <<asked, commands, task, late, deposits>>,
           \A a \in replies' \cup {s.answer : s \in results'} :
              a \in replies \cup {s.answer : s \in results} \/ ~a.success
    PROVE  DepositInv'
<1>1. DepositTypes'
  <2>1. \A a \in replies' \cup {s.answer : s \in results'} : a.success => a.id \in 1 .. MaxDeposits
    BY DEF DepositInv, DepositTypes
  <2> QED BY <2>1 DEF DepositInv, DepositTypes, Busy
<1>2. Numbered' /\ Undeposited'
  BY DEF DepositInv, Numbered, Undeposited, Busy, Working
<1>3. SuccessIsDeposited'
  <2>1. \A a \in replies' \cup {s.answer : s \in results'} : a.success => deposits[a.id] = <<a.amount>>
    BY DEF DepositInv, SuccessIsDeposited, Vault!SuccessIsDeposited
  <2>2. \A n \in 1 .. MaxDeposits : Len(deposits[n]) =< 1
    BY DEF DepositInv, SuccessIsDeposited, Vault!SuccessIsDeposited
  <2> QED BY <2>1, <2>2 DEF SuccessIsDeposited, Vault!SuccessIsDeposited
<1> QED
  BY <1>1, <1>2, <1>3 DEF DepositInv

\* What holds of the answers and amounts while no money moves.
LEMMA SuccessKept ==
    ASSUME DepositInv, deposits' = deposits,
           \A a \in replies' \cup {s.answer : s \in results'} :
              \/ a \in replies \cup {s.answer : s \in results} \/ ~a.success
              \/ a.id \in 1 .. MaxDeposits /\ deposits[a.id] = <<a.amount>>
    PROVE  /\ SuccessIsDeposited'
           /\ \A a \in replies' \cup {s.answer : s \in results'} :
                 a.success => a.id \in 1 .. MaxDeposits
<1>1. \A a \in replies' \cup {s.answer : s \in results'} : a.success => deposits[a.id] = <<a.amount>>
  BY DEF DepositInv, SuccessIsDeposited, Vault!SuccessIsDeposited
<1>2. \A n \in 1 .. MaxDeposits : Len(deposits[n]) =< 1
  BY DEF DepositInv, SuccessIsDeposited, Vault!SuccessIsDeposited
<1>3. SuccessIsDeposited'
  BY <1>1, <1>2 DEF SuccessIsDeposited, Vault!SuccessIsDeposited
<1>4. \A a \in replies' \cup {s.answer : s \in results'} : a.success => a.id \in 1 .. MaxDeposits
  BY DEF DepositInv, DepositTypes
<1> QED
  BY <1>3, <1>4

\* What a deposit that lands does to the amounts.
LEMMA LandIs ==
    ASSUME DepositInv, NEW q \in DepositRequest, deposits[q.id] = <<>>, Vault!Land(q)
    PROVE  /\ deposits' \in [1 .. MaxDeposits -> Seq(Deposits)]
           /\ q.id \in 1 .. MaxDeposits /\ deposits'[q.id] = <<q.amount>>
           /\ \A n \in 1 .. MaxDeposits : n # q.id => deposits'[n] = deposits[n]
           /\ \A n \in 1 .. MaxDeposits : deposits[n] # <<>> => deposits'[n] = deposits[n]
           /\ \A n \in 1 .. MaxDeposits : Len(deposits'[n]) =< 1
<1>1. /\ deposits' = [deposits EXCEPT ![q.id] = Append(deposits[q.id], q.amount)]
      /\ deposits \in [1 .. MaxDeposits -> Seq(Deposits)]
      /\ \A n \in 1 .. MaxDeposits : Len(deposits[n]) =< 1
  BY DEF Vault!Land, DepositInv, DepositTypes, SuccessIsDeposited, Vault!SuccessIsDeposited
<1>2. q.id \in 1 .. MaxDeposits /\ q.amount \in Deposits
  BY DEF DepositRequest
<1>3. Append(deposits[q.id], q.amount) = <<q.amount>>
  BY <1>2
<1>4. deposits'[q.id] = <<q.amount>> /\ \A n \in 1 .. MaxDeposits : n # q.id => deposits'[n] = deposits[n]
  BY <1>1, <1>2, <1>3
<1>5. <<q.amount>> \in Seq(Deposits) /\ Len(<<q.amount>>) =< 1
  BY <1>2
<1>6. deposits' \in [1 .. MaxDeposits -> Seq(Deposits)]
  BY <1>1, <1>2, <1>3, <1>5
<1>7. \A n \in 1 .. MaxDeposits : Len(deposits'[n]) =< 1
  BY <1>1, <1>4, <1>5
<1> QED
  BY <1>2, <1>4, <1>6, <1>7

LEMMA LandKeepsAnswers ==
    ASSUME DepositInv, NEW q \in DepositRequest, deposits[q.id] = <<>>, Vault!Land(q),
           \A a \in replies' \cup {s.answer : s \in results'} :
              a \in replies \cup {s.answer : s \in results} \/ ~a.success
    PROVE  /\ SuccessIsDeposited'
           /\ \A a \in replies' \cup {s.answer : s \in results'} :
                 a.success => a.id \in 1 .. MaxDeposits
<1>1. ASSUME NEW a \in replies' \cup {s.answer : s \in results'}, a.success
      PROVE  a.id \in 1 .. MaxDeposits /\ deposits'[a.id] = <<a.amount>>
  <2>1. a.id \in 1 .. MaxDeposits /\ deposits[a.id] = <<a.amount>>
    BY <1>1 DEF DepositInv, DepositTypes, SuccessIsDeposited, Vault!SuccessIsDeposited
  <2>2. deposits[a.id] # <<>>
    BY <2>1
  <2> QED BY <2>1, <2>2, LandIs
<1>2. \A n \in 1 .. MaxDeposits : Len(deposits'[n]) =< 1
  BY LandIs
<1> QED
  BY <1>1, <1>2 DEF SuccessIsDeposited, Vault!SuccessIsDeposited

\* A request is confirmed on the sheet and not sent: its number is used up.
LEMMA FailedRequestStep ==
    ASSUME DepositInv, Vault!SendFails
    PROVE  DepositInv'
<1>1. /\ asked < MaxDeposits /\ asked' = asked + 1
      /\ UNCHANGED <<commands, task, late, deposits, replies, results>>
  BY DEF Vault!SendFails, Vault!Confirm
<1>2. asked \in Nat /\ MaxDeposits \in Nat /\ asked' \in 0 .. MaxDeposits
  <2>1. MaxDeposits \in Nat /\ asked \in 0 .. MaxDeposits
    BY PhoneAssumption DEF Vault!VaultDepositAssumption, DepositInv, DepositTypes
  <2> QED BY <1>1, <2>1
<1>3. SuccessIsDeposited' /\ \A x \in replies' \cup {s.answer : s \in results'} :
                                x.success => x.id \in 1 .. MaxDeposits
  BY <1>1, SuccessKept
<1>4. DepositTypes'
  BY <1>1, <1>2, <1>3 DEF DepositInv, DepositTypes, Busy
<1>5. \A n \in Nat : n =< asked => n =< asked'
  BY <1>1, <1>2
<1>6. Numbered'
  <2>1. /\ \A j \in DOMAIN commands : commands[j].id \in Nat
        /\ \A r \in late : r.id \in Nat
        /\ Busy => task.request.id \in Nat
    <3>1. \A j \in DOMAIN commands : commands[j] \in DepositRequest
      BY SequenceEnds DEF DepositInv, DepositTypes
    <3>2. Busy => task.request \in DepositRequest
      BY DEF DepositInv, DepositTypes
    <3> QED BY <3>1, <3>2 DEF DepositRequest, DepositInv, DepositTypes
  <2> QED BY <1>1, <1>5, <2>1 DEF DepositInv, Numbered, Busy
<1>7. Undeposited'
  <2>1. \A n \in 1 .. MaxDeposits : n > asked' => n > asked
    BY <1>1, <1>2
  <2> QED BY <1>1, <2>1 DEF DepositInv, Undeposited, Working
<1> QED
  BY <1>3, <1>4, <1>6, <1>7 DEF DepositInv

\* A request is confirmed on the sheet and sent: it is queued or lost.
LEMMA RequestStep ==
    ASSUME DepositInv, NEW a \in Deposits, NEW t \in DepositTokens,
           Vault!SendMbDepositRequest(a, t)
    PROVE  DepositInv'
<1> DEFINE q == Vault!MbDepositRequest(a, t)
<1>1. /\ asked < MaxDeposits /\ asked' = asked + 1
      /\ UNCHANGED <<task, late, deposits, replies, results>>
      /\ commands' = commands \/ commands' = Append(commands, q)
  BY DEF Vault!SendMbDepositRequest, Vault!Confirm
<1>2. /\ asked \in Nat /\ MaxDeposits \in Nat /\ asked + 1 \in 1 .. MaxDeposits
      /\ asked + 1 \in 0 .. MaxDeposits
  <2>1. MaxDeposits \in Nat /\ asked \in 0 .. MaxDeposits
    BY PhoneAssumption DEF Vault!VaultDepositAssumption, DepositInv, DepositTypes
  <2> QED BY <1>1, <2>1
<1>3. q \in DepositRequest /\ q.id = asked + 1
  BY <1>2 DEF Vault!MbDepositRequest, DepositRequest
<1> HIDE DEF q
<1>4. commands \in Seq(DepositRequest) /\ \A r \in DepositRequest : r.id \in 1 .. MaxDeposits
  BY DEF DepositInv, DepositTypes, DepositRequest
<1>5. /\ commands' \in Seq(DepositRequest)
      /\ \A j \in DOMAIN commands' : commands'[j] = q \/ (j \in DOMAIN commands /\ commands'[j] = commands[j])
      /\ \A j, k \in DOMAIN commands' : commands'[j] = q /\ commands'[k] = q
              => j = k \/ \E l \in DOMAIN commands : commands[l] = q
  <2>1. CASE commands' = commands
    BY <1>4, <2>1
  <2>2. CASE commands' = Append(commands, q)
    <3>1. /\ commands' \in Seq(DepositRequest) /\ DOMAIN commands' = 1 .. Len(commands) + 1
          /\ commands'[Len(commands) + 1] = q /\ \A j \in 1 .. Len(commands) : commands'[j] = commands[j]
          /\ DOMAIN commands = 1 .. Len(commands) /\ Len(commands) \in Nat
      BY <1>3, <1>4, <2>2, SequenceEnds
    <3>2. \A j \in DOMAIN commands' : j \in DOMAIN commands \/ j = Len(commands) + 1
      BY <3>1
    <3> QED BY <3>1, <3>2
  <2> QED BY <1>1, <2>1, <2>2
<1>6. /\ \A j \in DOMAIN commands : commands[j].id \in Nat /\ commands[j].id =< asked
      /\ \A r \in late : r.id \in Nat /\ r.id =< asked
      /\ Busy => task.request.id \in Nat /\ task.request.id =< asked
  <2>1. \A j \in DOMAIN commands : commands[j] \in DepositRequest
    BY <1>4, SequenceEnds
  <2>2. Busy => task.request \in DepositRequest
    BY DEF DepositInv, DepositTypes
  <2> QED BY <1>4, <2>1, <2>2 DEF DepositInv, DepositTypes, Numbered
<1>7. \A n \in Nat : n =< asked => n =< asked' /\ n # q.id
  BY <1>1, <1>2, <1>3
<1>8. Busy' <=> Busy
  BY <1>1 DEF Busy
<1>9. SuccessIsDeposited' /\ \A x \in replies' \cup {s.answer : s \in results'} :
                                x.success => x.id \in 1 .. MaxDeposits
  BY <1>1, SuccessKept
<1>10. DepositTypes'
  BY <1>1, <1>2, <1>5, <1>8, <1>9 DEF DepositInv, DepositTypes
<1>11. Numbered'
  <2>1. q.id =< asked'
    BY <1>1, <1>2, <1>3
  <2>2. /\ \A j \in DOMAIN commands' : commands'[j].id =< asked'
        /\ Busy => task'.request.id =< asked'
        /\ \A r \in late' : r.id =< asked'
    BY <1>1, <1>5, <1>6, <1>7, <2>1
  <2>3. \A j, k \in DOMAIN commands' : commands'[j].id = commands'[k].id => j = k
    <3>1. \A l \in DOMAIN commands : commands[l] # q
      BY <1>6, <1>7
    <3> QED BY <1>5, <1>6, <1>7, <3>1 DEF DepositInv, Numbered
  <2>4. \A j \in DOMAIN commands' : Busy => commands'[j].id # task'.request.id
    BY <1>1, <1>5, <1>6, <1>7 DEF DepositInv, Numbered
  <2>5. \A j \in DOMAIN commands' : \A r \in late' : commands'[j].id # r.id
    BY <1>1, <1>5, <1>6, <1>7 DEF DepositInv, Numbered
  <2>6. /\ Busy' => task'.request.id =< asked'
        /\ \A j \in DOMAIN commands' : Busy' => commands'[j].id # task'.request.id
    BY <1>8, <2>2, <2>4
  <2>7. /\ \A r \in late' : Busy' => r.id # task'.request.id
        /\ \A r, u \in late' : r.id = u.id => r = u
    BY <1>1, <1>8 DEF DepositInv, Numbered
  <2> QED BY <2>2, <2>3, <2>5, <2>6, <2>7 DEF Numbered
<1>12. Undeposited'
  <2>1. \A n \in 1 .. MaxDeposits : n > asked' => n > asked
    BY <1>1, <1>2
  <2>2. deposits[q.id] = <<>>
    BY <1>2, <1>3 DEF DepositInv, Undeposited
  <2> QED BY <1>1, <1>5, <2>1, <2>2 DEF DepositInv, Undeposited, Working
<1> QED
  BY <1>9, <1>10, <1>11, <1>12 DEF DepositInv

\* The task takes the next request.
LEMMA TakeStep ==
    ASSUME DepositInv, Vault!TakeRequest
    PROVE  DepositInv'
<1>1. /\ task = Vault!Idle /\ commands # <<>> /\ commands' = Tail(commands)
      /\ task'.phase \in {"init", "deposit"} /\ task'.request = Head(commands)
      /\ task' = [phase |-> task'.phase, request |-> Head(commands)]
      /\ UNCHANGED <<asked, late, deposits, replies, results>>
  BY DEF Vault!TakeRequest, Vault!phone
<1>2. commands \in Seq(DepositRequest)
  BY DEF DepositInv, DepositTypes
<1>3. /\ 1 \in DOMAIN commands /\ Head(commands) = commands[1] /\ Head(commands) \in DepositRequest
      /\ Tail(commands) \in Seq(DepositRequest) /\ DOMAIN Tail(commands) = 1 .. Len(commands) - 1
      /\ \A j \in 1 .. Len(commands) - 1 : Tail(commands)[j] = commands[j + 1] /\ j + 1 \in DOMAIN commands
      /\ Len(commands) \in Nat
  BY <1>1, <1>2, SequenceEnds
<1>4. ~Busy /\ Busy' /\ Working' /\ task'.phase # "total"
  BY <1>1 DEF Busy, Working, Vault!Idle
<1>5. /\ commands' \in Seq(DepositRequest) /\ task'.request = commands[1]
      /\ \A j \in DOMAIN commands' : j + 1 \in DOMAIN commands /\ commands'[j] = commands[j + 1] /\ j \in Int /\ j + 1 # 1
  BY <1>1, <1>3
<1>6. SuccessIsDeposited' /\ \A x \in replies' \cup {s.answer : s \in results'} :
                                x.success => x.id \in 1 .. MaxDeposits
  BY <1>1, SuccessKept
<1>7. DepositTypes'
  <2>1. task' \in [phase : {"init", "deposit", "total"}, request : DepositRequest]
    BY <1>1, <1>3
  <2>2. task'.phase \in {"idle", "init", "deposit", "total"}
    BY <1>1
  <2> QED BY <1>1, <1>5, <1>6, <2>1, <2>2 DEF DepositInv, DepositTypes
<1>8. Numbered'
  <2>1. \A j, k \in DOMAIN commands' : commands'[j].id = commands'[k].id => j = k
    <3> SUFFICES ASSUME NEW j \in DOMAIN commands', NEW k \in DOMAIN commands',
                        commands'[j].id = commands'[k].id
                 PROVE  j = k
      OBVIOUS
    <3>1. j + 1 = k + 1
      BY <1>5 DEF DepositInv, Numbered
    <3> QED BY <1>5, <3>1
  <2>2. \A j \in DOMAIN commands' : commands'[j].id # task'.request.id
    BY <1>3, <1>5 DEF DepositInv, Numbered
  <2>3. \A q \in late' : q.id # task'.request.id
    BY <1>1, <1>3, <1>5 DEF DepositInv, Numbered
  <2>4. /\ \A j \in DOMAIN commands' : commands'[j].id =< asked'
        /\ task'.request.id =< asked' /\ \A q \in late' : q.id =< asked'
    BY <1>1, <1>3, <1>5 DEF DepositInv, Numbered
  <2>5. \A j \in DOMAIN commands' : \A q \in late' : commands'[j].id # q.id
    BY <1>1, <1>5 DEF DepositInv, Numbered
  <2> QED BY <1>1, <2>1, <2>2, <2>3, <2>4, <2>5 DEF DepositInv, Numbered
<1>9. Undeposited'
  BY <1>1, <1>3, <1>4, <1>5 DEF DepositInv, Undeposited
<1> QED
  BY <1>6, <1>7, <1>8, <1>9 DEF DepositInv

\* The task goes on to the deposit, or gives the request up; the channel may
\* be emptied by a restart.
LEMMA TaskMoves ==
    ASSUME DepositInv, UNCHANGED <<asked, late, deposits>>, commands' \in {commands, <<>>},
           \/ Working /\ task' = [task EXCEPT !.phase = "deposit"]
           \/ task' = Vault!Idle,
           \A a \in replies' \cup {s.answer : s \in results'} :
              \/ a \in replies \cup {s.answer : s \in results} \/ ~a.success
              \/ a.id \in 1 .. MaxDeposits /\ deposits[a.id] = <<a.amount>>
    PROVE  DepositInv'
<1>1. SuccessIsDeposited' /\ \A x \in replies' \cup {s.answer : s \in results'} :
                                x.success => x.id \in 1 .. MaxDeposits
  BY SuccessKept
<1>2. /\ Busy' => /\ Busy /\ Working /\ Working' /\ task'.request = task.request /\ task'.phase = "deposit"
                  /\ task' \in [phase : {"init", "deposit", "total"}, request : DepositRequest]
      /\ ~Busy' => task'.phase = "idle" /\ ~Working'
  <2>1. CASE Working /\ task' = [task EXCEPT !.phase = "deposit"]
    <3>1. Busy /\ task \in [phase : {"init", "deposit", "total"}, request : DepositRequest]
      BY <2>1 DEF Working, Busy, DepositInv, DepositTypes
    <3> QED BY <2>1, <3>1 DEF Working, Busy
  <2>2. CASE task' = Vault!Idle
    BY <2>2 DEF Vault!Idle, Busy, Working
  <2> QED BY <2>1, <2>2
<1>3. commands' \in Seq(DepositRequest) /\ \A j \in DOMAIN commands' : j \in DOMAIN commands /\ commands'[j] = commands[j]
  <2>1. commands \in Seq(DepositRequest)
    BY DEF DepositInv, DepositTypes
  <2>2. CASE commands' = commands
    BY <2>1, <2>2
  <2>3. CASE commands' = <<>>
    <3>1. <<>> \in Seq(DepositRequest) /\ \A j \in DOMAIN <<>> : FALSE
      OBVIOUS
    <3> QED BY <2>3, <3>1
  <2> QED BY <2>2, <2>3
<1>4. DepositTypes'
  <2>1. task'.phase \in {"idle", "init", "deposit", "total"}
    BY <1>2
  <2> QED BY <1>1, <1>2, <1>3, <2>1 DEF DepositInv, DepositTypes
<1>5. Numbered'
  BY <1>2, <1>3 DEF DepositInv, Numbered
<1>6. Undeposited'
  BY <1>2, <1>3 DEF DepositInv, Undeposited
<1> QED
  BY <1>1, <1>4, <1>5, <1>6 DEF DepositInv

\* Where no money moves when a deposit lands.
LEMMA Untouched ==
    ASSUME DepositInv, NEW q \in DepositRequest, deposits[q.id] = <<>>, Vault!Land(q),
           UNCHANGED <<asked, commands>>, late' \subseteq late, q.id =< asked,
           \A j \in DOMAIN commands : commands[j].id # q.id,
           \A r \in late' : r.id # q.id
    PROVE  /\ \A n \in 1 .. MaxDeposits : n > asked' => deposits'[n] = <<>>
           /\ \A j \in DOMAIN commands' : deposits'[commands'[j].id] = <<>>
           /\ \A r \in late' : deposits'[r.id] = <<>>
<1>1. \A n \in 1 .. MaxDeposits : n # q.id => deposits'[n] = deposits[n]
  BY LandIs
<1>2. asked \in Nat /\ MaxDeposits \in Nat /\ q.id \in 1 .. MaxDeposits
  BY PhoneAssumption DEF Vault!VaultDepositAssumption, DepositInv, DepositTypes, DepositRequest
<1>3. \A n \in 1 .. MaxDeposits : n > asked => n # q.id /\ deposits[n] = <<>>
  BY <1>2 DEF DepositInv, Undeposited
<1>4. \A j \in DOMAIN commands : commands[j].id \in 1 .. MaxDeposits /\ deposits[commands[j].id] = <<>>
  <2>1. commands \in Seq(DepositRequest)
    BY DEF DepositInv, DepositTypes
  <2>2. \A j \in DOMAIN commands : commands[j] \in DepositRequest
    BY <2>1
  <2> QED BY <2>2 DEF DepositRequest, DepositInv, Undeposited
<1>5. \A r \in late : r.id \in 1 .. MaxDeposits /\ deposits[r.id] = <<>>
  <2>1. \A r \in late : r \in DepositRequest
    BY DEF DepositInv, DepositTypes
  <2> QED BY <2>1 DEF DepositRequest, DepositInv, Undeposited
<1> QED
  BY <1>1, <1>3, <1>4, <1>5

\* The deposit of the task's request lands, and is confirmed or not.
LEMMA TaskLands ==
    ASSUME DepositInv, Working, Vault!Land(task.request), UNCHANGED <<asked, commands, late>>,
           task' = [task EXCEPT !.phase = "total"] \/ task' = Vault!Idle,
           \A a \in replies' \cup {s.answer : s \in results'} :
              a \in replies \cup {s.answer : s \in results} \/ ~a.success
    PROVE  DepositInv'
<1> DEFINE q == task.request
<1>1. Busy /\ task \in [phase : {"init", "deposit", "total"}, request : DepositRequest]
  BY DEF Working, Busy, DepositInv, DepositTypes
<1>2. q \in DepositRequest /\ deposits[q.id] = <<>>
  BY <1>1 DEF DepositInv, Undeposited
<1>3. Vault!Land(q)
  OBVIOUS
<1>4. /\ Busy' => /\ task'.request = q /\ task'.phase = "total"
                  /\ task' \in [phase : {"init", "deposit", "total"}, request : DepositRequest]
      /\ ~Busy' => task'.phase = "idle"
      /\ ~Working'
  <2>1. CASE task' = [task EXCEPT !.phase = "total"]
    BY <1>1, <2>1 DEF Busy, Working
  <2>2. CASE task' = Vault!Idle
    BY <2>2 DEF Vault!Idle, Busy, Working
  <2> QED BY <2>1, <2>2
<1>5. /\ \A j \in DOMAIN commands : commands[j].id # q.id
      /\ \A r \in late : r.id # q.id
      /\ q.id =< asked
  BY <1>1 DEF DepositInv, Numbered
<1> HIDE DEF q
<1>6. /\ deposits' \in [1 .. MaxDeposits -> Seq(Deposits)]
      /\ q.id \in 1 .. MaxDeposits /\ deposits'[q.id] = <<q.amount>>
      /\ \A n \in 1 .. MaxDeposits : n # q.id => deposits'[n] = deposits[n]
  BY <1>2, <1>3, LandIs
<1>7. SuccessIsDeposited' /\ \A x \in replies' \cup {s.answer : s \in results'} :
                                x.success => x.id \in 1 .. MaxDeposits
  BY <1>2, <1>3, LandKeepsAnswers
<1>8. DepositTypes'
  <2>1. task'.phase \in {"idle", "init", "deposit", "total"}
    BY <1>4
  <2> QED BY <1>4, <1>6, <1>7, <2>1 DEF DepositInv, DepositTypes
<1>9. Numbered'
  BY <1>4, <1>5 DEF DepositInv, Numbered
<1>10. Undeposited'
  <2>1. /\ \A n \in 1 .. MaxDeposits : n > asked' => deposits'[n] = <<>>
        /\ \A j \in DOMAIN commands' : deposits'[commands'[j].id] = <<>>
        /\ \A r \in late' : deposits'[r.id] = <<>>
    BY <1>2, <1>3, <1>5, Untouched
  <2> QED BY <1>4, <1>6, <2>1 DEF Undeposited
<1> QED
  BY <1>7, <1>8, <1>9, <1>10 DEF DepositInv

\* The task gives the request up, and its transaction may land later.
LEMMA TaskGivesUp ==
    ASSUME DepositInv, Working, UNCHANGED <<asked, commands, deposits>>,
           late' = late \cup {task.request}, task' = Vault!Idle,
           \A a \in replies' \cup {s.answer : s \in results'} :
              a \in replies \cup {s.answer : s \in results} \/ ~a.success
    PROVE  DepositInv'
<1> DEFINE q == task.request
<1>1. Busy /\ q \in DepositRequest /\ deposits[q.id] = <<>>
  BY DEF Working, Busy, DepositInv, DepositTypes, Undeposited
<1>2. /\ \A j \in DOMAIN commands : commands[j].id # q.id
      /\ \A r \in late : r.id # q.id
      /\ q.id =< asked
  BY <1>1 DEF DepositInv, Numbered
<1>3. ~Busy' /\ ~Working' /\ task'.phase = "idle"
  BY DEF Vault!Idle, Busy, Working
<1>4. late' = late \cup {q}
  OBVIOUS
<1> HIDE DEF q
<1>5. SuccessIsDeposited' /\ \A x \in replies' \cup {s.answer : s \in results'} :
                                x.success => x.id \in 1 .. MaxDeposits
  BY SuccessKept
<1>6. DepositTypes'
  <2>1. late' \subseteq DepositRequest
    BY <1>1, <1>4 DEF DepositInv, DepositTypes
  <2> QED BY <1>3, <1>5, <2>1 DEF DepositInv, DepositTypes
<1>7. Numbered'
  <2>1. /\ \A r \in late' : r.id =< asked'
        /\ \A j \in DOMAIN commands' : \A r \in late' : commands'[j].id # r.id
    BY <1>2, <1>4 DEF DepositInv, Numbered
  <2>2. \A r, u \in late' : r.id = u.id => r = u
    BY <1>2, <1>4 DEF DepositInv, Numbered
  <2> QED BY <1>3, <2>1, <2>2 DEF DepositInv, Numbered
<1>8. Undeposited'
  <2>1. \A r \in late' : deposits'[r.id] = <<>>
    BY <1>1, <1>4 DEF DepositInv, Undeposited
  <2> QED BY <1>3, <2>1 DEF DepositInv, Undeposited
<1> QED
  BY <1>5, <1>6, <1>7, <1>8 DEF DepositInv

\* A transaction that was given up lands after all.
LEMMA LateStep ==
    ASSUME DepositInv, NEW q \in late, Vault!LandLate(q)
    PROVE  DepositInv'
<1>1. /\ late' = late \ {q} /\ Vault!Land(q)
      /\ UNCHANGED <<asked, commands, task, replies, results>>
  BY DEF Vault!LandLate, Vault!phone
<1>2. q \in DepositRequest /\ deposits[q.id] = <<>> /\ q.id =< asked
  BY DEF DepositInv, DepositTypes, Undeposited, Numbered
<1>3. /\ \A j \in DOMAIN commands : commands[j].id # q.id
      /\ \A r \in late' : r.id # q.id
      /\ Busy => task.request.id # q.id
  BY <1>1 DEF DepositInv, Numbered
<1>4. /\ deposits' \in [1 .. MaxDeposits -> Seq(Deposits)]
      /\ \A n \in 1 .. MaxDeposits : n # q.id => deposits'[n] = deposits[n]
  BY <1>1, <1>2, LandIs
<1>5. SuccessIsDeposited' /\ \A x \in replies' \cup {s.answer : s \in results'} :
                                x.success => x.id \in 1 .. MaxDeposits
  BY <1>1, <1>2, LandKeepsAnswers
<1>6. DepositTypes'
  BY <1>1, <1>4, <1>5 DEF DepositInv, DepositTypes, Busy
<1>7. Numbered'
  BY <1>1 DEF DepositInv, Numbered, Busy
<1>8. Undeposited'
  <2>1. /\ \A n \in 1 .. MaxDeposits : n > asked' => deposits'[n] = <<>>
        /\ \A j \in DOMAIN commands' : deposits'[commands'[j].id] = <<>>
        /\ \A r \in late' : deposits'[r.id] = <<>>
    BY <1>1, <1>2, <1>3, Untouched
  <2>2. Busy => /\ task.request.id \in 1 .. MaxDeposits
                /\ deposits'[task.request.id] = deposits[task.request.id]
    <3>1. Busy => task.request \in DepositRequest
      BY DEF DepositInv, DepositTypes
    <3>2. Busy => task.request.id \in 1 .. MaxDeposits
      BY <3>1 DEF DepositRequest
    <3> QED BY <1>3, <1>4, <3>2
  <2>3. /\ Working => deposits'[task.request.id] = <<>>
        /\ task.phase = "total" => deposits'[task.request.id] = <<task.request.amount>>
    BY <2>2 DEF DepositInv, Undeposited, Busy, Working
  <2> QED BY <1>1, <2>1, <2>3 DEF Undeposited, Working
<1> QED
  BY <1>5, <1>6, <1>7, <1>8 DEF DepositInv

\* The failed answer that gives a request up.
LEMMA ErrorReply ==
    ASSUME Vault!SendMbDepositError, results' = results
    PROVE  /\ task' = Vault!Idle
           /\ \A a \in replies' \cup {s.answer : s \in results'} :
                 a \in replies \cup {s.answer : s \in results} \/ ~a.success
BY DEF Vault!SendMbDepositError, Vault!Reply

LEMMA TaskStep ==
    ASSUME DepositInv, Vault!TaskStep
    PROVE  DepositInv'
<1>1. CASE Vault!TakeRequest
  BY <1>1, TakeStep
<1>2. CASE Vault!InitGlobal
  <2>1. Working /\ UNCHANGED <<asked, commands, late, deposits, results>>
    BY <1>2 DEF Vault!InitGlobal, Vault!phone, Working
  <2>2. CASE task' = [task EXCEPT !.phase = "deposit"] /\ replies' = replies
    BY <2>1, <2>2, TaskMoves
  <2>3. CASE Vault!SendMbDepositError
    BY <2>1, <2>3, ErrorReply, TaskMoves
  <2> QED BY <1>2, <2>2, <2>3 DEF Vault!InitGlobal
<1>3. CASE Vault!Deposit
  <2>1. Working /\ UNCHANGED <<asked, commands, results>>
    BY <1>3 DEF Vault!Deposit, Vault!phone, Working
  <2>2. CASE /\ Vault!Land(task.request) /\ task' = [task EXCEPT !.phase = "total"]
             /\ UNCHANGED <<late, replies>>
    BY <2>1, <2>2, TaskLands
  <2>3. CASE Vault!Land(task.request) /\ Vault!SendMbDepositError /\ late' = late
    BY <2>1, <2>3, ErrorReply, TaskLands
  <2>4. CASE Vault!SendMbDepositError /\ late' = late /\ deposits' = deposits
    BY <2>1, <2>4, ErrorReply, TaskMoves
  <2>5. CASE Vault!SendMbDepositError /\ late' = late \cup {task.request} /\ deposits' = deposits
    BY <2>1, <2>5, ErrorReply, TaskGivesUp
  <2> QED BY <1>3, <2>2, <2>3, <2>4, <2>5 DEF Vault!Deposit, Vault!DepositConfirmed
<1>4. CASE Vault!ReplySuccess
  <2>1. /\ task.phase = "total" /\ task' = Vault!Idle
        /\ UNCHANGED <<asked, commands, late, deposits, results>>
    BY <1>4 DEF Vault!ReplySuccess, Vault!phone
  <2>2. /\ task.request.id \in 1 .. MaxDeposits
        /\ deposits[task.request.id] = <<task.request.amount>>
    BY <2>1 DEF DepositInv, DepositTypes, Undeposited, Busy, DepositRequest
  <2>3. \A a \in replies' : a \in replies \/ (a.id = task.request.id /\ a.amount = task.request.amount)
    BY <1>4 DEF Vault!ReplySuccess, Vault!Reply
  <2>4. \A a \in replies' \cup {s.answer : s \in results'} :
           \/ a \in replies \cup {s.answer : s \in results} \/ ~a.success
           \/ a.id \in 1 .. MaxDeposits /\ deposits[a.id] = <<a.amount>>
    BY <2>1, <2>2, <2>3
  <2> QED BY <2>1, <2>4, TaskMoves
<1> QED
  BY <1>1, <1>2, <1>3, <1>4 DEF Vault!TaskStep

LEMMA ResultShown ==
    ASSUME DepositInv, NEW a \in replies, Vault!OnMbDepositResult(a)
    PROVE  DepositInv'
<1>1. /\ UNCHANGED <<asked, commands, task, late, deposits>>
      /\ replies' \subseteq replies
      /\ results' = results \/ results' = results \cup {[listener |-> listener, answer |-> a]}
  BY DEF Vault!OnMbDepositResult
<1>2. \A b \in replies' \cup {s.answer : s \in results'} : b \in replies \cup {s.answer : s \in results}
  BY <1>1
<1> QED
  BY <1>1, <1>2, DepositQuiet

LEMMA VaultStep ==
    ASSUME DepositInv, [Vault!Next]_vaultVars
    PROVE  DepositInv'
<1>1. CASE Vault!PhoneStep
  <2>1. CASE Vault!OpenScreen \/ Vault!LeaveScreen \/ Vault!ShowDepositSheet \/ Vault!DismissSheet
    <3>1. UNCHANGED <<asked, commands, task, late, deposits, replies, results>>
      BY <2>1 DEF Vault!OpenScreen, Vault!LeaveScreen, Vault!ShowDepositSheet, Vault!DismissSheet
    <3> QED BY <3>1, DepositQuiet
  <2>2. ASSUME NEW a \in Deposits, NEW t \in DepositTokens, Vault!SendMbDepositRequest(a, t)
        PROVE  DepositInv'
    BY <2>2, RequestStep
  <2>3. CASE Vault!SendFails
    BY <2>3, FailedRequestStep
  <2>4. ASSUME NEW a \in replies, Vault!OnMbDepositResult(a) PROVE DepositInv'
    BY <2>4, ResultShown
  <2> QED BY <1>1, <2>1, <2>2, <2>3, <2>4 DEF Vault!PhoneStep
<1>2. CASE Vault!TaskStep
  BY <1>2, TaskStep
<1>3. CASE Vault!ToolStep
  <2>1. UNCHANGED <<asked, commands, task, late, deposits, replies, results>>
    BY <1>3 DEF Vault!ToolStep, Vault!MbInitGlobal, Vault!MbDeposit, Vault!MbCreateChannel,
                Vault!MbUpdateSpendingCap, Vault!MbWithdraw, Vault!Tool, Vault!phone
  <2> QED BY <2>1, DepositQuiet
<1>4. ASSUME NEW q \in late, Vault!LandLate(q) PROVE DepositInv'
  BY <1>4, LateStep
<1>5. CASE Vault!Restart
  <2>1. /\ commands' = <<>> /\ task' = Vault!Idle
        /\ UNCHANGED <<asked, late, deposits, replies, results>>
    BY <1>5 DEF Vault!Restart, Vault!phone
  <2> QED BY <2>1, TaskMoves
<1>6. CASE UNCHANGED vaultVars
  BY <1>6, DepositQuiet DEF vaultVars
<1> QED
  BY <1>1, <1>2, <1>3, <1>4, <1>5, <1>6 DEF Vault!Next

\* A deposit confirmed on the phone moves money at most once, and the answer
\* "success" is only given when that deposit, of the amount it names, has
\* landed: whatever fails half way, lands late, is lost or restarted
\* (main.rs, the mb-deposit task; the agent's vault tools beside it).
THEOREM SuccessMeansDeposited == PartsSpec => []SuccessIsDeposited
<1>1. PartsInit => DepositInv
  BY DepositInit DEF PartsInit
<1>2. DepositInv /\ [PartsNext]_partsVars => DepositInv'
  <2> SUFFICES ASSUME DepositInv, [PartsNext]_partsVars PROVE DepositInv'
    OBVIOUS
  <2>1. [Vault!Next]_vaultVars
    BY DEF PartsNext, partsVars
  <2> QED BY <2>1, VaultStep
<1>3. DepositInv => SuccessIsDeposited
  BY DEF DepositInv
<1> QED
  BY <1>1, <1>2, <1>3, PTL DEF PartsSpec

-----------------------------------------------------------------------------
(* The payments of QR codes.                                                 *)

PayTx == [id : Nat, order : Orders, visit : Nat, payer : Nat \cup {NoOne}, hash : Nat, valid : BOOLEAN]
PayAttempt ==
    [id : Nat, visit : Nat, order : Orders, method : {"local_wallet", "sponsored"},
     token : {"SOL", "SPL"}, phase : {"building", "waiting", "relaying"}, tx : PayTx \cup {NoOne}]
PayPrompt == [kind : {"connect"}] \cup [kind : {"pay", "sign"}, tx : PayTx]
PayLink ==
    [host : {"wallet_connect"}] \cup [host : {"direct_pay"}, value : Nat \cup {NoOne}]
        \cup [host : {"sponsored_sign"}, value : {NoOne}]
        \cup [host : {"sponsored_sign"}, value : Nat, tx : PayTx]
PayRequest == [id : Nat, order : Orders, visit : Nat, result : {"asked", "paid", "failed"}]

PayTypes ==
    /\ visits \in Nat /\ confirmed \in Nat /\ hash \in Nat /\ relayer \in Nat
    /\ screen # NoOne => screen \in Pay!Screens
    /\ attempts \subseteq PayAttempt
    /\ \A a \in attempts : a.phase = "relaying" => a.tx \in PayTx
    /\ asks \subseteq PayPrompt /\ links \subseteq PayLink /\ requests \subseteq PayRequest
    /\ payC # NoOne => payC = Pay!Pending \/ \E v \in Nat \cup {NoOne} : payC = Pay!Completed(v)
    /\ signC # NoOne => signC = Pay!Pending \/ \E x \in PayTx : signC = Pay!Completed(x)
    /\ payC # NoOne => screen # NoOne
    /\ left \in BOOLEAN

\* Where the number of a payment can be on its way to a screen: in an attempt
\* of the wallet's kind that is not sent yet, in the wallet, in its answer, in
\* the completer; with the sponsored kind; with the MCP server.
Building(n) == \E a \in attempts : a.id = n /\ a.phase = "building" /\ a.method = "local_wallet"
InWallet(n) == \E p \in asks : p.kind = "pay" /\ p.tx.id = n
Returning(n) == \E l \in links : l.host = "direct_pay" /\ l.value = n
Completes(n) == payC = Pay!Completed(n)
Sponsored(n) ==
    \/ \E a \in attempts : a.id = n /\ a.phase = "building" /\ a.method = "sponsored"
    \/ \E a \in attempts : a.phase = "relaying" /\ a.tx.id = n
    \/ \E p \in asks : p.kind = "sign" /\ p.tx.id = n
    \/ \E l \in links : l.host = "sponsored_sign" /\ l.value # NoOne /\ l.tx.id = n
    \/ signC # NoOne /\ signC.done /\ signC.value.id = n
Asked(n) == \E r \in requests : r.id = n
Proof(n) == \E s \in shown : s.proof = n
Paid(n) == \E q \in landed : q.id = n

\* It is in one of these places at most, and until it completes nobody has
\* shown it; what can be shown without asking the chain has landed.
OnePlace ==
    \A n \in Nat :
        /\ Building(n) => ~InWallet(n) /\ ~Returning(n) /\ ~Completes(n) /\ ~Sponsored(n) /\ ~Asked(n)
        /\ InWallet(n) => ~Returning(n) /\ ~Completes(n) /\ ~Sponsored(n) /\ ~Asked(n)
        /\ Returning(n) => ~Completes(n) /\ ~Sponsored(n) /\ ~Asked(n)
        /\ Completes(n) => ~Sponsored(n) /\ ~Asked(n)
        /\ Sponsored(n) => ~Asked(n)
        /\ Building(n) \/ InWallet(n) \/ Returning(n) \/ Asked(n) => ~Proof(n)
        /\ Returning(n) \/ Completes(n) \/ Proof(n) => Paid(n)
        /\ Building(n) \/ InWallet(n) \/ Sponsored(n) \/ Asked(n) \/ Paid(n) => n =< confirmed

OneOfAKind ==
    /\ \A a, b \in attempts : a.id = b.id => a = b
    /\ \A a \in attempts : a.id =< confirmed
    /\ \A p, r \in asks : p.kind = "pay" /\ r.kind = "pay" /\ p.tx.id = r.tx.id => p = r
    /\ \A r, t \in requests : r.id = t.id => r = t
    /\ \A r \in requests : r.result = "paid" => \E q \in landed : q.id = r.id /\ q.order = r.order

ShownOnce ==
    /\ shown \subseteq [visit : Nat, proof : Nat]
    /\ \A s, t \in shown : t.proof = s.proof => t = s
    /\ \A s \in shown : Completes(s.proof) => s.visit = screen.visit

\* As long as no payment is left alone, what is under way is the one payment
\* of the screen that is open.
OfThisScreen ==
    ~left =>
        /\ \A a \in attempts :
              /\ screen # NoOne /\ screen.busy
              /\ a.visit = screen.visit /\ a.order = screen.order
              /\ a.phase # "relaying" /\ a.method = "local_wallet" => payC = Pay!Pending
              /\ a.phase # "relaying" /\ a.method = "sponsored" => signC = Pay!Pending
              /\ a.phase = "relaying" => a.tx.order = screen.order
        /\ \A a, b \in attempts : a = b
        /\ \A p \in asks : p.kind # "connect" =>
              /\ p.tx.order = screen.order
              /\ \E a \in attempts : a.phase = "waiting" /\ a.method = IF p.kind = "pay" THEN "local_wallet" ELSE "sponsored"
        /\ \A l \in links : l.host # "wallet_connect" =>
              /\ \E a \in attempts : a.phase = "waiting" /\ a.method = IF l.host = "direct_pay" THEN "local_wallet" ELSE "sponsored"
              /\ l.host = "direct_pay" /\ l.value # NoOne => \E q \in landed : q.id = l.value /\ q.order = screen.order
              /\ l.host = "sponsored_sign" /\ l.value # NoOne => l.tx.order = screen.order
        /\ \A p, r \in asks : p.kind # "connect" /\ r.kind # "connect" => p = r
        /\ \A l, m \in links : l.host # "wallet_connect" /\ m.host # "wallet_connect" => l = m
        /\ \A p \in asks : \A l \in links : p.kind = "connect" \/ l.host = "wallet_connect"
        /\ requests # {} => screen # NoOne /\ screen.busy /\ attempts = {}
        /\ \A r, t \in requests : r = t

PayInv == PayTypes /\ OnePlace /\ OneOfAKind /\ ShownOnce /\ OfThisScreen /\ Pay!ShownOrderIsPaid
\* The tags, Dart's null and the completers are told apart.
LEMMA PayConstants ==
    /\ NoOne \notin Nat /\ NoOne \notin Pay!Screens
    /\ Pay!Pending # NoOne /\ \A v \in Nat \cup {NoOne} : Pay!Completed(v) # NoOne
    /\ \A v : Pay!Completed(v) # Pay!Pending
    /\ \A v, w : Pay!Completed(v) = Pay!Completed(w) => v = w
    /\ \A v : Pay!Completed(v).done /\ Pay!Completed(v).value = v
    /\ ~Pay!Pending.done
    /\ PayTokens \subseteq {"SOL", "SPL"}
<1>1. /\ NoOne \notin Nat /\ NoOne \notin Pay!Screens /\ NoOne \notin Pay!Completers
      /\ PayTokens \subseteq {"SOL", "SPL"}
  BY PhoneAssumption DEF Pay!DirectPayAssumption
<1>2. Pay!Pending \in Pay!Completers /\ \A v \in Nat \cup {NoOne} : Pay!Completed(v) \in Pay!Completers
  BY DEF Pay!Pending, Pay!Completed, Pay!Completers
<1>3. /\ \A v : Pay!Completed(v).done /\ Pay!Completed(v).value = v
      /\ ~Pay!Pending.done
  BY DEF Pay!Pending, Pay!Completed
<1> QED
  BY <1>1, <1>2, <1>3

\* The screen that is open stays the one it is.
SameScreen ==
    /\ screen' # NoOne <=> screen # NoOne
    /\ screen # NoOne => /\ screen' \in Pay!Screens
                         /\ screen'.visit = screen.visit /\ screen'.order = screen.order

LEMMA ShowIs ==
    ASSUME PayTypes, NEW v, NEW e, Pay!Show(v, e)
    PROVE  /\ SameScreen
           /\ screen # NoOne /\ screen.visit = v => ~screen'.busy
           /\ screen # NoOne => screen'.method = screen.method
           /\ screen = NoOne \/ screen.visit # v => screen' = screen /\ shown' = shown
           /\ e = NoOne => shown' = shown /\ (screen # NoOne => screen'.paid = screen.paid)
           /\ \/ shown' = shown
              \/ /\ screen # NoOne /\ screen.visit = v /\ e # NoOne
                 /\ shown' = shown \cup {[visit |-> v, proof |-> e]}
<1>1. CASE screen = NoOne \/ screen.visit # v
  BY <1>1 DEF Pay!Show, SameScreen, PayTypes
<1>2. CASE screen # NoOne /\ screen.visit = v
  <2>1. screen \in Pay!Screens
    BY <1>2 DEF PayTypes
  <2>2. /\ screen' = [screen EXCEPT !.busy = FALSE, !.failed = TRUE] \/ screen' = [screen EXCEPT !.busy = FALSE, !.paid = TRUE]
        /\ e = NoOne => screen' = [screen EXCEPT !.busy = FALSE, !.failed = TRUE] /\ shown' = shown
        /\ e # NoOne => shown' = shown \cup {[visit |-> v, proof |-> e]}
    BY <1>2 DEF Pay!Show
  <2>3. /\ screen' \in Pay!Screens /\ ~screen'.busy /\ screen'.method = screen.method
        /\ screen'.visit = screen.visit /\ screen'.order = screen.order
    BY <2>1, <2>2 DEF Pay!Screens
  <2>4. e = NoOne => screen'.paid = screen.paid
    BY <2>1, <2>2 DEF Pay!Screens
  <2>5. screen' # NoOne
    BY <2>3, PayConstants
  <2> QED BY <1>2, <2>2, <2>3, <2>4, <2>5 DEF SameScreen
<1> QED
  BY <1>1, <1>2

\* The numbers of the payments only leave their places.
Leaving(n) ==
    /\ Building(n)' => Building(n)
    /\ InWallet(n)' => InWallet(n)
    /\ Returning(n)' => Returning(n)
    /\ Completes(n)' => Completes(n)
    /\ Sponsored(n)' => Sponsored(n)
    /\ Asked(n)' => Asked(n)
    /\ Proof(n)' => Proof(n)
    /\ Paid(n)' <=> Paid(n)

LEMMA OnlyLeaving ==
    ASSUME PayInv, confirmed' = confirmed, \A n \in Nat : Leaving(n)
    PROVE  OnePlace'
BY DEF PayInv, OnePlace, Leaving

\* What a step of no account to the order shown keeps.
LEMMA StillPaid ==
    ASSUME PayInv, SameScreen, left' = left, landed \subseteq landed',
           screen # NoOne /\ screen'.paid => screen.paid
    PROVE  Pay!ShownOrderIsPaid'
BY DEF PayInv, Pay!ShownOrderIsPaid, SameScreen

\* Steps that only concern the connection to the wallet, lose a link, or
\* change the blockhash or the relayer's key.
LEMMA QuietPay ==
    ASSUME PayInv,
           UNCHANGED <<screen, visits, payC, signC, attempts, confirmed, requests, landed, shown, left>>,
           asks' \subseteq asks \cup {[kind |-> "connect"]},
           links' \subseteq links \cup {[host |-> "wallet_connect"]},
           hash' \in Nat, relayer' \in Nat
    PROVE  PayInv'
<1>1. /\ \A p \in asks' : p \in asks \/ (p = [kind |-> "connect"] /\ p.kind = "connect" /\ p \in PayPrompt)
      /\ \A l \in links' : l \in links \/ (l = [host |-> "wallet_connect"] /\ l.host = "wallet_connect" /\ l \in PayLink)
  BY DEF PayPrompt, PayLink
<1>2. PayTypes'
  BY <1>1 DEF PayInv, PayTypes
<1>3. OnePlace'
  <2>1. \A n \in Nat : Leaving(n)
    BY <1>1 DEF Leaving, Building, InWallet, Returning, Completes, Sponsored, Asked, Proof, Paid
  <2> QED BY <2>1, OnlyLeaving
<1>4. OneOfAKind' /\ ShownOnce'
  BY <1>1 DEF PayInv, OneOfAKind, ShownOnce, Completes
<1>5. OfThisScreen'
  BY <1>1 DEF PayInv, OfThisScreen
<1>6. Pay!ShownOrderIsPaid'
  BY DEF PayInv, Pay!ShownOrderIsPaid
<1> QED
  BY <1>2, <1>3, <1>4, <1>5, <1>6 DEF PayInv

\* A screen opens.
LEMMA OpenScreenStep ==
    ASSUME PayInv, NEW o \in Orders, Pay!OpenScreen(o)
    PROVE  PayInv'
<1>1. /\ screen = NoOne /\ visits' = visits + 1
      /\ screen' = [order |-> o, visit |-> visits + 1, busy |-> FALSE, paid |-> FALSE,
                    failed |-> FALSE, method |-> NoOne]
      /\ UNCHANGED <<connected, connecting, payC, signC, attempts, confirmed, asks, links, requests,
                     landed, hash, relayer, shown, left>>
  BY DEF Pay!OpenScreen, Pay!service, Pay!outside, Pay!history
<1>2. payC = NoOne /\ visits + 1 \in Nat
  BY <1>1 DEF PayInv, PayTypes
<1>3. screen' \in Pay!Screens /\ ~screen'.paid /\ screen' # NoOne
  <2>1. screen' \in Pay!Screens /\ ~screen'.paid
    BY <1>1, <1>2 DEF Pay!Screens
  <2> QED BY <2>1, PayConstants
<1>4. PayTypes'
  BY <1>1, <1>2, <1>3 DEF PayInv, PayTypes
<1>5. OnePlace'
  <2>1. \A n \in Nat : Leaving(n)
    BY <1>1 DEF Leaving, Building, InWallet, Returning, Completes, Sponsored, Asked, Proof, Paid
  <2> QED BY <1>1, <2>1, OnlyLeaving
<1>6. OneOfAKind'
  BY <1>1 DEF PayInv, OneOfAKind
<1>7. ShownOnce'
  <2>1. \A n \in Nat : payC # Pay!Completed(n)
    BY <1>2, PayConstants
  <2>2. \A s \in shown : s.proof \in Nat
    BY DEF PayInv, ShownOnce
  <2> QED BY <1>1, <2>1, <2>2 DEF PayInv, ShownOnce, Completes
<1>8. OfThisScreen'
  <2>1. ~left => attempts = {} /\ requests = {}
    BY <1>1 DEF PayInv, OfThisScreen
  <2> QED BY <1>1, <2>1 DEF PayInv, OfThisScreen
<1>9. Pay!ShownOrderIsPaid'
  BY <1>3 DEF Pay!ShownOrderIsPaid
<1> QED
  BY <1>4, <1>5, <1>6, <1>7, <1>8, <1>9 DEF PayInv

\* A screen is left.
LEMMA LeaveStep ==
    ASSUME PayInv, Pay!Leave
    PROVE  PayInv'
<1>1. /\ screen # NoOne /\ screen' = NoOne /\ left' = (left \/ screen.busy)
      /\ payC' = NoOne /\ signC' = NoOne
      /\ attempts' = {a \in attempts : a.phase # "waiting"}
      /\ UNCHANGED <<visits, confirmed, asks, links, requests, landed, hash, relayer, shown>>
  BY DEF Pay!Leave, Pay!outside
<1>2. screen.busy \in BOOLEAN /\ left' \in BOOLEAN
  BY <1>1 DEF PayInv, PayTypes, Pay!Screens
<1>3. PayTypes'
  BY <1>1, <1>2 DEF PayInv, PayTypes
<1>4. \A n \in Nat : ~Completes(n)'
  BY <1>1, PayConstants DEF Completes
<1>5. OnePlace'
  <2>1. \A n \in Nat : Leaving(n)
    BY <1>1, <1>4 DEF Leaving, Building, InWallet, Returning, Sponsored, Asked, Proof, Paid
  <2> QED BY <1>1, <2>1, OnlyLeaving
<1>6. OneOfAKind'
  BY <1>1 DEF PayInv, OneOfAKind
<1>7. ShownOnce'
  <2>1. \A s \in shown : s.proof \in Nat
    BY DEF PayInv, ShownOnce
  <2> QED BY <1>1, <1>4, <2>1 DEF PayInv, ShownOnce
<1>8. OfThisScreen'
  <2>1. ASSUME ~left' PROVE ~left /\ attempts = {} /\ requests = {}
    <3>1. ~left /\ ~screen.busy
      BY <1>1, <2>1
    <3> QED BY <3>1 DEF PayInv, OfThisScreen
  <2>2. CASE left'
    BY <2>2 DEF OfThisScreen
  <2>3. CASE ~left'
    <3>1. attempts' = {} /\ attempts = {} /\ requests = {} /\ ~left
      BY <1>1, <2>1, <2>3
    <3> QED BY <1>1, <3>1 DEF PayInv, OfThisScreen
  <2> QED BY <2>2, <2>3
<1>9. Pay!ShownOrderIsPaid'
  BY <1>1 DEF Pay!ShownOrderIsPaid
<1> QED
  BY <1>3, <1>5, <1>6, <1>7, <1>8, <1>9 DEF PayInv

\* An idle screen that no payment was left behind on has nothing under way.
LEMMA NothingUnderWay ==
    ASSUME PayInv, Pay!Idle, ~left
    PROVE  /\ attempts = {} /\ requests = {}
           /\ \A p \in asks : p.kind = "connect"
           /\ \A l \in links : l.host = "wallet_connect"
BY DEF PayInv, OfThisScreen, Pay!Idle

\* The next payment's number is nowhere yet.
LEMMA FreshNumber ==
    ASSUME PayInv
    PROVE  /\ confirmed \in Nat /\ confirmed + 1 \in Nat
           /\ \A n \in Nat : n =< confirmed => n =< confirmed + 1 /\ n # confirmed + 1
           /\ ~Building(confirmed + 1) /\ ~InWallet(confirmed + 1) /\ ~Returning(confirmed + 1)
           /\ ~Completes(confirmed + 1) /\ ~Sponsored(confirmed + 1) /\ ~Asked(confirmed + 1)
           /\ ~Proof(confirmed + 1) /\ ~Paid(confirmed + 1)
           /\ \A a \in attempts : a.id \in Nat /\ a.id # confirmed + 1
<1>1. confirmed \in Nat /\ \A a \in attempts : a.id \in Nat
  BY DEF PayInv, PayTypes, PayAttempt
<1>2. confirmed + 1 \in Nat /\ ~(confirmed + 1 =< confirmed)
      /\ \A n \in Nat : n =< confirmed => n =< confirmed + 1 /\ n # confirmed + 1
  BY <1>1
<1>3. \A a \in attempts : a.id # confirmed + 1
  BY <1>1, <1>2 DEF PayInv, OneOfAKind
<1> DEFINE n == confirmed + 1
<1>4. n \in Nat /\ ~(n =< confirmed)
  BY <1>2
<1> HIDE DEF n
<1>5. /\ ~Building(n) /\ ~InWallet(n) /\ ~Returning(n) /\ ~Completes(n)
      /\ ~Sponsored(n) /\ ~Asked(n) /\ ~Proof(n) /\ ~Paid(n)
  BY <1>4 DEF PayInv, OnePlace
<1> QED
  BY <1>1, <1>2, <1>3, <1>5 DEF n

\* The wallet is not connected: the screen says so.
LEMMA NotConnectedStep ==
    ASSUME PayInv, Pay!Idle, Pay!NotConnected, confirmed' = confirmed + 1,
           UNCHANGED <<visits, asks, links, landed, hash, relayer, left>>
    PROVE  PayInv'
<1>1. /\ screen # NoOne /\ screen' = [screen EXCEPT !.failed = TRUE]
      /\ UNCHANGED <<payC, signC, attempts, requests, shown>>
  BY DEF Pay!Idle, Pay!NotConnected
<1>2. screen \in Pay!Screens
  BY <1>1 DEF PayInv, PayTypes
<1>3. /\ screen' \in Pay!Screens /\ screen'.busy = screen.busy /\ screen'.paid = screen.paid
      /\ screen'.visit = screen.visit /\ screen'.order = screen.order
  BY <1>1, <1>2 DEF Pay!Screens
<1>4. screen' # NoOne
  BY <1>3, PayConstants
<1>5. confirmed \in Nat /\ confirmed + 1 \in Nat /\ \A n \in Nat : n =< confirmed => n =< confirmed'
  BY FreshNumber
<1>6. PayTypes'
  BY <1>1, <1>3, <1>4, <1>5 DEF PayInv, PayTypes
<1>7. OnePlace'
  <2>1. \A n \in Nat : Leaving(n)
    BY <1>1 DEF Leaving, Building, InWallet, Returning, Completes, Sponsored, Asked, Proof, Paid
  <2> QED BY <1>5, <2>1 DEF PayInv, OnePlace, Leaving
<1>8. OneOfAKind'
  <2>1. \A a \in attempts : a.id =< confirmed'
    BY <1>5, FreshNumber DEF PayInv, OneOfAKind
  <2> QED BY <1>1, <2>1 DEF PayInv, OneOfAKind
<1>9. ShownOnce'
  BY <1>1, <1>3 DEF PayInv, ShownOnce, Completes
<1>10. OfThisScreen'
  <2>1. CASE left
    BY <2>1 DEF OfThisScreen
  <2>2. CASE ~left
    BY <1>1, <2>2, NothingUnderWay DEF PayInv, OfThisScreen
  <2> QED BY <2>1, <2>2
<1>11. Pay!ShownOrderIsPaid'
  BY <1>1, <1>3, <1>4, StillPaid DEF SameScreen
<1> QED
  BY <1>6, <1>7, <1>8, <1>9, <1>10, <1>11 DEF PayInv

\* A payment with the wallet begins.
LEMMA BeginStep ==
    ASSUME PayInv, NEW m \in {"local_wallet", "sponsored"}, NEW t \in PayTokens,
           Pay!Idle, Pay!Begin(m, t), confirmed' = confirmed + 1,
           m = "local_wallet" => payC' = Pay!Pending /\ signC' = signC,
           m = "sponsored" => signC' = Pay!Pending /\ payC' = payC,
           UNCHANGED <<visits, asks, links, landed, hash, relayer, left>>
    PROVE  PayInv'
<1> DEFINE b == Pay!Attempt(m, t)
<1>1. /\ screen # NoOne /\ screen' = [screen EXCEPT !.busy = TRUE, !.failed = FALSE, !.method = m]
      /\ attempts' = {a \in attempts : ~(a.phase = "waiting" /\ a.method = m)} \cup {b}
      /\ UNCHANGED <<requests, shown>>
      /\ ~screen.paid
  BY DEF Pay!Idle, Pay!Begin
<1>2. screen \in Pay!Screens
  BY <1>1 DEF PayInv, PayTypes
<1>3. /\ screen' \in Pay!Screens /\ screen'.busy /\ ~screen'.paid
      /\ screen'.visit = screen.visit /\ screen'.order = screen.order
  BY <1>1, <1>2 DEF Pay!Screens
<1>4. screen' # NoOne
  BY <1>3, PayConstants
<1>5. /\ confirmed + 1 \in Nat /\ \A n \in Nat : n =< confirmed => n =< confirmed' /\ n # confirmed + 1
  BY FreshNumber
<1>6. /\ b \in PayAttempt /\ b.id = confirmed + 1 /\ b.visit = screen.visit /\ b.order = screen.order
      /\ b.method = m /\ b.phase = "building"
  BY <1>2, <1>5, PayConstants DEF Pay!Attempt, PayAttempt, Pay!Screens
<1> HIDE DEF b
<1>7. \A a \in attempts' : a = b \/ a \in attempts
  BY <1>1
<1>8. PayTypes'
  <2>1. attempts' \subseteq PayAttempt /\ \A a \in attempts' : a.phase = "relaying" => a.tx \in PayTx
    BY <1>6, <1>7 DEF PayInv, PayTypes
  <2>2. /\ payC' # NoOne => payC' = Pay!Pending \/ \E v \in Nat \cup {NoOne} : payC' = Pay!Completed(v)
        /\ signC' # NoOne => signC' = Pay!Pending \/ \E x \in PayTx : signC' = Pay!Completed(x)
    BY DEF PayInv, PayTypes
  <2> QED BY <1>1, <1>3, <1>4, <1>5, <2>1, <2>2 DEF PayInv, PayTypes
<1>9. OnePlace'
  <2>1. PICK k \in Nat : k = confirmed + 1
    BY <1>5
  <2>2. /\ ~Building(k) /\ ~InWallet(k) /\ ~Returning(k) /\ ~Completes(k) /\ ~Sponsored(k)
        /\ ~Asked(k) /\ ~Proof(k) /\ ~Paid(k) /\ confirmed' = k /\ k =< k
        /\ \A n \in Nat : n =< confirmed => n =< k /\ n # k
    BY <2>1, FreshNumber
  <2>3. signC' # NoOne /\ signC'.done => signC' = signC
    BY PayConstants
  <2>4. \A n \in Nat : /\ Building(n)' => Building(n) \/ (n = k /\ m = "local_wallet")
                       /\ Sponsored(n)' => Sponsored(n) \/ (n = k /\ m = "sponsored")
    <3>1. \A n \in Nat : Building(n)' => Building(n) \/ (n = k /\ m = "local_wallet")
      BY <1>6, <1>7, <2>1 DEF Building
    <3>2. \A n \in Nat : Sponsored(n)' => Sponsored(n) \/ (n = k /\ m = "sponsored")
      BY <1>6, <1>7, <2>1, <2>3 DEF Sponsored
    <3> QED BY <3>1, <3>2
  <2>5. \A n \in Nat : /\ Completes(n)' => Completes(n)
                       /\ InWallet(n)' <=> InWallet(n)
                       /\ Returning(n)' <=> Returning(n)
                       /\ Asked(n)' <=> Asked(n)
                       /\ Proof(n)' <=> Proof(n)
                       /\ Paid(n)' <=> Paid(n)
    <3>1. \A v : Pay!Completed(v) # Pay!Pending
      BY PayConstants
    <3> QED BY <1>1, <3>1 DEF InWallet, Returning, Asked, Proof, Paid, Completes
  <2> QED BY <2>2, <2>4, <2>5 DEF PayInv, OnePlace
<1>10. OneOfAKind'
  <2>1. \A x, y \in attempts' : x.id = y.id => x = y
    <3>1. \A a \in attempts : a.id # b.id
      BY <1>6, FreshNumber
    <3> QED BY <1>7, <3>1 DEF PayInv, OneOfAKind
  <2>2. \A a \in attempts' : a.id =< confirmed'
    <3>1. \A a \in attempts : a.id \in Nat /\ a.id =< confirmed
      BY FreshNumber DEF PayInv, OneOfAKind
    <3>2. b.id =< confirmed'
      BY <1>5, <1>6
    <3> QED BY <1>5, <1>7, <3>1, <3>2
  <2> QED BY <1>1, <2>1, <2>2 DEF PayInv, OneOfAKind
<1>11. ShownOnce'
  <2>1. \A s \in shown : Completes(s.proof)' => Completes(s.proof)
    <3>1. \A v : Pay!Completed(v) # Pay!Pending
      BY PayConstants
    <3> QED BY <3>1 DEF Completes
  <2> QED BY <1>1, <1>3, <2>1 DEF PayInv, ShownOnce
<1>12. OfThisScreen'
  <2>1. CASE left
    BY <2>1 DEF OfThisScreen
  <2>2. CASE ~left
    <3>1. /\ attempts = {} /\ requests = {}
          /\ \A p \in asks : p.kind = "connect"
          /\ \A l \in links : l.host = "wallet_connect"
      BY <2>2, NothingUnderWay
    <3>2. attempts' = {b} /\ requests' = {}
      BY <1>1, <3>1
    <3> QED BY <1>3, <1>4, <1>6, <3>1, <3>2 DEF OfThisScreen
  <2> QED BY <2>1, <2>2
<1>13. Pay!ShownOrderIsPaid'
  BY <1>3 DEF Pay!ShownOrderIsPaid
<1> QED
  BY <1>8, <1>9, <1>10, <1>11, <1>12, <1>13 DEF PayInv

\* A request goes to the MCP server.
LEMMA QrRequestStep ==
    ASSUME PayInv, Pay!SendQrPaymentRequest
    PROVE  PayInv'
<1>1. /\ Pay!Idle /\ confirmed' = confirmed + 1 /\ screen # NoOne
      /\ screen' = [screen EXCEPT !.busy = TRUE, !.failed = FALSE, !.method = "session_key"]
      /\ requests' = requests \cup {Pay!QrPaymentRequest}
      /\ UNCHANGED <<visits, payC, signC, attempts, asks, links, landed, hash, relayer, shown, left>>
  BY DEF Pay!SendQrPaymentRequest, Pay!Confirm, Pay!Idle, Pay!outside, Pay!history
<1>2. screen \in Pay!Screens /\ ~screen.paid
  BY <1>1 DEF PayInv, PayTypes, Pay!Idle
<1>3. /\ screen' \in Pay!Screens /\ screen'.busy /\ ~screen'.paid
      /\ screen'.visit = screen.visit /\ screen'.order = screen.order
  BY <1>1, <1>2 DEF Pay!Screens
<1>4. screen' # NoOne
  BY <1>3, PayConstants
<1>5. PICK k \in Nat : k = confirmed + 1
  BY FreshNumber
<1>6. /\ ~Building(k) /\ ~InWallet(k) /\ ~Returning(k) /\ ~Completes(k) /\ ~Sponsored(k)
      /\ ~Asked(k) /\ ~Proof(k) /\ ~Paid(k) /\ confirmed' = k /\ k =< k
      /\ \A n \in Nat : n =< confirmed => n =< k /\ n # k
  BY <1>1, <1>5, FreshNumber
<1>7. PICK b \in PayRequest : b.id = k /\ b.result = "asked" /\ requests' = requests \cup {b}
  <2>1. Pay!QrPaymentRequest \in PayRequest /\ Pay!QrPaymentRequest.id = k /\ Pay!QrPaymentRequest.result = "asked"
    BY <1>2, <1>5 DEF Pay!QrPaymentRequest, PayRequest, Pay!Screens
  <2> QED BY <1>1, <2>1
<1>8. PayTypes'
  BY <1>1, <1>3, <1>4, <1>6, <1>7 DEF PayInv, PayTypes
<1>9. OnePlace'
  <2>1. \A n \in Nat : Asked(n)' => Asked(n) \/ n = k
    BY <1>7 DEF Asked
  <2>2. \A n \in Nat : /\ Building(n)' => Building(n)
                       /\ Sponsored(n)' => Sponsored(n)
                       /\ Completes(n)' => Completes(n)
                       /\ InWallet(n)' => InWallet(n)
                       /\ Returning(n)' => Returning(n)
                       /\ Proof(n)' => Proof(n)
                       /\ Paid(n)' <=> Paid(n)
    BY <1>1 DEF Building, Sponsored, InWallet, Returning, Proof, Paid, Completes
  <2> QED BY <1>6, <2>1, <2>2 DEF PayInv, OnePlace
<1>10. OneOfAKind'
  <2>1. \A a \in attempts : a.id =< confirmed'
    BY <1>6, FreshNumber DEF PayInv, OneOfAKind
  <2>2. \A r \in requests : r.id # b.id
    BY <1>6, <1>7 DEF Asked
  <2>3. \A r, u \in requests' : r.id = u.id => r = u
    BY <1>7, <2>2 DEF PayInv, OneOfAKind
  <2> QED BY <1>1, <1>7, <2>1, <2>3 DEF PayInv, OneOfAKind
<1>11. ShownOnce'
  BY <1>1, <1>3 DEF PayInv, ShownOnce, Completes
<1>12. OfThisScreen'
  <2>1. CASE left
    BY <1>1, <2>1 DEF OfThisScreen
  <2>2. CASE ~left
    <3>1. /\ attempts = {} /\ requests = {}
          /\ \A p \in asks : p.kind = "connect"
          /\ \A l \in links : l.host = "wallet_connect"
      BY <1>1, <2>2, NothingUnderWay
    <3> QED BY <1>1, <1>3, <1>4, <1>7, <3>1 DEF OfThisScreen
  <2> QED BY <2>1, <2>2
<1>13. Pay!ShownOrderIsPaid'
  BY <1>3 DEF Pay!ShownOrderIsPaid
<1> QED
  BY <1>8, <1>9, <1>10, <1>11, <1>12, <1>13 DEF PayInv

\* A voucher pays at once, or a step of it throws.
LEMMA VoucherStep ==
    ASSUME PayInv, Pay!ConfirmMbPayment
    PROVE  PayInv'
<1>1. PICK k \in Nat : k = confirmed + 1
  BY FreshNumber
<1>2. PICK e : \/ /\ e = k /\ landed' = landed \cup {[id |-> k, order |-> screen.order, visit |-> screen.visit]}
                  /\ Pay!Show(screen.visit, e)
               \/ e = NoOne /\ landed' = landed /\ Pay!Show(screen.visit, e)
  BY <1>1 DEF Pay!ConfirmMbPayment
<1>3. /\ Pay!Idle /\ confirmed' = confirmed + 1 /\ screen # NoOne
      /\ UNCHANGED <<visits, payC, signC, attempts, asks, links, requests, hash, relayer, left>>
  BY DEF Pay!ConfirmMbPayment, Pay!Idle, Pay!service, Pay!history
<1>4. screen \in Pay!Screens /\ ~screen.paid
  BY <1>3 DEF PayInv, PayTypes, Pay!Idle
<1>5. PayTypes
  BY DEF PayInv
<1>6. /\ SameScreen
      /\ e = NoOne => shown' = shown /\ screen'.paid = screen.paid
      /\ shown' = shown \/ (e # NoOne /\ shown' = shown \cup {[visit |-> screen.visit, proof |-> e]})
  BY <1>2, <1>3, <1>5, ShowIs
<1>7. /\ ~Building(k) /\ ~InWallet(k) /\ ~Returning(k) /\ ~Completes(k) /\ ~Sponsored(k)
      /\ ~Asked(k) /\ ~Proof(k) /\ ~Paid(k) /\ confirmed' = k /\ k =< k
      /\ \A n \in Nat : n =< confirmed => n =< k /\ n # k
  BY <1>1, <1>3, FreshNumber
<1>8. /\ landed \subseteq landed'
      /\ \A q \in landed' : q \in landed \/ q.id = k
      /\ e # NoOne => e = k /\ \E q \in landed' : q.id = k /\ q.order = screen.order
      /\ shown \subseteq shown'
      /\ \A s \in shown' : s \in shown \/ (e = k /\ s = [visit |-> screen.visit, proof |-> k])
  <2> DEFINE q == [id |-> k, order |-> screen.order, visit |-> screen.visit]
  <2>1. q.id = k /\ q.order = screen.order
    OBVIOUS
  <2>2. (e = k /\ landed' = landed \cup {q}) \/ (e = NoOne /\ landed' = landed)
    BY <1>2
  <2> HIDE DEF q
  <2>3. /\ landed \subseteq landed' /\ \A w \in landed' : w \in landed \/ w.id = k
        /\ e # NoOne => e = k /\ \E w \in landed' : w.id = k /\ w.order = screen.order
    BY <2>1, <2>2
  <2>4. e # NoOne => e = k
    BY <2>2
  <2> QED BY <1>6, <2>3, <2>4
<1>9. PayTypes'
  BY <1>1, <1>3, <1>6, <1>7 DEF PayTypes, SameScreen, PayInv
<1>10. OnePlace'
  <2>1. \A n \in Nat : /\ Proof(n)' => Proof(n) \/ (n = k /\ e = k)
                       /\ Paid(n) => Paid(n)'
                       /\ Paid(n)' => Paid(n) \/ n = k
                       /\ e = k => Paid(k)'
    BY <1>1, <1>8, PayConstants DEF Proof, Paid
  <2>2. \A n \in Nat : /\ Building(n)' => Building(n)
                       /\ Sponsored(n)' => Sponsored(n)
                       /\ Completes(n)' => Completes(n)
                       /\ InWallet(n)' => InWallet(n)
                       /\ Returning(n)' => Returning(n)
                       /\ Asked(n)' => Asked(n)
    BY <1>3 DEF Building, Sponsored, InWallet, Returning, Asked, Completes
  <2> QED BY <1>7, <2>1, <2>2 DEF PayInv, OnePlace
<1>11. OneOfAKind'
  <2>1. \A a \in attempts : a.id =< confirmed'
    BY <1>7, FreshNumber DEF PayInv, OneOfAKind
  <2> QED BY <1>3, <1>8, <2>1 DEF PayInv, OneOfAKind
<1>12. ShownOnce'
  <2>1. \A s \in shown : s.proof # k /\ s.proof \in Nat
    BY <1>7 DEF Proof, PayInv, ShownOnce
  <2>2. [visit |-> screen.visit, proof |-> k] \in [visit : Nat, proof : Nat]
    BY <1>4 DEF Pay!Screens
  <2>3. \A s, u \in shown' : u.proof = s.proof => u = s
    BY <1>8, <2>1 DEF PayInv, ShownOnce
  <2>4. \A s \in shown' : Completes(s.proof)' => s.visit = screen'.visit
    BY <1>3, <1>6, <1>7, <1>8 DEF PayInv, ShownOnce, Completes, SameScreen
  <2> QED BY <1>8, <2>2, <2>3, <2>4 DEF PayInv, ShownOnce
<1>13. OfThisScreen'
  <2>1. CASE left
    BY <1>3, <2>1 DEF OfThisScreen
  <2>2. CASE ~left
    <3>1. /\ attempts = {} /\ requests = {}
          /\ \A p \in asks : p.kind = "connect"
          /\ \A l \in links : l.host = "wallet_connect"
      BY <1>3, <2>2, NothingUnderWay
    <3> QED BY <1>3, <3>1 DEF OfThisScreen
  <2> QED BY <2>1, <2>2
<1>14. Pay!ShownOrderIsPaid'
  <2>1. CASE e = NoOne
    BY <1>3, <1>4, <1>6, <2>1 DEF Pay!ShownOrderIsPaid
  <2>2. CASE e # NoOne
    BY <1>3, <1>6, <1>8, <2>2 DEF Pay!ShownOrderIsPaid, SameScreen
  <2> QED BY <2>1, <2>2
<1> QED
  BY <1>9, <1>10, <1>11, <1>12, <1>13, <1>14 DEF PayInv

\* Building a transaction fails.
LEMMA BuildFailsStep ==
    ASSUME PayInv, NEW a \in attempts, Pay!BuildFails(a)
    PROVE  PayInv'
<1>1. /\ a.phase = "building" /\ attempts' = attempts \ {a} /\ Pay!Show(a.visit, NoOne)
      /\ UNCHANGED <<visits, payC, signC, confirmed, asks, links, requests, landed, hash, relayer, left>>
  BY DEF Pay!BuildFails, Pay!Building, Pay!Without, Pay!service, Pay!outside, Pay!history
<1>2. PayTypes
  BY DEF PayInv
<1>3. SameScreen /\ shown' = shown /\ (screen # NoOne => screen'.paid = screen.paid)
  BY <1>1, <1>2, ShowIs
<1>4. PayTypes'
  BY <1>1, <1>3 DEF PayTypes, SameScreen, PayInv
<1>5. OnePlace'
  <2>1. \A n \in Nat : Leaving(n)
    BY <1>1, <1>3 DEF Leaving, Building, InWallet, Returning, Completes, Sponsored, Asked, Proof, Paid
  <2> QED BY <1>1, <2>1, OnlyLeaving
<1>6. OneOfAKind'
  BY <1>1 DEF PayInv, OneOfAKind
<1>7. ShownOnce'
  <2>1. \A s \in shown : Completes(s.proof) => screen # NoOne
    <3>1. \A s \in shown : s.proof \in Nat
      BY DEF PayInv, ShownOnce
    <3>2. \A n \in Nat : Completes(n) => payC # NoOne
      BY PayConstants DEF Completes
    <3> QED BY <3>1, <3>2 DEF PayInv, PayTypes
  <2> QED BY <1>1, <1>3, <2>1 DEF PayInv, ShownOnce, Completes, SameScreen
<1>8. OfThisScreen'
  <2>1. CASE left
    BY <1>1, <2>1 DEF OfThisScreen
  <2>2. CASE ~left
    <3>1. /\ attempts' = {} /\ requests = {}
          /\ \A p \in asks : p.kind = "connect"
          /\ \A l \in links : l.host = "wallet_connect"
      BY <1>1, <2>2 DEF PayInv, OfThisScreen
    <3> QED BY <1>1, <3>1 DEF OfThisScreen
  <2> QED BY <2>1, <2>2
<1>9. Pay!ShownOrderIsPaid'
  BY <1>1, <1>3, StillPaid
<1> QED
  BY <1>4, <1>5, <1>6, <1>7, <1>8, <1>9 DEF PayInv

\* The transaction that is built for an attempt.
LEMMA TxIs ==
    ASSUME PayTypes, NEW a \in attempts
    PROVE  Pay!Tx(a) \in PayTx /\ Pay!Tx(a).id = a.id /\ Pay!Tx(a).order = a.order
<1>1. a \in PayAttempt /\ relayer \in Nat /\ hash \in Nat
  BY DEF PayTypes
<1>2. /\ Pay!TransferTx(a) \in PayTx
      /\ Pay!TransferTx(a).id = a.id /\ Pay!TransferTx(a).order = a.order
  BY <1>1 DEF Pay!TransferTx, PayTx, PayAttempt
<1>3. /\ Pay!SponsoredTransferTx(a) \in PayTx
      /\ Pay!SponsoredTransferTx(a).id = a.id /\ Pay!SponsoredTransferTx(a).order = a.order
  BY <1>1, <1>2 DEF Pay!SponsoredTransferTx, PayTx
<1>4. /\ Pay!SponsoredSplTransferTx(a) \in PayTx
      /\ Pay!SponsoredSplTransferTx(a).id = a.id /\ Pay!SponsoredSplTransferTx(a).order = a.order
  <2> DEFINE x == Pay!SponsoredTransferTx(a)
             v == a.order \in TokenAccounts
  <2>1. v \in BOOLEAN
    OBVIOUS
  <2>2. Pay!SponsoredSplTransferTx(a) = [x EXCEPT !.valid = v]
    BY DEF Pay!SponsoredSplTransferTx
  <2>3. x \in PayTx /\ x.id = a.id /\ x.order = a.order
    BY <1>3
  <2> HIDE DEF x, v
  <2>4. /\ [x EXCEPT !.valid = v] \in PayTx
        /\ [x EXCEPT !.valid = v].id = x.id /\ [x EXCEPT !.valid = v].order = x.order
    BY <2>1, <2>3 DEF PayTx
  <2> QED BY <2>2, <2>3, <2>4
<1>5. /\ a.method \in {"local_wallet", "sponsored"} /\ a.token \in {"SOL", "SPL"}
  BY <1>1 DEF PayAttempt
<1> QED
  BY <1>2, <1>3, <1>4, <1>5 DEF Pay!Tx, Pay!SplTransferTx

\* Where a transaction was asked for, the wallet holds it, or the request is lost.
LEMMA AskIs ==
    ASSUME PayTypes, NEW a \in attempts, NEW kind \in {"pay", "sign"}, Pay!Ask(kind, a)
    PROVE  \A p \in asks' : \/ p \in asks
                            \/ /\ p \in PayPrompt /\ p.kind = kind
                               /\ p.tx.id = a.id /\ p.tx.order = a.order
                               /\ p = [kind |-> kind, tx |-> Pay!Tx(a)]
<1> DEFINE x == Pay!Tx(a)
           u == [kind |-> kind, tx |-> x]
<1>1. x \in PayTx /\ x.id = a.id /\ x.order = a.order
  BY TxIs
<1>2. asks' = asks \cup {u} \/ asks' = asks
  BY DEF Pay!Ask, Pay!SignUrl
<1> HIDE DEF x
<1>3. u \in PayPrompt /\ u.kind = kind /\ u.tx = x
  BY <1>1 DEF PayPrompt
<1>4. u = [kind |-> kind, tx |-> x]
  OBVIOUS
<1> HIDE DEF u
<1>5. u.tx.id = a.id /\ u.tx.order = a.order
  BY <1>1, <1>3
<1> QED
  BY <1>2, <1>3, <1>4, <1>5 DEF x

\* The wallet is opened for a payment.
LEMMA OpenSignUrlStep ==
    ASSUME PayInv, NEW a \in attempts, Pay!OpenSignUrl(a)
    PROVE  PayInv'
<1> DEFINE w == [a EXCEPT !.phase = "waiting", !.tx = NoOne]
<1>1. /\ a.phase = "building" /\ a.method = "local_wallet" /\ Pay!Ask("pay", a)
      /\ UNCHANGED <<visits, payC, signC, confirmed, links, requests, landed, hash, relayer, left>>
  BY DEF Pay!OpenSignUrl, Pay!Building, Pay!service, Pay!outside
<1>2. PayTypes /\ a \in PayAttempt /\ confirmed \in Nat /\ a.id \in Nat
  BY DEF PayInv, PayTypes, PayAttempt
<1>3. PICK e : \/ payC = Pay!Pending /\ e = NoOne /\ attempts' = (attempts \ {a}) \cup {w} /\ UNCHANGED <<screen, shown>>
               \/ /\ payC # Pay!Pending /\ attempts' = attempts \ {a} /\ Pay!Show(a.visit, e)
                  /\ e # NoOne => payC = Pay!Completed(e) /\ e \in Nat
  <2>1. CASE payC = Pay!Pending
    BY <2>1 DEF Pay!OpenSignUrl, Pay!Moved, Pay!Without
  <2>2. CASE payC # Pay!Pending /\ payC = NoOne
    BY <2>2 DEF Pay!OpenSignUrl, Pay!Without
  <2>3. CASE payC # Pay!Pending /\ payC # NoOne
    <3>1. PICK v \in Nat \cup {NoOne} : payC = Pay!Completed(v)
      BY <1>2, <2>3 DEF PayTypes
    <3>2. payC.value = v
      BY <3>1, PayConstants
    <3> QED BY <2>3, <3>1, <3>2 DEF Pay!OpenSignUrl, Pay!Without
  <2> QED BY <2>1, <2>2, <2>3
<1>4. /\ w \in PayAttempt /\ w.id = a.id /\ w.phase = "waiting" /\ w.method = "local_wallet"
      /\ w.visit = a.visit /\ w.order = a.order
  BY <1>1, <1>2 DEF PayAttempt
<1> HIDE DEF w
<1>5. /\ SameScreen
      /\ shown' = shown \/ (/\ screen # NoOne /\ screen.visit = a.visit /\ payC = Pay!Completed(e) /\ e \in Nat
                            /\ shown' = shown \cup {[visit |-> a.visit, proof |-> e]})
  <2>1. CASE Pay!Show(a.visit, e) /\ (e # NoOne => payC = Pay!Completed(e) /\ e \in Nat)
    BY <1>2, <2>1, ShowIs
  <2>2. CASE UNCHANGED <<screen, shown>>
    BY <1>2, <2>2 DEF SameScreen, PayTypes
  <2> QED BY <1>3, <2>1, <2>2
<1>6. \A p \in asks' : p \in asks \/ (p \in PayPrompt /\ p.kind = "pay" /\ p.tx.id = a.id /\ p.tx.order = a.order)
  BY <1>1, <1>2, AskIs
<1>7. \A b \in attempts' : (b \in attempts /\ b # a) \/ b = w
  BY <1>3
<1>8. PayTypes'
  BY <1>1, <1>2, <1>4, <1>5, <1>6, <1>7 DEF PayTypes, SameScreen
<1>9. OnePlace'
  <2>1. \A n \in Nat : Building(n)' => Building(n) /\ n # a.id
    <3>1. \A b \in attempts : b.id = a.id => b = a
      BY DEF PayInv, OneOfAKind
    <3> QED BY <1>4, <1>7, <3>1 DEF Building
  <2>2. \A n \in Nat : InWallet(n)' => InWallet(n) \/ n = a.id
    BY <1>6 DEF InWallet
  <2>3. \A n \in Nat : Sponsored(n)' => Sponsored(n)
    BY <1>1, <1>4, <1>6, <1>7 DEF Sponsored
  <2>4. \A n \in Nat : Proof(n)' => Proof(n) \/ Completes(n)
    BY <1>5 DEF Proof, Completes
  <2>5. \A n \in Nat : /\ Completes(n)' <=> Completes(n)
                       /\ Returning(n)' <=> Returning(n)
                       /\ Asked(n)' <=> Asked(n)
                       /\ Paid(n)' <=> Paid(n)
    BY <1>1 DEF Completes, Returning, Asked, Paid
  <2>6. Building(a.id)
    BY <1>1 DEF Building
  <2> QED BY <1>1, <1>2, <2>1, <2>2, <2>3, <2>4, <2>5, <2>6 DEF PayInv, OnePlace
<1>10. OneOfAKind'
  <2>1. \A p, r \in asks' : p.kind = "pay" /\ r.kind = "pay" /\ p.tx.id = r.tx.id => p = r
    <3>1. ~InWallet(a.id)
      <4>1. Building(a.id)
        BY <1>1 DEF Building
      <4> QED BY <1>2, <4>1 DEF PayInv, OnePlace
    <3>2. \A p \in asks : p.kind = "pay" => p.tx.id # a.id
      BY <3>1 DEF InWallet
    <3>3. \A p \in asks' : p \in asks \/ (p.tx.id = a.id /\ p = [kind |-> "pay", tx |-> Pay!Tx(a)])
      BY <1>1, <1>2, AskIs
    <3> QED BY <3>2, <3>3 DEF PayInv, OneOfAKind
  <2> QED BY <1>1, <1>4, <1>7, <2>1 DEF PayInv, OneOfAKind
<1>11. ShownOnce'
  <2>1. \A s \in shown' : s \in shown \/ (/\ s = [visit |-> a.visit, proof |-> e] /\ s.proof = e /\ s.visit = a.visit
                                          /\ screen # NoOne /\ screen.visit = a.visit
                                          /\ Completes(e) /\ e \in Nat /\ s \in [visit : Nat, proof : Nat])
    BY <1>2, <1>5 DEF Completes, PayAttempt
  <2>2. shown \subseteq [visit : Nat, proof : Nat]
    BY DEF PayInv, ShownOnce
  <2>3. \A s \in shown : \A u \in shown' : u \notin shown /\ u.proof = s.proof => u = s
    <3> SUFFICES ASSUME NEW s \in shown, NEW u \in shown', u \notin shown, u.proof = s.proof
                 PROVE  u = s
      OBVIOUS
    <3>1. /\ u.proof = e /\ u.visit = screen.visit /\ Completes(s.proof)
          /\ u \in [visit : Nat, proof : Nat]
      BY <2>1
    <3>2. s.visit = screen.visit
      BY <3>1 DEF PayInv, ShownOnce
    <3>3. s \in [visit : Nat, proof : Nat]
      BY <2>2
    <3>4. s = [visit |-> s.visit, proof |-> s.proof] /\ u = [visit |-> u.visit, proof |-> u.proof]
      BY <3>1, <3>3
    <3> QED BY <3>1, <3>2, <3>4
  <2>4. \A s, u \in shown' : u.proof = s.proof => u = s
    BY <2>1, <2>3 DEF PayInv, ShownOnce
  <2>5. \A s \in shown' : Completes(s.proof)' => s.visit = screen'.visit
    <3>1. \A s \in shown' : Completes(s.proof) => s.visit = screen.visit
      BY <2>1 DEF PayInv, ShownOnce
    <3>2. screen # NoOne \/ \A n \in Nat : ~Completes(n)
      <4>1. payC # NoOne \/ \A n \in Nat : ~Completes(n)
        BY PayConstants DEF Completes
      <4> QED BY <1>2, <4>1 DEF PayTypes
    <3>3. \A s \in shown' : s.proof \in Nat
      BY <2>1, <2>2
    <3> QED BY <1>1, <1>5, <3>1, <3>2, <3>3 DEF Completes, SameScreen
  <2> QED BY <2>1, <2>2, <2>4, <2>5 DEF ShownOnce
<1>12. CASE left
  <2>1. OfThisScreen' /\ Pay!ShownOrderIsPaid'
    BY <1>1, <1>12 DEF OfThisScreen, Pay!ShownOrderIsPaid
  <2> QED BY <1>8, <1>9, <1>10, <1>11, <2>1 DEF PayInv
<1>13. CASE ~left
  <2>1. /\ payC = Pay!Pending /\ screen # NoOne /\ screen.busy
        /\ a.visit = screen.visit /\ a.order = screen.order
        /\ attempts = {a} /\ requests = {}
        /\ \A p \in asks : p.kind = "connect"
        /\ \A l \in links : l.host = "wallet_connect"
    BY <1>1, <1>13 DEF PayInv, OfThisScreen
  <2>2. attempts' = {w} /\ UNCHANGED <<screen, shown>>
    BY <1>3, <2>1
  <2>3. \A p, r \in asks' : p.kind # "connect" /\ r.kind # "connect" => p = r
    <3>1. \A p \in asks' : p.kind # "connect" => p = [kind |-> "pay", tx |-> Pay!Tx(a)]
      BY <1>1, <1>2, <2>1, AskIs
    <3> QED BY <3>1
  <2>4. \A p \in asks' : p.kind # "connect" => p.kind = "pay" /\ p.tx.order = screen.order
    BY <1>6, <2>1
  <2>5. OfThisScreen'
    BY <1>1, <1>4, <2>1, <2>2, <2>3, <2>4 DEF OfThisScreen
  <2>6. Pay!ShownOrderIsPaid'
    BY <1>1, <1>5, <2>2, StillPaid
  <2> QED BY <1>8, <1>9, <1>10, <1>11, <2>5, <2>6 DEF PayInv
<1> QED
  BY <1>12, <1>13

\* A proof that nobody has shown is shown on the open screen.
LEMMA ShowsNew ==
    ASSUME PayInv, SameScreen, NEW e \in Nat, NEW v, ~Proof(e),
           shown' = shown \/ (screen # NoOne /\ v = screen.visit
                              /\ shown' = shown \cup {[visit |-> v, proof |-> e]}),
           \A n \in Nat : Completes(n)' => Completes(n) \/ n = e
    PROVE  ShownOnce'
<1> DEFINE u == [visit |-> v, proof |-> e]
<1>1. u.visit = v /\ u.proof = e /\ (v \in Nat => u \in [visit : Nat, proof : Nat])
  OBVIOUS
<1>2. shown' = shown \/ (screen # NoOne /\ v = screen.visit /\ shown' = shown \cup {u})
  OBVIOUS
<1> HIDE DEF u
<1>3. screen # NoOne => screen.visit \in Nat
  BY DEF PayInv, PayTypes, Pay!Screens
<1>4. shown \subseteq [visit : Nat, proof : Nat] /\ \A s \in shown : s.proof \in Nat
  BY DEF PayInv, ShownOnce
<1>5. \A s \in shown : s.proof # e
  BY DEF Proof
<1>6. shown' \subseteq [visit : Nat, proof : Nat]
  BY <1>1, <1>2, <1>3, <1>4
<1>7. \A s, t \in shown' : t.proof = s.proof => t = s
  BY <1>1, <1>2, <1>5 DEF PayInv, ShownOnce
<1>8. \A s \in shown' : Completes(s.proof)' => s.visit = screen'.visit
  <2>1. \A n \in Nat : Completes(n) => screen # NoOne
    <3>1. \A n \in Nat : Completes(n) => payC # NoOne
      BY PayConstants DEF Completes
    <3> QED BY <3>1 DEF PayInv, PayTypes
  <2>2. screen # NoOne => screen'.visit = screen.visit
    BY DEF SameScreen
  <2> SUFFICES ASSUME NEW s \in shown', Completes(s.proof)'
               PROVE  s.visit = screen'.visit
    OBVIOUS
  <2>3. CASE s \in shown
    <3>1. Completes(s.proof)
      BY <1>4, <1>5, <2>3
    <3> QED BY <1>4, <2>1, <2>2, <2>3, <3>1 DEF PayInv, ShownOnce
  <2>4. CASE s \notin shown
    BY <1>1, <1>2, <2>2, <2>4
  <2> QED BY <2>3, <2>4
<1> QED
  BY <1>6, <1>7, <1>8 DEF ShownOnce

\* Nothing new is shown.
LEMMA ShowsNothing ==
    ASSUME PayInv, SameScreen, shown' = shown, \A n \in Nat : Completes(n)' => Completes(n)
    PROVE  ShownOnce'
<1>1. \A n \in Nat : Completes(n) => screen # NoOne
  <2>1. \A n \in Nat : Completes(n) => payC # NoOne
    BY PayConstants DEF Completes
  <2> QED BY <2>1 DEF PayInv, PayTypes
<1>2. screen # NoOne => screen'.visit = screen.visit
  BY DEF SameScreen
<1>3. \A s \in shown : s.proof \in Nat
  BY DEF PayInv, ShownOnce
<1>4. \A s \in shown : Completes(s.proof)' => s.visit = screen'.visit
  BY <1>1, <1>2, <1>3 DEF PayInv, ShownOnce
<1> QED
  BY <1>4 DEF PayInv, ShownOnce

\* The wallet is opened for a signature.
LEMMA OpenSignTransactionUrlStep ==
    ASSUME PayInv, NEW a \in attempts, Pay!OpenSignTransactionUrl(a)
    PROVE  PayInv'
<1>1. /\ a.phase = "building" /\ a.method = "sponsored" /\ Pay!Ask("sign", a)
      /\ UNCHANGED <<visits, payC, signC, confirmed, links, requests, landed, hash, relayer, left>>
  BY DEF Pay!OpenSignTransactionUrl, Pay!Building, Pay!service, Pay!outside
<1>2. PayTypes /\ a \in PayAttempt /\ confirmed \in Nat /\ a.id \in Nat
  BY DEF PayInv, PayTypes, PayAttempt
<1>3. \/ signC = NoOne /\ attempts' = attempts \ {a} /\ Pay!Show(a.visit, NoOne)
      \/ \E w \in PayAttempt :
            /\ signC # NoOne
            /\ w.id = a.id /\ w.method = "sponsored" /\ w.visit = a.visit /\ w.order = a.order
            /\ \/ w.phase = "waiting"
               \/ w.phase = "relaying" /\ signC.done /\ w.tx = signC.value /\ w.tx \in PayTx
            /\ signC = Pay!Pending => w.phase = "waiting"
            /\ attempts' = (attempts \ {a}) \cup {w} /\ UNCHANGED <<screen, shown>>
  <2>1. CASE signC = NoOne
    BY <2>1 DEF Pay!OpenSignTransactionUrl, Pay!Without
  <2>2. CASE signC # NoOne /\ signC.done
    <3> DEFINE w == [a EXCEPT !.phase = "relaying", !.tx = signC.value]
    <3>1. signC.value \in PayTx /\ signC # Pay!Pending
      BY <1>2, <2>2, PayConstants DEF PayTypes
    <3>2. /\ w \in PayAttempt /\ w.id = a.id /\ w.phase = "relaying" /\ w.method = "sponsored"
          /\ w.visit = a.visit /\ w.order = a.order /\ w.tx = signC.value
      BY <1>1, <1>2, <3>1 DEF PayAttempt
    <3>3. attempts' = (attempts \ {a}) \cup {w} /\ UNCHANGED <<screen, shown>>
      BY <2>2 DEF Pay!OpenSignTransactionUrl, Pay!Moved, Pay!Without
    <3> HIDE DEF w
    <3> QED BY <2>2, <3>1, <3>2, <3>3
  <2>3. CASE signC # NoOne /\ ~signC.done
    <3> DEFINE w == [a EXCEPT !.phase = "waiting", !.tx = NoOne]
    <3>1. /\ w \in PayAttempt /\ w.id = a.id /\ w.phase = "waiting" /\ w.method = "sponsored"
          /\ w.visit = a.visit /\ w.order = a.order
      BY <1>1, <1>2 DEF PayAttempt
    <3>2. attempts' = (attempts \ {a}) \cup {w} /\ UNCHANGED <<screen, shown>>
      BY <2>3 DEF Pay!OpenSignTransactionUrl, Pay!Moved, Pay!Without
    <3> HIDE DEF w
    <3> QED BY <2>3, <3>1, <3>2
  <2> QED BY <2>1, <2>2, <2>3
<1>4. /\ SameScreen /\ shown' = shown
      /\ screen # NoOne => screen'.paid = screen.paid
      /\ signC # NoOne => screen' = screen
  <2>1. CASE signC = NoOne /\ Pay!Show(a.visit, NoOne)
    BY <1>2, <2>1, ShowIs
  <2>2. CASE signC # NoOne /\ UNCHANGED <<screen, shown>>
    BY <1>2, <2>2 DEF SameScreen, PayTypes
  <2> QED BY <1>3, <2>1, <2>2
<1>5. \A p \in asks' : p \in asks \/ (p \in PayPrompt /\ p.kind = "sign" /\ p.tx.id = a.id /\ p.tx.order = a.order)
  BY <1>1, <1>2, AskIs
<1>6. \A b \in attempts' : \/ b \in attempts /\ b # a
                           \/ /\ b \in PayAttempt /\ b.id = a.id /\ b.method = "sponsored"
                              /\ b.visit = a.visit /\ b.order = a.order
                              /\ \/ b.phase = "waiting"
                                 \/ /\ b.phase = "relaying" /\ signC # NoOne /\ signC.done
                                    /\ b.tx = signC.value /\ b.tx \in PayTx
  BY <1>3
<1>7. PayTypes'
  BY <1>1, <1>2, <1>4, <1>5, <1>6 DEF PayTypes, SameScreen
<1>8. OnePlace'
  <2>1. \A n \in Nat : Building(n)' => Building(n)
    BY <1>6 DEF Building
  <2>2. \A n \in Nat : InWallet(n)' => InWallet(n)
    BY <1>5 DEF InWallet
  <2>3. \A n \in Nat : Sponsored(n)' => Sponsored(n)
    BY <1>1, <1>5, <1>6 DEF Sponsored
  <2>4. \A n \in Nat : /\ Completes(n)' <=> Completes(n)
                       /\ Returning(n)' <=> Returning(n)
                       /\ Asked(n)' <=> Asked(n)
                       /\ Proof(n)' <=> Proof(n)
                       /\ Paid(n)' <=> Paid(n)
    BY <1>1, <1>4 DEF Completes, Returning, Asked, Paid, Proof
  <2> QED BY <1>1, <2>1, <2>2, <2>3, <2>4, OnlyLeaving DEF Leaving
<1>9. OneOfAKind'
  <2>1. \A b, c \in attempts' : b.id = c.id => b = c
    BY <1>3 DEF PayInv, OneOfAKind
  <2> QED BY <1>1, <1>5, <1>6, <2>1 DEF PayInv, OneOfAKind
<1>10. ShownOnce'
  BY <1>1, <1>4, ShowsNothing DEF Completes
<1>11. Pay!ShownOrderIsPaid'
  BY <1>1, <1>4, StillPaid
<1>12. OfThisScreen'
  <2>1. CASE left
    BY <1>1, <2>1 DEF OfThisScreen
  <2>2. CASE ~left
    <3>1. /\ signC = Pay!Pending /\ screen # NoOne /\ screen.busy
          /\ a.visit = screen.visit /\ a.order = screen.order
          /\ attempts = {a} /\ requests = {}
          /\ \A p \in asks : p.kind = "connect"
          /\ \A l \in links : l.host = "wallet_connect"
      BY <1>1, <2>2 DEF PayInv, OfThisScreen
    <3>2. signC # NoOne
      BY <3>1, PayConstants
    <3>3. PICK w \in PayAttempt :
              /\ w.method = "sponsored" /\ w.visit = a.visit /\ w.order = a.order /\ w.phase = "waiting"
              /\ attempts' = (attempts \ {a}) \cup {w}
      BY <1>3, <3>1, <3>2
    <3>4. attempts' = {w} /\ screen' = screen
      BY <1>4, <3>1, <3>2, <3>3
    <3>5. \A p, r \in asks' : p.kind # "connect" /\ r.kind # "connect" => p = r
      <4>1. \A p \in asks' : p.kind # "connect" => p = [kind |-> "sign", tx |-> Pay!Tx(a)]
        BY <1>1, <1>2, <3>1, AskIs
      <4> QED BY <4>1
    <3>6. \A p \in asks' : p.kind # "connect" => p.kind = "sign" /\ p.tx.order = screen.order
      BY <1>5, <3>1
    <3> QED BY <1>1, <3>1, <3>3, <3>4, <3>5, <3>6 DEF OfThisScreen
  <2> QED BY <2>1, <2>2
<1> QED
  BY <1>7, <1>8, <1>9, <1>10, <1>11, <1>12 DEF PayInv

\* The relayer answers.
LEMMA PostSponsorStep ==
    ASSUME PayInv, NEW a \in attempts, Pay!PostSponsor(a)
    PROVE  PayInv'
<1>1. /\ a.phase = "relaying" /\ attempts' = attempts \ {a}
      /\ UNCHANGED <<visits, payC, signC, confirmed, asks, links, requests, hash, relayer, left>>
  BY DEF Pay!PostSponsor, Pay!Without, Pay!service
<1>2. PayTypes /\ a \in PayAttempt /\ a.tx \in PayTx /\ a.tx.id \in Nat /\ a.visit \in Nat
  BY <1>1 DEF PayInv, PayTypes, PayAttempt, PayTx
<1>3. PICK k \in Nat : k = a.tx.id
  BY <1>2
<1>4. Sponsored(k) /\ k =< confirmed
  <2>1. Sponsored(k)
    BY <1>1, <1>3 DEF Sponsored
  <2> QED BY <2>1 DEF PayInv, OnePlace
<1>5. \/ /\ ~Paid(k) /\ landed' = landed \cup {[id |-> a.tx.id, order |-> a.tx.order, visit |-> a.tx.visit]}
         /\ Pay!Show(a.visit, k) \/ Pay!Show(a.visit, NoOne)
      \/ landed' = landed /\ Pay!Show(a.visit, NoOne)
  BY <1>3 DEF Pay!PostSponsor, Pay!Accepted, Paid
<1>6. /\ landed \subseteq landed' /\ \A q \in landed' : q \in landed \/ q.id = k
      /\ landed' # landed => ~Paid(k) /\ \E q \in landed' : q.id = k /\ q.order = a.tx.order
  <2> DEFINE q == [id |-> a.tx.id, order |-> a.tx.order, visit |-> a.tx.visit]
  <2>1. q.id = k /\ q.order = a.tx.order
    BY <1>3
  <2>2. (~Paid(k) /\ landed' = landed \cup {q}) \/ landed' = landed
    BY <1>5
  <2> HIDE DEF q
  <2> QED BY <2>1, <2>2
<1>7. /\ SameScreen
      /\ screen # NoOne /\ screen.visit = a.visit => ~screen'.busy
      /\ \/ shown' = shown
         \/ /\ screen # NoOne /\ screen.visit = a.visit /\ ~Paid(k) /\ landed' # landed
            /\ shown' = shown \cup {[visit |-> a.visit, proof |-> k]}
      /\ \/ screen # NoOne => screen'.paid = screen.paid
         \/ ~Paid(k) /\ landed' # landed /\ screen # NoOne /\ screen.visit = a.visit
  <2>1. CASE Pay!Show(a.visit, NoOne)
    BY <1>2, <2>1, ShowIs
  <2>2. CASE /\ ~Paid(k) /\ landed' = landed \cup {[id |-> a.tx.id, order |-> a.tx.order, visit |-> a.tx.visit]}
             /\ Pay!Show(a.visit, k)
    <3>1. landed' # landed
      <4> DEFINE q == [id |-> a.tx.id, order |-> a.tx.order, visit |-> a.tx.visit]
      <4>1. q \in landed' /\ q.id = k
        BY <1>3, <2>2
      <4>2. q \notin landed
        BY <2>2, <4>1 DEF Paid
      <4> QED BY <4>1, <4>2
    <3>2. /\ SameScreen
          /\ screen # NoOne /\ screen.visit = a.visit => ~screen'.busy
          /\ screen = NoOne \/ screen.visit # a.visit => screen' = screen /\ shown' = shown
          /\ \/ shown' = shown
             \/ screen # NoOne /\ screen.visit = a.visit /\ shown' = shown \cup {[visit |-> a.visit, proof |-> k]}
      BY <1>2, <2>2, ShowIs
    <3> QED BY <2>2, <3>1, <3>2
  <2> QED BY <1>5, <2>1, <2>2
<1>8. PayTypes'
  BY <1>1, <1>2, <1>7 DEF PayTypes, SameScreen
<1>9. OnePlace'
  <2>1. \A n \in Nat : /\ Building(n)' => Building(n)
                       /\ Sponsored(n)' => Sponsored(n)
                       /\ InWallet(n)' <=> InWallet(n)
                       /\ Completes(n)' <=> Completes(n)
                       /\ Returning(n)' <=> Returning(n)
                       /\ Asked(n)' <=> Asked(n)
    BY <1>1 DEF Building, Sponsored, InWallet, Completes, Returning, Asked
  <2>2. \A n \in Nat : /\ Paid(n) => Paid(n)'
                       /\ Paid(n)' => Paid(n) \/ n = k
                       /\ landed' # landed => Paid(k)'
    BY <1>6 DEF Paid
  <2>3. \A n \in Nat : Proof(n)' => Proof(n) \/ (n = k /\ landed' # landed)
    BY <1>7 DEF Proof
  <2> QED BY <1>1, <1>4, <2>1, <2>2, <2>3 DEF PayInv, OnePlace
<1>10. OneOfAKind'
  BY <1>1, <1>6 DEF PayInv, OneOfAKind
<1>11. ShownOnce'
  <2>1. CASE shown' = shown
    BY <1>1, <1>7, <2>1, ShowsNothing DEF Completes
  <2>2. CASE /\ screen # NoOne /\ screen.visit = a.visit /\ ~Paid(k)
             /\ shown' = shown \cup {[visit |-> a.visit, proof |-> k]}
    <3>1. ~Proof(k)
      BY <2>2 DEF PayInv, OnePlace
    <3> QED BY <1>1, <1>7, <2>2, <3>1, ShowsNew DEF Completes
  <2> QED BY <1>7, <2>1, <2>2
<1>12. CASE left
  <2>1. OfThisScreen' /\ Pay!ShownOrderIsPaid'
    BY <1>1, <1>12 DEF OfThisScreen, Pay!ShownOrderIsPaid
  <2> QED BY <1>8, <1>9, <1>10, <1>11, <2>1 DEF PayInv
<1>13. CASE ~left
  <2>1. /\ screen # NoOne /\ a.visit = screen.visit /\ a.tx.order = screen.order
        /\ attempts = {a} /\ requests = {}
        /\ \A p \in asks : p.kind = "connect"
        /\ \A l \in links : l.host = "wallet_connect"
    BY <1>1, <1>13 DEF PayInv, OfThisScreen
  <2>2. OfThisScreen'
    <3>1. attempts' = {} /\ requests' = {}
      BY <1>1, <2>1
    <3> QED BY <1>1, <2>1, <3>1 DEF OfThisScreen
  <2>3. Pay!ShownOrderIsPaid'
    <3>1. CASE landed' # landed
      <4>1. \E q \in landed' : q.order = screen'.order
        BY <1>6, <1>7, <2>1, <3>1 DEF SameScreen
      <4> QED BY <4>1 DEF Pay!ShownOrderIsPaid
    <3>2. CASE landed' = landed
      BY <1>1, <1>7, <2>1, <3>2, StillPaid
    <3> QED BY <3>1, <3>2
  <2> QED BY <1>8, <1>9, <1>10, <1>11, <2>2, <2>3 DEF PayInv
<1> QED
  BY <1>12, <1>13

\* The wallet pays, and answers with the signature.
LEMMA WalletPaysStep ==
    ASSUME PayInv, NEW p \in asks, Pay!WalletPays(p)
    PROVE  PayInv'
<1>1. PayTypes /\ p \in PayPrompt /\ p.kind = "pay"
  BY DEF PayInv, PayTypes, Pay!WalletPays
<1>2. p.tx \in PayTx /\ p.tx.id \in Nat
  BY <1>1 DEF PayPrompt, PayTx
<1>3. PICK k \in Nat : k = p.tx.id
  BY <1>2
<1> DEFINE q == [id |-> p.tx.id, order |-> p.tx.order, visit |-> p.tx.visit]
           u == [host |-> "direct_pay", value |-> p.tx.id]
<1>4. /\ landed' = landed \cup {q} /\ asks' = asks \ {p} /\ links' = links \cup {u}
      /\ UNCHANGED <<screen, visits, payC, signC, attempts, confirmed, requests, hash, relayer, shown, left>>
  BY DEF Pay!WalletPays, Pay!Answer, Pay!service, Pay!history
<1>5. q.id = k /\ q.order = p.tx.order /\ u \in PayLink /\ u.host = "direct_pay" /\ u.value = k
  BY <1>2, <1>3 DEF PayLink
<1> HIDE DEF q, u
<1>6. InWallet(k) /\ ~Proof(k) /\ k =< confirmed
  <2>1. InWallet(k)
    BY <1>1, <1>3 DEF InWallet
  <2> QED BY <2>1 DEF PayInv, OnePlace
<1>7. PayTypes'
  BY <1>1, <1>4, <1>5 DEF PayTypes
<1>8. OnePlace'
  <2>1. \A n \in Nat : InWallet(n)' => InWallet(n) /\ n # k
    <3>1. \A r \in asks : r.kind = "pay" /\ r.tx.id = k => r = p
      BY <1>1, <1>3 DEF PayInv, OneOfAKind
    <3> QED BY <1>4, <3>1 DEF InWallet
  <2>2. \A n \in Nat : Returning(n)' => Returning(n) \/ n = k
    BY <1>4, <1>5 DEF Returning
  <2>3. \A n \in Nat : /\ Paid(n) => Paid(n)'
                       /\ Paid(n)' => Paid(n) \/ n = k
                       /\ Paid(k)'
    BY <1>4, <1>5 DEF Paid
  <2>4. \A n \in Nat : /\ Building(n)' => Building(n)
                       /\ Sponsored(n)' => Sponsored(n)
                       /\ Completes(n)' <=> Completes(n)
                       /\ Asked(n)' <=> Asked(n)
                       /\ Proof(n)' <=> Proof(n)
    BY <1>4, <1>5 DEF Building, Sponsored, Completes, Asked, Proof
  <2> QED BY <1>4, <1>6, <2>1, <2>2, <2>3, <2>4 DEF PayInv, OnePlace
<1>9. OneOfAKind'
  BY <1>4 DEF PayInv, OneOfAKind
<1>10. ShownOnce'
  BY <1>4 DEF PayInv, ShownOnce, Completes
<1>11. Pay!ShownOrderIsPaid'
  BY <1>4 DEF PayInv, Pay!ShownOrderIsPaid
<1>12. OfThisScreen'
  <2>1. CASE left
    BY <1>4, <2>1 DEF OfThisScreen
  <2>2. CASE ~left
    <3>1. /\ p.tx.order = screen.order
          /\ \E a \in attempts : a.phase = "waiting" /\ a.method = "local_wallet"
          /\ \A r \in asks : r.kind # "connect" => r = p
          /\ \A l \in links : l.host = "wallet_connect"
      BY <1>1, <2>2 DEF PayInv, OfThisScreen
    <3>2. /\ \A r \in asks' : r.kind = "connect"
          /\ \A l \in links' : l.host # "wallet_connect" => l = u
      BY <1>4, <3>1
    <3>3. u.value # NoOne => \E w \in landed' : w.id = u.value /\ w.order = screen.order
      BY <1>4, <1>5, <3>1
    <3>4. /\ \A a \in attempts :
                /\ screen # NoOne /\ screen.busy
                /\ a.visit = screen.visit /\ a.order = screen.order
                /\ a.phase # "relaying" /\ a.method = "local_wallet" => payC = Pay!Pending
                /\ a.phase # "relaying" /\ a.method = "sponsored" => signC = Pay!Pending
                /\ a.phase = "relaying" => a.tx.order = screen.order
          /\ \A a, b \in attempts : a = b
          /\ requests # {} => screen # NoOne /\ screen.busy /\ attempts = {}
          /\ \A r, t \in requests : r = t
      BY <2>2 DEF PayInv, OfThisScreen
    <3> QED BY <1>4, <1>5, <3>1, <3>2, <3>3, <3>4 DEF OfThisScreen
  <2> QED BY <2>1, <2>2
<1> QED
  BY <1>7, <1>8, <1>9, <1>10, <1>11, <1>12 DEF PayInv

\* The wallet signs, and answers with the transaction, or refuses.
LEMMA WalletAnswersStep ==
    ASSUME PayInv, NEW p \in asks, NEW u \in PayLink, p.kind # "connect",
           asks' = asks \ {p}, links' = links \cup {u},
           u.host = IF p.kind = "pay" THEN "direct_pay" ELSE "sponsored_sign",
           u.value # NoOne => p.kind = "sign" /\ u.tx = p.tx,
           UNCHANGED <<screen, visits, payC, signC, attempts, confirmed, requests, landed, hash,
                       relayer, shown, left>>
    PROVE  PayInv'
<1>1. PayTypes /\ p \in PayPrompt /\ p.kind \in {"pay", "sign"} /\ u.host # "wallet_connect"
  BY DEF PayInv, PayTypes, PayPrompt
<1>2. PayTypes'
  BY <1>1 DEF PayTypes
<1>3. OnePlace'
  <2>1. \A n \in Nat : Returning(n)' => Returning(n)
    BY PayConstants DEF Returning
  <2>2. \A n \in Nat : Sponsored(n)' => Sponsored(n)
    BY DEF Sponsored
  <2>3. \A n \in Nat : /\ Building(n)' => Building(n)
                       /\ InWallet(n)' => InWallet(n)
                       /\ Completes(n)' <=> Completes(n)
                       /\ Asked(n)' <=> Asked(n)
                       /\ Proof(n)' <=> Proof(n)
                       /\ Paid(n)' <=> Paid(n)
    BY DEF Building, InWallet, Completes, Asked, Proof, Paid
  <2> QED BY <2>1, <2>2, <2>3, OnlyLeaving DEF Leaving
<1>4. OneOfAKind' /\ ShownOnce' /\ Pay!ShownOrderIsPaid'
  BY DEF PayInv, OneOfAKind, ShownOnce, Completes, Pay!ShownOrderIsPaid
<1>5. OfThisScreen'
  <2>1. CASE left
    BY <2>1 DEF OfThisScreen
  <2>2. CASE ~left
    <3>1. /\ p.tx.order = screen.order
          /\ \E a \in attempts : a.phase = "waiting" /\ a.method = IF u.host = "direct_pay" THEN "local_wallet" ELSE "sponsored"
          /\ \A r \in asks : r.kind # "connect" => r = p
          /\ \A l \in links : l.host = "wallet_connect"
      BY <1>1, <2>2 DEF PayInv, OfThisScreen
    <3>2. /\ \A r \in asks' : r.kind = "connect"
          /\ \A l \in links' : l.host # "wallet_connect" => l = u
      BY <3>1
    <3>3. /\ \A a \in attempts :
                /\ screen # NoOne /\ screen.busy
                /\ a.visit = screen.visit /\ a.order = screen.order
                /\ a.phase # "relaying" /\ a.method = "local_wallet" => payC = Pay!Pending
                /\ a.phase # "relaying" /\ a.method = "sponsored" => signC = Pay!Pending
                /\ a.phase = "relaying" => a.tx.order = screen.order
          /\ \A a, b \in attempts : a = b
          /\ requests # {} => screen # NoOne /\ screen.busy /\ attempts = {}
          /\ \A r, t \in requests : r = t
      BY <2>2 DEF PayInv, OfThisScreen
    <3>4. /\ u.host = "direct_pay" => u.value = NoOne
          /\ u.value # NoOne => u.tx.order = screen.order
      BY <1>1, <3>1
    <3> QED BY <3>1, <3>2, <3>3, <3>4 DEF OfThisScreen
  <2> QED BY <2>1, <2>2
<1> QED
  BY <1>2, <1>3, <1>4, <1>5 DEF PayInv

LEMMA WalletSignsStep ==
    ASSUME PayInv, NEW p \in asks, Pay!WalletSigns(p)
    PROVE  PayInv'
<1> DEFINE u == [host |-> "sponsored_sign", value |-> p.tx.id, tx |-> p.tx]
<1>1. p \in PayPrompt /\ p.kind = "sign"
  BY DEF PayInv, PayTypes, Pay!WalletSigns
<1>2. p.tx \in PayTx /\ p.tx.id \in Nat
  BY <1>1 DEF PayPrompt, PayTx
<1>3. u \in PayLink /\ u.host = "sponsored_sign" /\ u.tx = p.tx
  BY <1>2 DEF PayLink
<1>4. /\ asks' = asks \ {p} /\ links' = links \cup {u}
      /\ UNCHANGED <<screen, visits, payC, signC, attempts, confirmed, requests, landed, hash,
                     relayer, shown, left>>
  BY DEF Pay!WalletSigns, Pay!Answer, Pay!service, Pay!outside, Pay!history
<1> HIDE DEF u
<1> QED
  BY <1>1, <1>3, <1>4, WalletAnswersStep

LEMMA WalletRefusesStep ==
    ASSUME PayInv, NEW p \in asks, Pay!WalletRefuses(p)
    PROVE  PayInv'
<1>1. /\ asks' = asks \ {p}
      /\ UNCHANGED <<screen, visits, payC, signC, attempts, confirmed, requests, landed, hash,
                     relayer, shown, left>>
  BY DEF Pay!WalletRefuses, Pay!service, Pay!outside, Pay!history
<1>2. hash \in Nat /\ relayer \in Nat
  BY DEF PayInv, PayTypes
<1>3. CASE p.kind = "connect"
  <2>1. links' = links
    BY <1>3 DEF Pay!WalletRefuses
  <2> QED BY <1>1, <1>2, <2>1, QuietPay
<1>4. CASE p.kind # "connect"
  <2> DEFINE u == [host |-> IF p.kind = "pay" THEN "direct_pay" ELSE "sponsored_sign", value |-> NoOne]
  <2>1. links' = links \cup {u}
    BY <1>4 DEF Pay!WalletRefuses
  <2>2. /\ u \in PayLink /\ u.value = NoOne
        /\ u.host = IF p.kind = "pay" THEN "direct_pay" ELSE "sponsored_sign"
    BY DEF PayLink
  <2> HIDE DEF u
  <2> QED BY <1>1, <1>4, <2>1, <2>2, WalletAnswersStep
<1> QED
  BY <1>3, <1>4

\* An answer of the wallet reaches the handler of a payment.
LEMMA PaymentCallbackStep ==
    ASSUME PayInv, NEW l \in links, Pay!HandlePaymentCallback(l)
    PROVE  PayInv'
<1>1. /\ links' = links \ {l} /\ Pay!CompletePayment(l.value) /\ Pay!HandlerOf(l) = "direct_pay"
      /\ UNCHANGED <<visits, signC, confirmed, asks, requests, landed, hash, relayer, left>>
  BY DEF Pay!HandlePaymentCallback, Pay!outside, Pay!history
<1>2. PayTypes /\ l \in PayLink
  BY DEF PayInv, PayTypes
<1>3. /\ l.host = "direct_pay" \/ (l.host = "sponsored_sign" /\ l.value = NoOne)
      /\ l.value \in Nat \cup {NoOne}
  BY <1>1, <1>2 DEF Pay!HandlerOf, PayLink
<1>4. CASE payC # Pay!Pending
  <2>1. UNCHANGED <<payC, attempts, screen, shown>>
    BY <1>1, <1>4 DEF Pay!CompletePayment
  <2>2. hash \in Nat /\ relayer \in Nat
    BY <1>2 DEF PayTypes
  <2> QED BY <1>1, <2>1, <2>2, QuietPay
<1>5. CASE payC = Pay!Pending
  <2> DEFINE v == l.value
  <2>1. /\ payC' = Pay!Completed(v)
        /\ attempts' = {a \in attempts : ~(a.phase = "waiting" /\ a.method = "local_wallet")}
        /\ \/ Pay!Show(screen.visit, v) /\ screen # NoOne
           \/ UNCHANGED <<screen, shown>> /\ ~\E a \in attempts : /\ a.phase = "waiting" /\ a.method = "local_wallet"
                                                                  /\ screen # NoOne /\ a.visit = screen.visit
    BY <1>1, <1>5 DEF Pay!CompletePayment, Pay!Waiting
  <2>2. screen # NoOne
    BY <1>2, <1>5, PayConstants DEF PayTypes
  <2>3. /\ SameScreen
        /\ v = NoOne => shown' = shown /\ screen'.paid = screen.paid
        /\ shown' = shown \/ (v # NoOne /\ shown' = shown \cup {[visit |-> screen.visit, proof |-> v]})
        /\ screen' = screen \/ ~screen'.busy
    <3>1. CASE Pay!Show(screen.visit, v)
      BY <1>2, <2>2, <3>1, ShowIs
    <3>2. CASE UNCHANGED <<screen, shown>>
      BY <1>2, <3>2 DEF SameScreen, PayTypes
    <3> QED BY <2>1, <3>1, <3>2
  <2>4. v # NoOne => v \in Nat /\ l.host = "direct_pay" /\ Returning(v) /\ ~Proof(v) /\ Paid(v)
    <3>1. v # NoOne => v \in Nat /\ Returning(v)
      BY <1>3 DEF Returning
    <3> QED BY <1>3, <3>1 DEF PayInv, OnePlace
  <2>5. \A n \in Nat : Completes(n)' => v = n /\ v # NoOne
    BY <2>1, PayConstants DEF Completes
  <2> HIDE DEF v
  <2>6. PayTypes'
    <3>1. v \in Nat \cup {NoOne}
      BY <2>4
    <3> QED BY <1>1, <1>2, <2>1, <2>2, <2>3, <3>1 DEF PayTypes, SameScreen
  <2>7. OnePlace'
    <3>1. \A n \in Nat : /\ Building(n)' => Building(n)
                         /\ Sponsored(n)' => Sponsored(n)
                         /\ InWallet(n)' <=> InWallet(n)
                         /\ Asked(n)' <=> Asked(n)
                         /\ Paid(n)' <=> Paid(n)
      BY <1>1, <2>1 DEF Building, Sponsored, InWallet, Asked, Paid
    <3>2. \A n \in Nat : Returning(n)' => Returning(n) /\ n # v
      <4>1. \A m \in links : m.host = "direct_pay" /\ m.value = v /\ v # NoOne => m = l
        <5> SUFFICES ASSUME NEW m \in links, m.host = "direct_pay", m.value = v, v # NoOne
                     PROVE  m = l
          OBVIOUS
        <5>1. m \in [host : {"direct_pay"}, value : Nat \cup {NoOne}] /\ l \in [host : {"direct_pay"}, value : Nat \cup {NoOne}]
          BY <1>2, <2>4 DEF PayTypes, PayLink
        <5>2. m = [host |-> m.host, value |-> m.value] /\ l = [host |-> l.host, value |-> l.value]
          BY <5>1
        <5> QED BY <2>4, <5>2 DEF v
      <4> QED BY <1>1, <4>1, PayConstants DEF Returning
    <3>3. \A n \in Nat : Proof(n)' => Proof(n) \/ (n = v /\ v # NoOne)
      BY <2>3 DEF Proof
    <3> QED BY <1>1, <2>4, <2>5, <3>1, <3>2, <3>3 DEF PayInv, OnePlace
  <2>8. OneOfAKind'
    BY <1>1, <2>1 DEF PayInv, OneOfAKind
  <2>9. ShownOnce'
    <3>1. CASE v = NoOne
      BY <2>3, <2>5, <3>1, ShowsNothing
    <3>2. CASE v # NoOne
      BY <2>2, <2>3, <2>4, <2>5, <3>2, ShowsNew
    <3> QED BY <3>1, <3>2
  <2>10. CASE left
    <3>1. OfThisScreen' /\ Pay!ShownOrderIsPaid'
      BY <1>1, <2>10 DEF OfThisScreen, Pay!ShownOrderIsPaid
    <3> QED BY <2>6, <2>7, <2>8, <2>9, <3>1 DEF PayInv
  <2>11. CASE ~left
    <3>1. /\ \A p \in asks : p.kind = "connect"
          /\ \A m \in links' : m.host = "wallet_connect"
          /\ \A r, t \in requests : r = t
          /\ requests # {} => attempts = {}
          /\ l.host = "direct_pay" /\ l.value # NoOne => \E q \in landed : q.id = l.value /\ q.order = screen.order
      BY <1>1, <1>3, <2>11 DEF PayInv, OfThisScreen
    <3>2. PICK a \in attempts : /\ a.phase = "waiting" /\ attempts = {a} /\ screen.busy
                                /\ a.visit = screen.visit /\ a.order = screen.order
                                /\ a.method = IF l.host = "direct_pay" THEN "local_wallet" ELSE "sponsored"
                                /\ a.method = "sponsored" => signC = Pay!Pending
      BY <1>3, <2>11 DEF PayInv, OfThisScreen
    <3>3. requests = {}
      BY <3>1, <3>2
    <3>4. OfThisScreen'
      <4>1. CASE l.host = "direct_pay"
        <5>1. attempts' = {}
          BY <2>1, <3>2, <4>1
        <5> QED BY <1>1, <3>1, <3>3, <5>1 DEF OfThisScreen
      <4>2. CASE l.host # "direct_pay"
        <5>1. attempts' = {a} /\ a.method = "sponsored"
          BY <2>1, <3>2, <4>2
        <5>2. v = NoOne
          BY <2>4, <4>2
        <5>3. screen' = screen
          <6>1. \A b \in attempts : b.method = "sponsored"
            BY <3>2, <4>2
          <6>2. \/ UNCHANGED screen
                \/ \E b \in attempts : b.phase = "waiting" /\ b.method = "local_wallet"
            BY <1>1, <1>5 DEF Pay!CompletePayment, Pay!Waiting
          <6> QED BY <6>1, <6>2
        <5> QED BY <1>1, <2>2, <3>1, <3>2, <3>3, <5>1, <5>3 DEF OfThisScreen
      <4> QED BY <4>1, <4>2
    <3>5. Pay!ShownOrderIsPaid'
      <4>1. CASE v = NoOne
        BY <1>1, <2>3, <4>1, StillPaid
      <4>2. CASE v # NoOne
        <5>1. \E q \in landed' : q.order = screen'.order
          BY <1>1, <2>2, <2>3, <2>4, <3>1, <4>2 DEF SameScreen, v
        <5> QED BY <5>1 DEF Pay!ShownOrderIsPaid
      <4> QED BY <4>1, <4>2
    <3> QED BY <2>6, <2>7, <2>8, <2>9, <3>4, <3>5 DEF PayInv
  <2> QED BY <2>10, <2>11
<1> QED
  BY <1>4, <1>5

\* A signed transaction reaches the handler of a sponsored payment.
LEMMA SponsoredCallbackStep ==
    ASSUME PayInv, NEW l \in links, Pay!HandleSponsoredSignCallback(l)
    PROVE  PayInv'
<1>1. /\ links' = links \ {l} /\ Pay!HandlerOf(l) = "sponsored_sign"
      /\ UNCHANGED <<screen, visits, payC, confirmed, asks, requests, landed, hash, relayer, shown, left>>
  BY DEF Pay!HandleSponsoredSignCallback, Pay!outside, Pay!history
<1>2. PayTypes /\ l \in PayLink
  BY DEF PayInv, PayTypes
<1>3. l.host = "sponsored_sign" /\ l.value # NoOne /\ l.tx \in PayTx
  BY <1>1, <1>2 DEF Pay!HandlerOf, PayLink
<1>4. CASE signC # Pay!Pending
  <2>1. UNCHANGED <<signC, attempts>>
    BY <1>4 DEF Pay!HandleSponsoredSignCallback
  <2>2. hash \in Nat /\ relayer \in Nat
    BY <1>2 DEF PayTypes
  <2> QED BY <1>1, <2>1, <2>2, QuietPay
<1>5. CASE signC = Pay!Pending
  <2> DEFINE Sent(a) == [a EXCEPT !.phase = "relaying", !.tx = l.tx]
  <2>1. /\ signC' = Pay!Completed(l.tx)
        /\ attempts' = {a \in attempts : ~(a.phase = "waiting" /\ a.method = "sponsored")} \cup
                          {Sent(a) : a \in {b \in attempts : b.phase = "waiting" /\ b.method = "sponsored"}}
    BY <1>5 DEF Pay!HandleSponsoredSignCallback, Pay!Waiting
  <2>2. \A a \in attempts : a.phase = "waiting" /\ a.method = "sponsored" =>
           /\ Sent(a) \in PayAttempt /\ Sent(a).id = a.id /\ Sent(a).phase = "relaying" /\ Sent(a).tx = l.tx
           /\ Sent(a).method = a.method /\ Sent(a).visit = a.visit /\ Sent(a).order = a.order
    <3>1. \A a \in attempts : a \in PayAttempt
      BY <1>2 DEF PayTypes
    <3> QED BY <1>3, <3>1 DEF PayAttempt
  <2> HIDE DEF Sent
  <2>3. \A b \in attempts' : \/ b \in attempts /\ ~(b.phase = "waiting" /\ b.method = "sponsored")
                             \/ /\ b \in PayAttempt /\ b.phase = "relaying" /\ b.tx = l.tx /\ b.method = "sponsored"
                                /\ \E a \in attempts : /\ b = Sent(a) /\ b.id = a.id /\ a.phase = "waiting"
                                                       /\ b.visit = a.visit /\ b.order = a.order
    BY <2>1, <2>2
  <2>4. PayTypes'
    <3>1. attempts' \subseteq PayAttempt /\ \A a \in attempts' : a.phase = "relaying" => a.tx \in PayTx
      BY <1>2, <1>3, <2>3 DEF PayTypes
    <3> QED BY <1>1, <1>2, <1>3, <2>1, <3>1 DEF PayTypes
  <2>5. OnePlace'
    <3>1. \A n \in Nat : Sponsored(n)' => Sponsored(n)
      <4>1. signC'.value = l.tx
        BY <2>1, PayConstants
      <4> QED BY <1>1, <1>3, <2>3, <4>1 DEF Sponsored
    <3>2. \A n \in Nat : Building(n)' => Building(n)
      BY <2>3 DEF Building
    <3>3. \A n \in Nat : /\ InWallet(n)' <=> InWallet(n)
                         /\ Returning(n)' => Returning(n)
                         /\ Completes(n)' <=> Completes(n)
                         /\ Asked(n)' <=> Asked(n)
                         /\ Proof(n)' <=> Proof(n)
                         /\ Paid(n)' <=> Paid(n)
      BY <1>1 DEF InWallet, Returning, Completes, Asked, Proof, Paid
    <3> QED BY <1>1, <3>1, <3>2, <3>3, OnlyLeaving DEF Leaving
  <2>6. OneOfAKind'
    <3>1. ASSUME NEW b \in attempts', NEW c \in attempts', b.id = c.id
          PROVE  b = c
      <4> DEFINE Signed(a) == a.phase = "waiting" /\ a.method = "sponsored"
      <4>1. ASSUME NEW d \in attempts'
            PROVE  \E a \in attempts : d.id = a.id /\ d = IF Signed(a) THEN Sent(a) ELSE a
        <5>1. CASE d \in attempts /\ ~Signed(d)
          BY <5>1
        <5>2. CASE \E a \in attempts : Signed(a) /\ d = Sent(a)
          <6>1. PICK a \in attempts : Signed(a) /\ d = Sent(a)
            BY <5>2
          <6>2. d.id = a.id
            BY <2>2, <6>1
          <6> HIDE DEF Signed
          <6> QED BY <6>1, <6>2
        <5> QED BY <2>1, <5>1, <5>2
      <4> HIDE DEF Signed
      <4>2. PICK a \in attempts : b.id = a.id /\ b = IF Signed(a) THEN Sent(a) ELSE a
        BY <4>1
      <4>3. PICK d \in attempts : c.id = d.id /\ c = IF Signed(d) THEN Sent(d) ELSE d
        BY <4>1
      <4>4. a = d
        <5>1. a.id = d.id
          BY <3>1, <4>2, <4>3
        <5> QED BY <5>1, ZenonT(40) DEF PayInv, OneOfAKind
      <4> QED BY <4>2, <4>3, <4>4
    <3>2. \A b \in attempts' : b.id =< confirmed
      BY <2>3 DEF PayInv, OneOfAKind
    <3> QED BY <1>1, <3>1, <3>2 DEF PayInv, OneOfAKind
  <2>7. ShownOnce' /\ Pay!ShownOrderIsPaid'
    BY <1>1 DEF PayInv, ShownOnce, Completes, Pay!ShownOrderIsPaid
  <2>8. OfThisScreen'
    <3>1. CASE left
      BY <1>1, <3>1 DEF OfThisScreen
    <3>2. CASE ~left
      <4>1. /\ \A p \in asks : p.kind = "connect"
            /\ \A m \in links' : m.host = "wallet_connect"
            /\ \A r, t \in requests : r = t
            /\ requests # {} => attempts = {}
            /\ l.tx.order = screen.order /\ screen # NoOne
        BY <1>1, <1>3, <3>2 DEF PayInv, OfThisScreen
      <4>2. PICK a \in attempts : /\ a.phase = "waiting" /\ attempts = {a} /\ screen.busy
                                  /\ a.visit = screen.visit /\ a.order = screen.order
                                  /\ a.method = "sponsored"
        BY <1>3, <3>2 DEF PayInv, OfThisScreen
      <4>3. \A b \in attempts' : /\ b = Sent(a) /\ b.phase = "relaying" /\ b.tx = l.tx
                                 /\ b.visit = screen.visit /\ b.order = screen.order
        BY <2>3, <4>2
      <4>4. requests = {}
        BY <4>1, <4>2
      <4> QED BY <1>1, <4>1, <4>2, <4>3, <4>4 DEF OfThisScreen
    <3> QED BY <3>1, <3>2
  <2> QED BY <2>4, <2>5, <2>6, <2>7, <2>8 DEF PayInv
<1> QED
  BY <1>4, <1>5

\* The MCP server answers a request.
LEMMA McpAnswersStep ==
    ASSUME PayInv, NEW r \in requests, Pay!McpAnswers(r)
    PROVE  PayInv'
<1>1. PayTypes /\ r \in PayRequest /\ r.result = "asked"
  BY DEF PayInv, PayTypes, Pay!McpAnswers
<1>2. PICK res \in {"paid", "failed"} :
          /\ requests' = (requests \ {r}) \cup {[r EXCEPT !.result = res]}
          /\ \/ landed' = landed \cup {[id |-> r.id, order |-> r.order, visit |-> r.visit]}
             \/ res = "failed" /\ landed' = landed
  BY DEF Pay!McpAnswers, Pay!QrPaymentResponse
<1>3. UNCHANGED <<screen, visits, payC, signC, attempts, confirmed, asks, links, hash, relayer, shown, left>>
  BY DEF Pay!McpAnswers, Pay!service, Pay!history
<1> DEFINE u == [r EXCEPT !.result = res]
           q == [id |-> r.id, order |-> r.order, visit |-> r.visit]
<1>4. /\ u \in PayRequest /\ u.id = r.id /\ u.order = r.order /\ u.result = res
      /\ q.id = r.id /\ q.order = r.order
  BY <1>1 DEF PayRequest
<1>5. requests' = (requests \ {r}) \cup {u} /\ (landed' = landed \cup {q} \/ (res = "failed" /\ landed' = landed))
  BY <1>2
<1> HIDE DEF u, q
<1>6. PICK k \in Nat : k = r.id
  BY <1>1 DEF PayRequest
<1>7. Asked(k) /\ k =< confirmed
  <2>1. Asked(k)
    BY <1>6 DEF Asked
  <2> QED BY <2>1 DEF PayInv, OnePlace
<1>8. PayTypes'
  BY <1>1, <1>3, <1>4, <1>5 DEF PayTypes
<1>9. OnePlace'
  <2>1. \A n \in Nat : Asked(n)' => Asked(n)
    BY <1>4, <1>5 DEF Asked
  <2>2. \A n \in Nat : /\ Paid(n) => Paid(n)'
                       /\ Paid(n)' => Paid(n) \/ n = k
    BY <1>4, <1>5, <1>6 DEF Paid
  <2>3. \A n \in Nat : /\ Building(n)' <=> Building(n)
                       /\ InWallet(n)' <=> InWallet(n)
                       /\ Returning(n)' <=> Returning(n)
                       /\ Completes(n)' <=> Completes(n)
                       /\ Sponsored(n)' <=> Sponsored(n)
                       /\ Proof(n)' <=> Proof(n)
    BY <1>3 DEF Building, InWallet, Returning, Completes, Sponsored, Proof
  <2> QED BY <1>3, <1>7, <2>1, <2>2, <2>3 DEF PayInv, OnePlace
<1>10. OneOfAKind'
  <2>1. \A s, t \in requests' : s.id = t.id => s = t
    BY <1>4, <1>5 DEF PayInv, OneOfAKind
  <2>2. \A t \in requests' : t.result = "paid" => \E w \in landed' : w.id = t.id /\ w.order = t.order
    BY <1>4, <1>5 DEF PayInv, OneOfAKind
  <2> QED BY <1>3, <2>1, <2>2 DEF PayInv, OneOfAKind
<1>11. ShownOnce'
  BY <1>3 DEF PayInv, ShownOnce, Completes
<1>12. landed \subseteq landed'
  BY <1>5
<1>13. Pay!ShownOrderIsPaid'
  BY <1>3, <1>12 DEF PayInv, Pay!ShownOrderIsPaid
<1>14. OfThisScreen'
  <2>1. CASE left
    BY <1>3, <2>1 DEF OfThisScreen
  <2>2. CASE ~left
    <3>1. /\ requests = {r} /\ screen # NoOne /\ screen.busy /\ attempts = {}
          /\ \A p \in asks : p.kind = "connect"
          /\ \A l \in links : l.host = "wallet_connect"
      BY <2>2 DEF PayInv, OfThisScreen
    <3>2. requests' = {u}
      BY <1>5, <3>1
    <3> QED BY <1>3, <3>1, <3>2 DEF OfThisScreen
  <2> QED BY <2>1, <2>2
<1> QED
  BY <1>8, <1>9, <1>10, <1>11, <1>13, <1>14 DEF PayInv

\* The answer of the MCP server is shown, or dropped.
LEMMA QrResultStep ==
    ASSUME PayInv, NEW r \in requests, Pay!OnQrPaymentResult(r)
    PROVE  PayInv'
<1>1. PayTypes /\ r \in PayRequest /\ r.result # "asked"
  BY DEF PayInv, PayTypes, Pay!OnQrPaymentResult
<1>2. /\ requests' = requests \ {r}
      /\ UNCHANGED <<visits, payC, signC, attempts, confirmed, asks, links, landed, hash, relayer, left>>
  BY DEF Pay!OnQrPaymentResult, Pay!service, Pay!outside, Pay!history
<1>3. PICK k \in Nat : k = r.id
  BY <1>1 DEF PayRequest
<1>4. k # NoOne
  BY PayConstants
<1>5. PICK e : /\ e = IF r.result = "paid" THEN k ELSE NoOne
               /\ \/ screen # NoOne /\ screen.order = r.order /\ Pay!Show(screen.visit, e)
                  \/ ~(screen # NoOne /\ screen.order = r.order) /\ UNCHANGED <<screen, shown>>
  BY <1>3 DEF Pay!OnQrPaymentResult
<1>6. /\ SameScreen
      /\ \/ shown' = shown
         \/ screen # NoOne /\ e = k /\ shown' = shown \cup {[visit |-> screen.visit, proof |-> k]}
      /\ \/ screen # NoOne => screen'.paid = screen.paid
         \/ screen # NoOne /\ screen.order = r.order /\ r.result = "paid"
  <2>1. CASE screen # NoOne /\ screen.order = r.order /\ Pay!Show(screen.visit, e)
    BY <1>1, <1>4, <1>5, <2>1, ShowIs
  <2>2. CASE UNCHANGED <<screen, shown>>
    BY <1>1, <2>2 DEF SameScreen, PayTypes
  <2> QED BY <1>5, <2>1, <2>2
<1>7. /\ Asked(k) /\ ~Proof(k) /\ (e = k => Paid(k))
      /\ r.result = "paid" => \E q \in landed : q.id = k /\ q.order = r.order
  <2>1. Asked(k)
    BY <1>3 DEF Asked
  <2>2. r.result = "paid" => \E q \in landed : q.id = k /\ q.order = r.order
    BY <1>3 DEF PayInv, OneOfAKind
  <2>3. e = k => r.result = "paid"
    BY <1>4, <1>5
  <2> QED BY <2>1, <2>2, <2>3 DEF PayInv, OnePlace, Paid
<1>8. PayTypes'
  BY <1>1, <1>2, <1>6 DEF PayTypes, SameScreen
<1>9. OnePlace'
  <2>1. \A n \in Nat : Asked(n)' => Asked(n) /\ n # k
    BY <1>2, <1>3 DEF Asked, PayInv, OneOfAKind
  <2>2. \A n \in Nat : Proof(n)' => Proof(n) \/ (n = k /\ e = k)
    BY <1>6 DEF Proof
  <2>3. \A n \in Nat : /\ Building(n)' <=> Building(n)
                       /\ InWallet(n)' <=> InWallet(n)
                       /\ Returning(n)' <=> Returning(n)
                       /\ Completes(n)' <=> Completes(n)
                       /\ Sponsored(n)' <=> Sponsored(n)
                       /\ Paid(n)' <=> Paid(n)
    BY <1>2 DEF Building, InWallet, Returning, Completes, Sponsored, Paid
  <2> QED BY <1>2, <1>7, <2>1, <2>2, <2>3 DEF PayInv, OnePlace
<1>10. OneOfAKind'
  BY <1>2 DEF PayInv, OneOfAKind
<1>11. ShownOnce'
  <2>1. \A n \in Nat : Completes(n)' => Completes(n)
    BY <1>2 DEF Completes
  <2> QED BY <1>6, <1>7, <2>1, ShowsNew
<1>12. Pay!ShownOrderIsPaid'
  <2>1. CASE screen # NoOne => screen'.paid = screen.paid
    BY <1>2, <1>6, <2>1, StillPaid
  <2>2. CASE screen # NoOne /\ screen.order = r.order /\ r.result = "paid"
    <3>1. \E q \in landed' : q.order = screen'.order
      BY <1>2, <1>6, <1>7, <2>2 DEF SameScreen
    <3> QED BY <3>1 DEF Pay!ShownOrderIsPaid
  <2> QED BY <1>6, <2>1, <2>2
<1>13. OfThisScreen'
  <2>1. CASE left
    BY <1>2, <2>1 DEF OfThisScreen
  <2>2. CASE ~left
    <3>1. /\ requests = {r} /\ screen # NoOne /\ attempts = {}
          /\ \A p \in asks : p.kind = "connect"
          /\ \A l \in links : l.host = "wallet_connect"
      BY <2>2 DEF PayInv, OfThisScreen
    <3>2. requests' = {}
      BY <1>2, <3>1
    <3> QED BY <1>2, <3>1, <3>2 DEF OfThisScreen
  <2> QED BY <2>1, <2>2
<1> QED
  BY <1>8, <1>9, <1>10, <1>11, <1>12, <1>13 DEF PayInv

LEMMA PayInit == Pay!Init => PayInv
<1> SUFFICES ASSUME Pay!Init PROVE PayInv
  OBVIOUS
<1> USE DEF Pay!Init
<1>1. PayTypes
  BY DEF PayTypes
<1>2. OnePlace
  <2>1. \A n \in Nat : /\ ~Building(n) /\ ~InWallet(n) /\ ~Returning(n) /\ ~Completes(n)
                       /\ ~Sponsored(n) /\ ~Asked(n) /\ ~Proof(n) /\ ~Paid(n)
    BY PayConstants DEF Building, InWallet, Returning, Completes, Sponsored, Asked, Proof, Paid
  <2> QED BY <2>1 DEF OnePlace
<1>3. OneOfAKind /\ ShownOnce /\ OfThisScreen /\ Pay!ShownOrderIsPaid
  BY DEF OneOfAKind, ShownOnce, OfThisScreen, Pay!ShownOrderIsPaid
<1> QED
  BY <1>1, <1>2, <1>3 DEF PayInv

LEMMA PayStep ==
    ASSUME PayInv, [Pay!Next]_payVars
    PROVE  PayInv'
<1>0. hash \in Nat /\ relayer \in Nat
  BY DEF PayInv, PayTypes
<1>1. CASE Pay!ScreenStep
  <2>1. ASSUME NEW o \in Orders, Pay!OpenScreen(o) PROVE PayInv'
    BY <2>1, OpenScreenStep
  <2>2. CASE Pay!Leave
    BY <2>2, LeaveStep
  <2>3. CASE Pay!ConnectWallet
    <3>1. /\ UNCHANGED <<screen, visits, payC, signC, attempts, confirmed, requests, landed, shown, left, links, hash, relayer>>
          /\ asks' = asks \cup {[kind |-> "connect"]}
      BY <2>3 DEF Pay!ConnectWallet, Pay!outside, Pay!history
    <3> QED BY <1>0, <3>1, QuietPay
  <2>4. ASSUME NEW t \in PayTokens, Pay!ExecutePayment(t) PROVE PayInv'
    <3>1. /\ Pay!Idle /\ confirmed' = confirmed + 1
          /\ UNCHANGED <<visits, asks, links, landed, hash, relayer, left>>
      BY <2>4 DEF Pay!ExecutePayment, Pay!Confirm, Pay!outside, Pay!history
    <3>2. CASE Pay!Begin("local_wallet", t) /\ payC' = Pay!Pending /\ signC' = signC
      BY <3>1, <3>2, BeginStep
    <3>3. CASE Pay!NotConnected
      BY <3>1, <3>3, NotConnectedStep
    <3> QED BY <2>4, <3>2, <3>3 DEF Pay!ExecutePayment
  <2>5. ASSUME NEW t \in PayTokens, Pay!ExecuteSponsoredPayment(t) PROVE PayInv'
    <3>1. /\ Pay!Idle /\ confirmed' = confirmed + 1
          /\ UNCHANGED <<visits, asks, links, landed, hash, relayer, left>>
      BY <2>5 DEF Pay!ExecuteSponsoredPayment, Pay!Confirm, Pay!outside, Pay!history
    <3>2. CASE Pay!Begin("sponsored", t) /\ signC' = Pay!Pending /\ payC' = payC
      BY <3>1, <3>2, BeginStep
    <3>3. CASE Pay!NotConnected
      BY <3>1, <3>3, NotConnectedStep
    <3> QED BY <2>5, <3>2, <3>3 DEF Pay!ExecuteSponsoredPayment
  <2>6. CASE Pay!SendQrPaymentRequest
    BY <2>6, QrRequestStep
  <2>7. CASE Pay!ConfirmMbPayment
    BY <2>7, VoucherStep
  <2> QED BY <1>1, <2>1, <2>2, <2>3, <2>4, <2>5, <2>6, <2>7 DEF Pay!ScreenStep
<1>2. ASSUME NEW a \in attempts, Pay!ServiceStep(a) PROVE PayInv'
  BY <1>2, BuildFailsStep, OpenSignUrlStep, OpenSignTransactionUrlStep, PostSponsorStep DEF Pay!ServiceStep
<1>3. ASSUME NEW p \in asks, Pay!WalletStep(p) PROVE PayInv'
  <2>1. CASE Pay!WalletConnects(p)
    <3>1. /\ UNCHANGED <<screen, visits, payC, signC, attempts, confirmed, requests, landed, shown, left, hash, relayer>>
          /\ asks' = asks \ {p} /\ links' = links \cup {[host |-> "wallet_connect"]}
      BY <2>1 DEF Pay!WalletConnects, Pay!Answer, Pay!service, Pay!outside, Pay!history
    <3> QED BY <1>0, <3>1, QuietPay
  <2>2. CASE Pay!WalletPays(p) \/ Pay!WalletSigns(p) \/ Pay!WalletRefuses(p)
    BY <2>2, WalletPaysStep, WalletSignsStep, WalletRefusesStep
  <2> QED BY <1>3, <2>1, <2>2 DEF Pay!WalletStep
<1>4. ASSUME NEW l \in links, Pay!LinkStep(l) \/ Pay!LoseLink(l) PROVE PayInv'
  <2>1. CASE Pay!HandleConnectCallback(l) \/ Pay!LoseLink(l)
    <3>1. /\ UNCHANGED <<screen, visits, payC, signC, attempts, confirmed, requests, landed, shown, left, hash, relayer, asks>>
          /\ links' = links \ {l}
      BY <2>1 DEF Pay!HandleConnectCallback, Pay!LoseLink, Pay!service, Pay!outside, Pay!history
    <3> QED BY <1>0, <3>1, QuietPay
  <2>2. CASE Pay!HandlePaymentCallback(l) \/ Pay!HandleSponsoredSignCallback(l)
    BY <2>2, PaymentCallbackStep, SponsoredCallbackStep
  <2> QED BY <1>4, <2>1, <2>2 DEF Pay!LinkStep
<1>5. CASE Pay!RelayerRestarts \/ Pay!NewBlockhash
  <2>1. /\ UNCHANGED <<screen, visits, payC, signC, attempts, confirmed, requests, landed, shown, left, asks, links>>
        /\ hash' \in {hash, hash + 1} /\ relayer' \in {relayer, relayer + 1}
    BY <1>5 DEF Pay!RelayerRestarts, Pay!NewBlockhash, Pay!service, Pay!history
  <2> QED BY <1>0, <2>1, QuietPay
<1>6. ASSUME NEW r \in requests, Pay!McpAnswers(r) \/ Pay!OnQrPaymentResult(r) PROVE PayInv'
  BY <1>6, McpAnswersStep, QrResultStep
<1>7. CASE UNCHANGED payVars
  BY <1>0, <1>7, QuietPay DEF payVars
<1> QED
  BY <1>1, <1>2, <1>3, <1>4, <1>5, <1>6, <1>7 DEF Pay!Next

\* A proof shown as "paid" is the signature of a payment that took the money,
\* one payment is shown as paid once, whichever screen its answer reaches, and
\* as long as nobody leaves a payment under way the order shown as paid is the
\* one that was paid (direct_payment_service.dart: one completer per kind of
\* request, answers that name no order; qr_payment_screen.dart).
THEOREM ProofsShownArePaid == PartsSpec => []ShownOrderIsPaid
<1>1. PartsInit => PayInv
  BY PayInit DEF PartsInit
<1>2. PayInv /\ [PartsNext]_partsVars => PayInv'
  <2> SUFFICES ASSUME PayInv, [PartsNext]_partsVars PROVE PayInv'
    OBVIOUS
  <2>1. [Pay!Next]_payVars
    BY DEF PartsNext, partsVars
  <2> QED BY <2>1, PayStep
<1>3. PayInv => ShownOrderIsPaid
  <2> SUFFICES ASSUME PayInv PROVE ShownOrderIsPaid
    OBVIOUS
  <2>1. \A s \in shown : s.proof \in Nat /\ Proof(s.proof)
    BY DEF PayInv, ShownOnce, Proof
  <2>2. \A s \in shown : Paid(s.proof)
    BY <2>1 DEF PayInv, OnePlace
  <2> QED BY <2>2 DEF PayInv, ShownOnce, Paid, ShownOrderIsPaid, Pay!ProofsAreOfPayments
<1> QED
  BY <1>1, <1>2, <1>3, PTL DEF PartsSpec

-----------------------------------------------------------------------------
(* The log and its copy on IPFS.                                             *)

LogChunk == [id : Nat, prev : Nat \cup {NoOne}, entries : SUBSET Nat, iv : Nat]

LogTypes ==
    /\ table \in Seq(BOOLEAN) /\ syncs \in Nat
    /\ manifest \in Seq(LogChunk) /\ returned \in Seq(LogChunk)
    /\ call # NoOne => call \in [step : {"chunk", "manifest"}, chunk : LogChunk]

\* What is marked is a prefix of the table, ...
MarkedFirst == \A n \in DOMAIN table : \A k \in 1 .. n : table[n] => table[k]

\* ... and what a call has packed is all that was not marked up to its last row.
PackedInFull ==
    call # NoOne =>
        /\ call.chunk.entries # {} /\ call.chunk.entries \subseteq DOMAIN table
        /\ \A e \in call.chunk.entries : \A k \in 1 .. e : table[k] \/ k \in call.chunk.entries

\* The chunk of a call follows the manifest, and is its last once it is listed.
ChunkFits ==
    call # NoOne =>
        IF call.step = "chunk" THEN Log!ChainHolds(Append(manifest, call.chunk))
        ELSE manifest # <<>> /\ manifest[Len(manifest)] = call.chunk

LogInv ==
    /\ LogTypes /\ MarkedFirst /\ PackedInFull /\ ChunkFits
    /\ Log!ChainHolds(manifest) /\ Log!ChainHolds(returned)
    /\ SyncedIsRestorable

\* Among subsets of a finite set there is one that includes no other.
LEMMA SmallestSet ==
    ASSUME NEW S, IsFiniteSet(S), NEW Q \in SUBSET SUBSET S, Q # {}
    PROVE  \E T \in Q : \A U \in Q : U \subseteq T => U = T
<1>1. Q \subseteq FiniteSubsetsOf(S)
  BY FS_FiniteSubsetsOfFinite
<1>2. PICK T \in Q : \A U \in Q : <<U, T>> \notin StrictSubsetOrdering(S)
  BY <1>1, FS_StrictSubsetOrderingWellFounded, WFMin
<1> QED
  BY <1>2 DEF StrictSubsetOrdering

\* A finite set of naturals that is not empty has a greatest element.
LEMMA GreatestOf ==
    ASSUME NEW S, IsFiniteSet(S), S # {}, \A s \in S : s \in Nat
    PROVE  \E k \in S : \A j \in S : k >= j
<1> DEFINE Above(k) == {j \in S : j >= k}
           Q == {Above(k) : k \in S}
<1>1. Q \in SUBSET SUBSET S
  OBVIOUS
<1>2. PICK T \in Q : \A U \in Q : U \subseteq T => U = T
  <2>1. Q # {}
    OBVIOUS
  <2> HIDE DEF Q
  <2> QED
    BY <1>1, <2>1, SmallestSet
<1>3. PICK k \in S : \A U \in Q : U \subseteq Above(k) => U = Above(k)
  BY <1>2
<1>4. ASSUME NEW j \in S, ~(k >= j) PROVE FALSE
  <2>1. j \in Nat /\ k \in Nat /\ j > k
    BY <1>4
  <2>2. \A i \in S : i >= j => i >= k
    BY <2>1
  <2>3. ~(k >= j) /\ k >= k
    BY <2>1
  <2>4. Above(j) = Above(k)
    BY <1>3, <2>2
  <2> QED
    BY <2>3, <2>4
<1> QED
  BY <1>4

LEMMA GreatestIs ==
    ASSUME NEW n \in Nat, NEW S \in SUBSET (1 .. n), S # {}
    PROVE  Log!Latest(S) \in S /\ \A k \in S : k <= Log!Latest(S)
<1>1. IsFiniteSet(1 .. n)
  BY FS_Interval
<1>2. IsFiniteSet(S)
  BY <1>1, FS_Subset
<1>3. \E k \in S : \A j \in S : k >= j
  <2>1. \A s \in S : s \in Nat
    OBVIOUS
  <2> QED BY <1>2, <2>1, GreatestOf, Zenon
<1>4. \E k \in S : \A j \in S : j <= k
  BY <1>3
<1> QED
  BY <1>4, Zenon DEF Log!Latest

LEMMA SyncCallStep ==
    ASSUME LogInv, Log!SyncToIpfs
    PROVE  LogInv'
<1> DEFINE c == Log!NextChunk
<1>1. /\ call' = [step |-> "chunk", chunk |-> c] /\ syncs' = syncs + 1
      /\ Log!UnsyncedEntries(Log!LastSyncedNonce) # {}
      /\ UNCHANGED <<table, manifest, returned, uploaded>>
  BY DEF Log!SyncToIpfs
<1>2. /\ c.entries = Log!UnsyncedEntries(Log!LastSyncedNonce) /\ c.iv = syncs
      /\ manifest # <<>> => c.prev = manifest[Len(manifest)].iv
  BY DEF Log!NextChunk, Log!BuildChunk, Log!ChunkHash, Log!Last
<1>3. c.entries \subseteq DOMAIN table /\ DOMAIN table = 1 .. Len(table) /\ Len(table) \in Nat
  BY <1>2 DEF Log!UnsyncedEntries, LogInv, LogTypes
<1>4. c \in LogChunk
  <2>1. CASE manifest = <<>>
    BY <1>3, <2>1 DEF Log!NextChunk, Log!BuildChunk, LogInv, LogTypes, LogChunk
  <2>2. CASE manifest # <<>>
    <3>1. manifest[Len(manifest)] \in LogChunk
      BY <2>2 DEF LogInv, LogTypes
    <3> QED
      BY <1>3, <2>2, <3>1 DEF Log!NextChunk, Log!BuildChunk, Log!ChunkHash, Log!Last, LogInv, LogTypes, LogChunk
  <2> QED BY <2>1, <2>2
<1> HIDE DEF c
<1>5. \A e \in c.entries : \A k \in 1 .. e : table[k] \/ k \in c.entries
  <2> SUFFICES ASSUME NEW e \in c.entries, NEW k \in 1 .. e, k \notin c.entries PROVE table[k]
    OBVIOUS
  <2>1. k \in DOMAIN table /\ e \in Nat
    BY <1>3
  <2>2. CASE Log!Synced = {}
    <3>1. Log!LastSyncedNonce = 0
      BY <2>2 DEF Log!LastSyncedNonce
    <3> QED BY <1>2, <2>1, <3>1 DEF Log!UnsyncedEntries
  <2>3. CASE Log!Synced # {}
    <3>1. Log!Synced \in SUBSET (1 .. Len(table))
      BY <1>3 DEF Log!Synced
    <3>2. Log!LastSyncedNonce \in Log!Synced
      BY <1>3, <2>3, <3>1, GreatestIs DEF Log!LastSyncedNonce
    <3>3. CASE k <= Log!LastSyncedNonce
      BY <1>3, <2>1, <3>2, <3>3 DEF LogInv, MarkedFirst, Log!Synced
    <3>4. CASE ~(k <= Log!LastSyncedNonce)
      <4>1. Log!LastSyncedNonce \in Nat
        BY <1>3, <3>2 DEF Log!Synced
      <4>2. k > Log!LastSyncedNonce
        BY <2>1, <3>4, <4>1
      <4> QED BY <1>2, <2>1, <4>2 DEF Log!UnsyncedEntries
    <3> QED BY <3>3, <3>4
  <2> QED BY <2>2, <2>3
<1>6. Log!ChainHolds(Append(manifest, c))
  BY <1>2, <1>4 DEF LogInv, LogTypes, Log!ChainHolds, Log!ChunkHash
<1>7. LogTypes'
  BY <1>1, <1>4 DEF LogInv, LogTypes
<1>8. MarkedFirst' /\ SyncedIsRestorable'
  BY <1>1 DEF LogInv, MarkedFirst, SyncedIsRestorable, Log!SyncedIsRestorable, Log!Synced
<1>9. PackedInFull' /\ ChunkFits'
  BY <1>1, <1>2, <1>3, <1>5, <1>6 DEF PackedInFull, ChunkFits
<1>10. Log!ChainHolds(manifest)' /\ Log!ChainHolds(returned)'
  BY <1>1 DEF LogInv, Log!ChainHolds
<1> QED
  BY <1>7, <1>8, <1>9, <1>10 DEF LogInv

\* The rows of a call are marked once the manifest that lists them is on IPFS.
LEMMA MarkStep ==
    ASSUME LogInv, call # NoOne, call.step = "manifest", call' = NoOne,
           table' = Log!MarkSynced(Log!Latest(call.chunk.entries)),
           uploaded' = uploaded \cup {manifest}, UNCHANGED syncs,
           returned' \in {returned, manifest}, manifest' \in {manifest, returned}
    PROVE  LogInv'
<1> DEFINE es == call.chunk.entries
           top == Log!Latest(es)
<1>1. table \in Seq(BOOLEAN) /\ Len(table) \in Nat /\ DOMAIN table = 1 .. Len(table)
  BY DEF LogInv, LogTypes
<1>2. es # {} /\ es \in SUBSET (1 .. Len(table))
  BY <1>1 DEF LogInv, PackedInFull
<1>3. top \in es /\ top \in 1 .. Len(table)
  BY <1>1, <1>2, GreatestIs
<1>4. \A k \in 1 .. top : table[k] \/ k \in es
  BY <1>3 DEF LogInv, PackedInFull
<1>5. manifest # <<>> /\ manifest[Len(manifest)] = call.chunk /\ Log!ChainHolds(manifest)
  BY DEF LogInv, ChunkFits
<1>6. es \subseteq Log!Entries(manifest)
  BY <1>5 DEF LogInv, LogTypes, Log!Entries
<1> HIDE DEF top
<1>7. table' = [n \in 1 .. Len(table) |-> table[n] \/ n <= top]
  BY <1>1 DEF top, Log!MarkSynced
<1>8. LogTypes'
  BY <1>1, <1>7 DEF LogInv, LogTypes
<1>9. MarkedFirst'
  BY <1>1, <1>3, <1>7 DEF LogInv, MarkedFirst
<1>10. SyncedIsRestorable'
  <2> SUFFICES ASSUME NEW n \in 1 .. Len(table), table'[n]
               PROVE  \E m \in uploaded' : Log!ChainHolds(m) /\ n \in Log!Entries(m)
    BY <1>7 DEF SyncedIsRestorable, Log!SyncedIsRestorable, Log!Synced, Log!ChainHolds, Log!Entries, Log!ChunkHash
  <2>1. CASE table[n]
    <3>1. n \in Log!Synced
      BY <1>1, <2>1 DEF Log!Synced
    <3> QED BY <3>1 DEF LogInv, SyncedIsRestorable, Log!SyncedIsRestorable
  <2>2. CASE ~table[n]
    <3>1. n <= top
      BY <1>7, <2>2
    <3>2. n \in es
      BY <1>3, <1>4, <2>2, <3>1
    <3> QED BY <1>5, <1>6, <3>2
  <2> QED BY <2>1, <2>2
<1>11. Log!ChainHolds(manifest)' /\ Log!ChainHolds(returned)'
  BY DEF LogInv, Log!ChainHolds, Log!ChunkHash
<1> QED
  BY <1>8, <1>9, <1>10, <1>11 DEF LogInv, PackedInFull, ChunkFits

LEMMA LogStep ==
    ASSUME LogInv, [Log!Next]_logVars
    PROVE  LogInv'
<1>0. table \in Seq(BOOLEAN) /\ Len(table) \in Nat /\ DOMAIN table = 1 .. Len(table)
  BY DEF LogInv, LogTypes
<1>1. CASE Log!RecordTransaction
  <2>1. table' = Append(table, FALSE) /\ UNCHANGED <<manifest, returned, call, uploaded, syncs>>
    BY <1>1 DEF Log!RecordTransaction
  <2>2. /\ DOMAIN table' = 1 .. Len(table) + 1
        /\ \A k \in 1 .. Len(table) : table'[k] = table[k]
        /\ table'[Len(table) + 1] = FALSE
    BY <1>0, <2>1
  <2>3. LogTypes'
    BY <2>1 DEF LogInv, LogTypes
  <2>4. MarkedFirst' /\ PackedInFull'
    BY <1>0, <2>1, <2>2 DEF LogInv, MarkedFirst, PackedInFull
  <2>5. ChunkFits' /\ Log!ChainHolds(manifest)' /\ Log!ChainHolds(returned)'
    BY <2>1 DEF LogInv, ChunkFits, Log!ChainHolds, Log!ChunkHash
  <2>6. Log!Synced' = Log!Synced
    BY <1>0, <2>2 DEF Log!Synced
  <2>7. SyncedIsRestorable'
    BY <2>1, <2>6 DEF LogInv, SyncedIsRestorable, Log!SyncedIsRestorable
  <2> QED BY <2>3, <2>4, <2>5, <2>7 DEF LogInv
<1>2. CASE Log!UploadChunk
  <2>1. call # NoOne /\ call.step = "chunk" /\ UNCHANGED <<table, returned, uploaded, syncs>>
    BY <1>2 DEF Log!UploadChunk
  <2>2. call.chunk \in LogChunk /\ call = [step |-> "chunk", chunk |-> call.chunk]
    BY <2>1 DEF LogInv, LogTypes
  <2>3. MarkedFirst' /\ SyncedIsRestorable' /\ Log!ChainHolds(returned)'
    BY <2>1 DEF LogInv, MarkedFirst, SyncedIsRestorable, Log!SyncedIsRestorable, Log!Synced, Log!ChainHolds
  <2>4. CASE call' = [call EXCEPT !.step = "manifest"] /\ manifest' = Log!AddManifestEntry(call.chunk)
    <3>1. manifest' = Append(manifest, call.chunk) /\ call' = [step |-> "manifest", chunk |-> call.chunk]
      BY <2>2, <2>4 DEF Log!AddManifestEntry
    <3>2. LogTypes'
      BY <2>1, <2>2, <3>1 DEF LogInv, LogTypes
    <3>3. PackedInFull'
      BY <2>1, <3>1 DEF LogInv, PackedInFull
    <3>4. ChunkFits'
      <4>1. manifest' # <<>> /\ manifest'[Len(manifest')] = call.chunk
        BY <2>2, <3>1 DEF LogInv, LogTypes
      <4>2. call'.step = "manifest" /\ call'.chunk = call.chunk
        BY <3>1
      <4> QED BY <4>1, <4>2 DEF ChunkFits
    <3>5. Log!ChainHolds(manifest)'
      BY <2>1, <3>1 DEF LogInv, ChunkFits, Log!ChainHolds, Log!ChunkHash
    <3> QED BY <2>3, <3>2, <3>3, <3>4, <3>5 DEF LogInv
  <2>5. CASE call' = NoOne /\ UNCHANGED manifest
    BY <2>1, <2>3, <2>5 DEF LogInv, LogTypes, PackedInFull, ChunkFits, Log!ChainHolds
  <2> QED BY <1>2, <2>4, <2>5 DEF Log!UploadChunk
<1>3. ASSUME call' = NoOne, UNCHANGED <<table, syncs, returned>>, uploaded \subseteq uploaded',
             manifest' \in {manifest, returned}
      PROVE  LogInv'
  BY <1>3 DEF LogInv, LogTypes, MarkedFirst, PackedInFull, ChunkFits, SyncedIsRestorable,
      Log!SyncedIsRestorable, Log!Synced, Log!ChainHolds, Log!ChunkHash
<1>4. CASE Log!UploadManifest
  BY <1>3, <1>4, MarkStep DEF Log!UploadManifest
<1>5. CASE Log!ReturnIsLost
  BY <1>5, MarkStep DEF Log!ReturnIsLost
<1>6. CASE Log!Restart
  BY <1>3, <1>6 DEF Log!Restart
<1>7. CASE Log!Restore \/ UNCHANGED logVars
  <2>1. UNCHANGED <<table, manifest, returned, call, uploaded, syncs>>
    BY <1>7 DEF Log!Restore, logVars
  <2> QED
    BY <2>1 DEF LogInv, LogTypes, MarkedFirst, PackedInFull, ChunkFits, SyncedIsRestorable,
        Log!SyncedIsRestorable, Log!Synced, Log!ChainHolds, Log!ChunkHash
<1>8. CASE Log!SyncToIpfs
  BY <1>8, SyncCallStep
<1> QED
  BY <1>1, <1>2, <1>4, <1>5, <1>6, <1>7, <1>8 DEF Log!Next

\* A row of the phone's log that is marked as synced can be restored: some
\* manifest on IPFS lists a chunk that holds it, in a chain that holds, though
\* uploads fail half way, rows are recorded while they run and the phone may
\* restart at any point (log_store.rs, sync_to_ipfs and mark_synced).
THEOREM MarkedRowsAreRestorable == PartsSpec => []SyncedIsRestorable
<1>1. PartsInit => LogInv
  <2> SUFFICES ASSUME PartsInit PROVE LogInv
    OBVIOUS
  <2>1. table = <<>> /\ manifest = <<>> /\ returned = <<>> /\ call = NoOne /\ uploaded = {} /\ syncs = 0
    BY DEF PartsInit, Log!Init
  <2> QED
    BY <2>1 DEF LogInv, LogTypes, MarkedFirst, PackedInFull, ChunkFits, SyncedIsRestorable,
        Log!SyncedIsRestorable, Log!Synced, Log!ChainHolds, Log!ChunkHash
<1>2. LogInv /\ [PartsNext]_partsVars => LogInv'
  <2> SUFFICES ASSUME LogInv, [PartsNext]_partsVars PROVE LogInv'
    OBVIOUS
  <2>1. [Log!Next]_logVars
    BY DEF PartsNext, partsVars
  <2> QED BY <2>1, LogStep
<1>3. LogInv => SyncedIsRestorable
  BY DEF LogInv
<1> QED
  BY <1>1, <1>2, <1>3, PTL DEF PartsSpec

-----------------------------------------------------------------------------
(* Catching up with a mediator that keeps its queues in memory.              *)

\* The queue holds the messages that were deposited last.
Gone == Len(deposited) - Len(queue)
NewestHeld ==
    /\ Len(queue) <= Len(deposited)
    /\ \A i \in 1 .. Len(queue) : queue[i] = deposited[Gone + i]

DepositedOnce ==
    \A i, j \in 1 .. Len(deposited) : deposited[i] = deposited[j] => i = j

\* All that the queue still holds of the first x deposits was processed.
ReadUpTo(x) == \A j \in 1 .. x : j > Gone => \E k \in 1 .. Len(processed) : processed[k] = deposited[j]

ReadTo(m) == \E x \in 1 .. Len(deposited) : deposited[x] = m /\ ReadUpTo(x)

\* A page lists messages as they were deposited, and what comes before is read.
PageFrom(page, a) ==
    /\ a + Len(page) <= Len(deposited)
    /\ \A i \in 1 .. Len(page) : page[i] = deposited[a + i]
    /\ ReadUpTo(a)

SyncTypes ==
    /\ queue \in Seq(Messages) /\ deposited \in Seq(Messages) /\ processed \in Seq(Messages)
    /\ cursor \in Messages \cup {NoOne} /\ pull \in [Pulls -> Sync!Pull]

PullRead(x) ==
    /\ x.pc = "asked" /\ x.after # NoOne => ReadTo(x.after)
    /\ x.pc = "processing" /\ x.page # <<>> => \E a \in 0 .. Len(deposited) : PageFrom(x.page, a)

SyncInv ==
    /\ SyncTypes /\ NewestHeld /\ DepositedOnce
    /\ cursor # NoOne => ReadTo(cursor)
    /\ \A p \in Pulls : PullRead(pull[p])

\* A step that only adds to what was deposited and processed, and keeps or
\* drops the oldest messages of the queue.
Grows ==
    /\ Gone <= Gone' /\ Len(deposited) <= Len(deposited)' /\ Len(processed) <= Len(processed)'
    /\ \A j \in 1 .. Len(deposited) : deposited'[j] = deposited[j]
    /\ \A k \in 1 .. Len(processed) : processed'[k] = processed[k]

SyncSizes == Len(queue) \in Nat /\ Len(deposited) \in Nat /\ Len(processed) \in Nat /\ Gone \in Int

LEMMA Sizes == ASSUME SyncTypes PROVE SyncSizes
  BY DEF SyncTypes, SyncSizes, Gone

\* What is read stays read.
LEMMA StaysRead ==
    ASSUME SyncTypes, SyncTypes', Grows
    PROVE  /\ \A x \in 0 .. Len(deposited) : ReadUpTo(x) => ReadUpTo(x)'
           /\ \A m : ReadTo(m) => ReadTo(m)'
           /\ \A page \in Seq(Messages) : \A a \in 0 .. Len(deposited) : PageFrom(page, a) => PageFrom(page, a)'
<1> USE DEF Grows
<1>1. SyncSizes /\ SyncSizes'
  BY Sizes DEF SyncTypes, SyncSizes, Gone
<1>2. ASSUME NEW x \in 0 .. Len(deposited), ReadUpTo(x) PROVE ReadUpTo(x)'
  <2> SUFFICES ASSUME NEW j \in 1 .. x, j > Gone'
               PROVE  \E k \in 1 .. Len(processed)' : processed'[k] = deposited'[j]
    BY DEF ReadUpTo
  <2>1. j > Gone /\ j \in 1 .. Len(deposited)
    BY <1>1 DEF SyncSizes
  <2>2. PICK k \in 1 .. Len(processed) : processed[k] = deposited[j]
    BY <1>2, <2>1 DEF ReadUpTo
  <2>3. k \in 1 .. Len(processed)' /\ processed'[k] = deposited'[j]
    BY <1>1, <2>1, <2>2 DEF SyncSizes
  <2> QED BY <2>3
<1>3. ASSUME NEW m, ReadTo(m) PROVE ReadTo(m)'
  <2>1. PICK x \in 1 .. Len(deposited) : deposited[x] = m /\ ReadUpTo(x)
    BY <1>3 DEF ReadTo
  <2>2. x \in 0 .. Len(deposited) /\ x \in 1 .. Len(deposited)'
    BY <1>1, <2>1 DEF SyncSizes
  <2>3. deposited'[x] = m /\ ReadUpTo(x)'
    BY <1>2, <2>1, <2>2
  <2> QED BY <2>2, <2>3 DEF ReadTo
<1>4. ASSUME NEW page \in Seq(Messages), NEW a \in 0 .. Len(deposited), PageFrom(page, a)
      PROVE  PageFrom(page, a)'
  <2>1. Len(page) \in Nat /\ a + Len(page) <= Len(deposited) /\ ReadUpTo(a)'
    BY <1>2, <1>4 DEF PageFrom
  <2>2. a + Len(page) <= Len(deposited)'
    BY <1>1, <2>1 DEF SyncSizes
  <2>3. ASSUME NEW i \in 1 .. Len(page) PROVE page[i] = deposited'[a + i]
    <3>1. a + i \in 1 .. Len(deposited)
      BY <1>1, <2>1 DEF SyncSizes
    <3> QED BY <1>4, <3>1 DEF PageFrom
  <2> QED BY <2>1, <2>2, <2>3 DEF PageFrom
<1> QED
  BY <1>2, <1>3, <1>4

LEMMA SyncKept ==
    ASSUME SyncInv, SyncTypes', Grows, NewestHeld', DepositedOnce',
           cursor' \in {cursor, NoOne} \/ ReadTo(cursor)',
           \A p \in Pulls : pull'[p] \in {pull[p], Sync!Idle} \/ PullRead(pull[p])'
    PROVE  SyncInv'
<1>1. /\ \A m : ReadTo(m) => ReadTo(m)'
      /\ \A page \in Seq(Messages) : \A a \in 0 .. Len(deposited) : PageFrom(page, a) => PageFrom(page, a)'
  BY StaysRead DEF SyncInv
<1>2. cursor' # NoOne => ReadTo(cursor)'
  <2> SUFFICES ASSUME cursor' = cursor, cursor # NoOne PROVE ReadTo(cursor)'
    OBVIOUS
  <2>1. PICK m : m = cursor
    OBVIOUS
  <2>2. ReadTo(m)'
    BY <1>1, <2>1 DEF SyncInv
  <2> QED BY <2>1, <2>2
<1>3. ASSUME NEW p \in Pulls PROVE PullRead(pull[p])'
  <2>1. CASE pull'[p] = Sync!Idle
    BY <2>1 DEF PullRead, Sync!Idle
  <2>2. CASE pull'[p] = pull[p]
    <3>1. PICK x : x = pull[p]
      OBVIOUS
    <3>2. x \in Sync!Pull /\ PullRead(x)
      BY <3>1 DEF SyncInv, SyncTypes
    <3>3. x.page \in Seq(Messages)
      BY <3>2 DEF Sync!Pull
    <3>4. Len(deposited) \in Nat /\ Len(deposited)' \in Nat /\ Len(deposited) <= Len(deposited)'
      BY DEF SyncInv, SyncTypes, Grows
    <3>5. \A a \in 0 .. Len(deposited) : a \in 0 .. Len(deposited)'
      BY <3>4
    <3>6. PullRead(x)'
      BY <1>1, <3>2, <3>3, <3>5 DEF PullRead
    <3> QED BY <2>2, <3>1, <3>6
  <2> QED BY <2>1, <2>2
<1> QED
  BY <1>2, <1>3 DEF SyncInv

\* A message that is deposited, in memory: a full queue loses its head.
LEMMA DepositStep ==
    ASSUME PhoneAssumption, ~Persistent, SyncInv, NEW m \in Messages, Sync!Deposit(m)
    PROVE  SyncInv'
<1> DEFINE rest == IF Len(queue) >= MaxQueued THEN Tail(queue) ELSE queue
<1>1. /\ queue' = Append(rest, m) /\ deposited' = Append(deposited, m)
      /\ \A i \in 1 .. Len(deposited) : deposited[i] # m
      /\ UNCHANGED <<cursor, pull, processed>>
  BY DEF Sync!Deposit, Sync!StoreForUser, Sync!Push, Sync!ToSet, SyncInv, SyncTypes
<1>2. SyncTypes /\ SyncSizes /\ MaxQueued \in Nat \ {0}
  BY Sizes DEF SyncInv, PhoneAssumption, Sync!PhoneSyncAssumption, Sync!MessageStoreAssumption
<1>3. /\ rest \in Seq(Messages) /\ Len(rest) \in {Len(queue), Len(queue) - 1} /\ Len(rest) \in Nat
      /\ \A i \in 1 .. Len(rest) : rest[i] = queue[Len(queue) - Len(rest) + i]
  <2>1. CASE Len(queue) >= MaxQueued
    <3>1. queue \in Seq(Messages) /\ queue # <<>> /\ Len(queue) \in Nat
      BY <1>2, <2>1 DEF SyncTypes, SyncSizes
    <3>2. /\ Tail(queue) \in Seq(Messages) /\ Len(Tail(queue)) = Len(queue) - 1
          /\ Len(queue) - 1 \in Nat
          /\ \A i \in 1 .. Len(queue) - 1 : Tail(queue)[i] = queue[i + 1]
      BY <3>1
    <3>3. rest = Tail(queue)
      BY <2>1
    <3>4. \A i \in 1 .. Len(queue) - 1 : i + 1 = Len(queue) - (Len(queue) - 1) + i
      BY <3>1
    <3> HIDE DEF rest
    <3> QED BY <3>2, <3>3, <3>4
  <2>2. CASE ~(Len(queue) >= MaxQueued)
    BY <1>2, <2>2 DEF SyncTypes, SyncSizes
  <2> QED BY <2>1, <2>2
<1> HIDE DEF rest
<1>4. /\ queue' \in Seq(Messages) /\ Len(queue') = Len(rest) + 1
      /\ \A i \in 1 .. Len(rest) : queue'[i] = rest[i]
      /\ queue'[Len(rest) + 1] = m
  BY <1>1, <1>3
<1>5. /\ deposited' \in Seq(Messages) /\ Len(deposited') = Len(deposited) + 1
      /\ \A i \in 1 .. Len(deposited) : deposited'[i] = deposited[i]
      /\ deposited'[Len(deposited) + 1] = m
  BY <1>1, <1>2 DEF SyncTypes
<1>6. SyncTypes'
  BY <1>1, <1>4, <1>5 DEF SyncInv, SyncTypes
<1>7. Gone' = Len(deposited) - Len(rest)
  BY <1>2, <1>3, <1>4, <1>5 DEF Gone, SyncSizes
<1>8. Grows
  BY <1>1, <1>2, <1>3, <1>5, <1>7 DEF Grows, Gone, SyncSizes
<1>9. NewestHeld'
  <2>1. Len(queue) <= Len(deposited)
    BY DEF SyncInv, NewestHeld
  <2>2. ASSUME NEW i \in 1 .. Len(rest) PROVE queue'[i] = deposited'[Gone' + i]
    <3>1. Len(queue) - Len(rest) + i \in 1 .. Len(queue)
      BY <1>2, <1>3 DEF SyncSizes
    <3>2. Gone + (Len(queue) - Len(rest) + i) = Gone' + i /\ Gone' + i \in 1 .. Len(deposited)
      <4>1. /\ i \in Nat /\ 1 <= i /\ i <= Len(rest) /\ Len(rest) \in Nat /\ Len(rest) <= Len(queue)
            /\ Len(queue) \in Nat /\ Len(deposited) \in Nat
        BY <1>2, <1>3 DEF SyncSizes
      <4>2. Gone = Len(deposited) - Len(queue)
        BY DEF Gone
      <4>3. Gone + (Len(queue) - Len(rest) + i) = Len(deposited) - Len(rest) + i
        BY <4>1, <4>2
      <4>4. Gone' + i = Len(deposited) - Len(rest) + i
        BY <1>7, Zenon
      <4>5. Len(deposited) - Len(rest) + i \in 1 .. Len(deposited)
        BY <2>1, <4>1
      <4> QED BY <4>3, <4>4, <4>5, Zenon
    <3>3. queue[Len(queue) - Len(rest) + i] = deposited[Gone + (Len(queue) - Len(rest) + i)]
      BY <3>1 DEF SyncInv, NewestHeld
    <3> QED BY <1>3, <1>4, <1>5, <3>2, <3>3
  <2>3. Gone' + (Len(rest) + 1) = Len(deposited) + 1
    BY <1>2, <1>3, <1>7 DEF SyncSizes
  <2>4. \A i \in 1 .. Len(queue') : i \in 1 .. Len(rest) \/ i = Len(rest) + 1
    BY <1>3, <1>4
  <2>5. Len(queue') <= Len(deposited')
    BY <1>2, <1>3, <1>4, <1>5, <2>1 DEF SyncSizes
  <2>6. queue'[Len(rest) + 1] = deposited'[Gone' + (Len(rest) + 1)]
    BY <1>4, <1>5, <2>3
  <2>7. \A i \in 1 .. Len(queue') : queue'[i] = deposited'[Gone' + i]
    BY <2>2, <2>4, <2>6
  <2> QED BY <2>5, <2>7 DEF NewestHeld
<1>10. DepositedOnce'
  <2>1. \A i \in 1 .. Len(deposited') : i \in 1 .. Len(deposited) \/ i = Len(deposited) + 1
    BY <1>2, <1>5 DEF SyncSizes
  <2> QED BY <1>1, <1>5, <2>1 DEF SyncInv, DepositedOnce
<1> QED
  BY <1>1, <1>6, <1>8, <1>9, <1>10, SyncKept

\* The page that a pull is given starts after what it has read.
LEMMA AnswerStep ==
    ASSUME PhoneAssumption, ~Persistent, SyncInv, NEW p \in Pulls, Sync!AnswerPull(p)
    PROVE  SyncInv'
<1> DEFINE after == pull[p].after
           page == Sync!Listed(after)
           n == Len(queue)
<1>1. /\ pull[p].pc = "asked" /\ UNCHANGED <<queue, cursor, processed, deposited>>
      /\ pull' = [pull EXCEPT ![p].pc = "processing", ![p].page = page]
  BY DEF Sync!AnswerPull
<1>2. SyncTypes /\ SyncSizes /\ PageLimit \in Nat \ {0} /\ pull[p] \in Sync!Pull
  BY Sizes DEF SyncInv, SyncTypes, PhoneAssumption, Sync!PhoneSyncAssumption
<1>3. NewestHeld /\ DepositedOnce /\ (after # NoOne => ReadTo(after))
  BY <1>1 DEF SyncInv, PullRead
<1>4. PICK f \in 1 .. n + 1, l \in Nat :
        /\ page = SubSeq(queue, f, l) /\ l <= n
        /\ ReadUpTo(Gone + f - 1)
  <2>0. ReadUpTo(Gone + 1 - 1)
    BY <1>2 DEF ReadUpTo, SyncSizes
  <2>1. CASE after = NoOne
    <3> DEFINE l == IF PageLimit < n THEN PageLimit ELSE n
    <3>1. page = SubSeq(queue, 1, l) /\ l \in Nat /\ l <= n /\ 1 \in 1 .. n + 1
      BY <1>2, <2>1 DEF Sync!Listed, SyncSizes
    <3> HIDE DEF page, l
    <3> QED BY <2>0, <3>1
  <2>2. CASE after # NoOne
    <3> DEFINE f == Sync!Start(queue, after)
               l == IF f + PageLimit - 1 < n THEN f + PageLimit - 1 ELSE n
    <3>1. page = SubSeq(queue, f, l)
      BY <2>2 DEF Sync!Listed, Sync!ListMessages
    <3>2. f \in 1 .. n + 1 /\ ReadUpTo(Gone + f - 1)
      <4>1. CASE after \in Sync!Range(queue)
        <5> DEFINE c == CHOOSE i \in DOMAIN queue : queue[i] = after
        <5>1. DOMAIN queue = 1 .. n
          BY <1>2 DEF SyncTypes
        <5>2. c \in 1 .. n /\ queue[c] = after
          BY <4>1, <5>1 DEF Sync!Range
        <5>3. f = c + 1
          BY <4>1 DEF Sync!Start
        <5> HIDE DEF c, f
        <5>4. PICK x \in 1 .. Len(deposited) : deposited[x] = after /\ ReadUpTo(x)
          BY <1>3, <2>2 DEF ReadTo
        <5>5. Gone + c \in 1 .. Len(deposited) /\ deposited[Gone + c] = after
          BY <1>2, <1>3, <5>2 DEF NewestHeld, Gone, SyncSizes
        <5>6. x = Gone + c
          BY <1>3, <5>4, <5>5 DEF DepositedOnce
        <5>7. Gone + f - 1 = Gone + c /\ f \in 1 .. n + 1
          BY <1>2, <5>2, <5>3 DEF SyncSizes
        <5> QED BY <5>4, <5>6, <5>7
      <4>2. CASE after \notin Sync!Range(queue)
        <5>1. f = 1
          BY <4>2 DEF Sync!Start
        <5> HIDE DEF f
        <5> QED BY <1>2, <2>0, <5>1 DEF SyncSizes
      <4> QED BY <4>1, <4>2
    <3>3. l \in Nat /\ l <= n
      <4> HIDE DEF f
      <4> QED BY <1>2, <3>2 DEF SyncSizes
    <3> HIDE DEF page, f, l
    <3> QED BY <3>1, <3>2, <3>3
  <2> QED BY <2>1, <2>2
<1> HIDE DEF page
<1>5. /\ page \in Seq(Messages) /\ Len(page) \in Nat
      /\ page # <<>> => f <= l /\ Len(page) = l - f + 1
      /\ \A i \in 1 .. Len(page) : page[i] = queue[f + i - 1]
  BY <1>2, <1>4 DEF SyncTypes, SyncSizes
<1>6. page # <<>> => Gone + f - 1 \in 0 .. Len(deposited) /\ PageFrom(page, Gone + f - 1)
  <2> SUFFICES ASSUME page # <<>> PROVE Gone + f - 1 \in 0 .. Len(deposited) /\ PageFrom(page, Gone + f - 1)
    OBVIOUS
  <2>1. f <= l /\ Len(page) = l - f + 1 /\ f \in Nat /\ l \in Nat /\ l <= n
    BY <1>4, <1>5
  <2>2. Gone = Len(deposited) - n /\ n <= Len(deposited)
    BY <1>3 DEF Gone, NewestHeld
  <2>3. Gone + f - 1 \in 0 .. Len(deposited) /\ (Gone + f - 1) + Len(page) <= Len(deposited)
    BY <1>2, <1>4, <2>1, <2>2 DEF SyncSizes
  <2>4. ASSUME NEW i \in 1 .. Len(page) PROVE page[i] = deposited[(Gone + f - 1) + i]
    <3>1. f + i - 1 \in 1 .. n /\ Gone + (f + i - 1) = (Gone + f - 1) + i
      BY <1>2, <1>4, <1>5, <2>1 DEF SyncSizes
    <3> QED BY <1>3, <1>5, <3>1 DEF NewestHeld
  <2> QED BY <1>4, <2>3, <2>4 DEF PageFrom
<1>7. /\ pull'[p].pc = "processing" /\ pull'[p].page = page
      /\ pull' \in [Pulls -> Sync!Pull]
      /\ \A o \in Pulls : o # p => pull'[o] = pull[o]
  BY <1>1, <1>2, <1>5 DEF SyncTypes, Sync!Pull
<1>8. SyncTypes' /\ Grows /\ NewestHeld' /\ DepositedOnce'
  BY <1>1, <1>2, <1>3, <1>7 DEF SyncTypes, Grows, Gone, NewestHeld, DepositedOnce, SyncSizes
<1>9. PullRead(pull[p])'
  <2> SUFFICES ASSUME page # <<>> PROVE \E a \in 0 .. Len(deposited)' : PageFrom(pull[p].page, a)'
    BY <1>7 DEF PullRead
  <2>1. PICK a : a = Gone + f - 1
    OBVIOUS
  <2>2. a \in 0 .. Len(deposited)' /\ PageFrom(page, a)
    BY <1>1, <1>6, <2>1
  <2>3. PageFrom(pull[p].page, a)'
    BY <1>1, <1>7, <2>2 DEF PageFrom, ReadUpTo, Gone
  <2> QED BY <2>2, <2>3
<1>10. \A o \in Pulls : pull'[o] = pull[o] \/ PullRead(pull[o])'
  BY <1>7, <1>9
<1> QED
  BY <1>1, <1>8, <1>10, SyncKept

\* The head of a page is the message after all that its pull has read.
LEMMA ProcessStep ==
    ASSUME SyncInv, NEW p \in Pulls, Sync!ProcessMessage(p)
    PROVE  SyncInv'
<1> DEFINE page == pull[p].page
<1>1. /\ pull[p].pc = "processing" /\ page # <<>> /\ UNCHANGED <<queue, deposited>>
      /\ processed' = Append(processed, Head(page)) /\ cursor' = Head(page)
      /\ pull' = [pull EXCEPT ![p].page = Tail(page)]
  BY DEF Sync!ProcessMessage
<1>2. SyncTypes /\ SyncSizes /\ pull[p] \in Sync!Pull /\ page \in Seq(Messages)
  BY Sizes DEF SyncInv, SyncTypes, Sync!Pull
<1>3. PICK a \in 0 .. Len(deposited) : PageFrom(page, a)
  BY <1>1 DEF SyncInv, PullRead
<1>4. /\ Head(page) \in Messages /\ Head(page) = page[1] /\ Len(page) \in Nat \ {0}
      /\ Tail(page) \in Seq(Messages) /\ Len(Tail(page)) = Len(page) - 1
      /\ \A i \in 1 .. Len(page) - 1 : Tail(page)[i] = page[i + 1]
  BY <1>1, <1>2
<1>5. /\ pull'[p].pc = "processing" /\ pull'[p].page = Tail(page)
      /\ pull' \in [Pulls -> Sync!Pull]
      /\ \A o \in Pulls : o # p => pull'[o] = pull[o]
  BY <1>1, <1>2, <1>4 DEF SyncTypes, Sync!Pull
<1> HIDE DEF page
<1>6. /\ processed' \in Seq(Messages) /\ Len(processed') = Len(processed) + 1
      /\ \A k \in 1 .. Len(processed) : processed'[k] = processed[k]
      /\ processed'[Len(processed) + 1] = Head(page)
  BY <1>1, <1>2, <1>4 DEF SyncTypes
<1>7. SyncTypes'
  BY <1>1, <1>2, <1>4, <1>5, <1>6 DEF SyncTypes
<1>8. Grows /\ NewestHeld' /\ DepositedOnce'
  BY <1>1, <1>2, <1>6 DEF SyncInv, SyncSizes, Grows, Gone, NewestHeld, DepositedOnce
<1>9. a + 1 \in 1 .. Len(deposited) /\ deposited[a + 1] = Head(page)
  BY <1>2, <1>3, <1>4 DEF PageFrom, SyncSizes
<1>10. ReadUpTo(a + 1)'
  <2>1. ReadUpTo(a)'
    BY <1>2, <1>3, <1>7, <1>8, StaysRead DEF PageFrom
  <2>2. \A j \in 1 .. a + 1 : j \in 1 .. a \/ j = a + 1
    OBVIOUS
  <2>3. Len(processed) + 1 \in 1 .. Len(processed') /\ processed'[Len(processed) + 1] = deposited'[a + 1]
    BY <1>1, <1>2, <1>6, <1>9 DEF SyncSizes
  <2> QED BY <2>1, <2>2, <2>3 DEF ReadUpTo
<1>11. ReadTo(cursor)'
  BY <1>1, <1>9, <1>10 DEF ReadTo
<1>12. PullRead(pull[p])'
  <2>1. a + 1 \in 0 .. Len(deposited)'
    BY <1>1, <1>2, <1>9 DEF SyncSizes
  <2>2. (a + 1) + Len(Tail(page)) <= Len(deposited)
    BY <1>2, <1>3, <1>4 DEF PageFrom, SyncSizes
  <2>3. ASSUME NEW i \in 1 .. Len(page) - 1 PROVE Tail(page)[i] = deposited[(a + 1) + i]
    <3>1. i + 1 \in 1 .. Len(page) /\ a + (i + 1) = (a + 1) + i
      BY <1>4
    <3> QED BY <1>3, <1>4, <3>1 DEF PageFrom
  <2>4. PICK b : b = a + 1
    OBVIOUS
  <2>5. PageFrom(pull[p].page, b)'
    BY <1>1, <1>4, <1>5, <1>10, <2>2, <2>3, <2>4 DEF PageFrom
  <2>6. b \in 0 .. Len(deposited)'
    BY <2>1, <2>4
  <2> QED BY <1>5, <2>5, <2>6 DEF PullRead
<1>13. \A o \in Pulls : pull'[o] = pull[o] \/ PullRead(pull[o])'
  BY <1>5, <1>12
<1> QED
  BY <1>7, <1>8, <1>11, <1>13, SyncKept

LEMMA SyncStep ==
    ASSUME PhoneAssumption, ~Persistent, SyncInv, [Sync!Next]_syncVars
    PROVE  SyncInv'
<1>0. SyncTypes /\ SyncSizes /\ NewestHeld /\ DepositedOnce
  BY Sizes DEF SyncInv
<1>1. ASSUME UNCHANGED <<deposited, processed>>, queue' = queue \/ queue' = <<>>,
             cursor' \in {cursor, NoOne}, pull' \in [Pulls -> Sync!Pull],
             \A p \in Pulls : pull'[p] \in {pull[p], Sync!Idle} \/ PullRead(pull[p])'
      PROVE  SyncInv'
  <2>0. deposited' = deposited /\ processed' = processed
    BY <1>1
  <2>1. SyncTypes'
    <3>1. queue' \in Seq(Messages)
      <4>1. <<>> \in Seq(Messages)
        OBVIOUS
      <4>2. queue \in Seq(Messages)
        BY <1>0 DEF SyncTypes
      <4> QED BY <1>1, <4>1, <4>2, Zenon
    <3>2. cursor' \in Messages \cup {NoOne}
      BY <1>0, <1>1 DEF SyncTypes
    <3> QED BY <1>0, <1>1, <2>0, <3>1, <3>2 DEF SyncTypes
  <2>2. DepositedOnce'
    BY <1>0, <2>0 DEF DepositedOnce
  <2>3. Grows /\ NewestHeld'
    <3>1. CASE queue' = queue
      BY <1>0, <2>0, <3>1 DEF Grows, Gone, NewestHeld, SyncSizes
    <3>2. CASE queue' = <<>>
      <4>1. Len(queue') = 0
        BY <3>2
      <4>2. Gone' = Len(deposited)
        BY <1>0, <2>0, <4>1 DEF Gone, SyncSizes
      <4>3. Gone <= Gone'
        BY <1>0, <4>2 DEF Gone, SyncSizes
      <4>4. NewestHeld'
        BY <1>0, <2>0, <4>1 DEF NewestHeld, SyncSizes
      <4> QED BY <1>0, <2>0, <4>3, <4>4 DEF Grows, SyncSizes
    <3> QED BY <1>1, <3>1, <3>2
  <2> QED BY <1>1, <2>1, <2>2, <2>3, SyncKept
<1>2. Sync!Idle \in Sync!Pull /\ pull \in [Pulls -> Sync!Pull]
  BY <1>0 DEF SyncTypes, Sync!Idle, Sync!Pull
<1>3. ASSUME NEW p \in Pulls, Sync!StartPull(p) PROVE SyncInv'
  <2> DEFINE x == [Sync!Idle EXCEPT !.pc = "asked", !.after = cursor]
  <2>1. pull' = [pull EXCEPT ![p] = x] /\ UNCHANGED <<queue, cursor, deposited, processed>>
    BY <1>3 DEF Sync!StartPull
  <2>2. x.pc = "asked" /\ x.after = cursor /\ x \in Sync!Pull
    <3>1. x = [pc |-> "asked", after |-> cursor, page |-> <<>>]
      <4>1. [Sync!Idle EXCEPT !.pc = "asked"] = [pc |-> "asked", after |-> NoOne, page |-> <<>>]
        BY DEF Sync!Idle
      <4>2. \A y : y = [pc |-> "asked", after |-> NoOne, page |-> <<>>] =>
                [y EXCEPT !.after = cursor] = [pc |-> "asked", after |-> cursor, page |-> <<>>]
        OBVIOUS
      <4> QED BY <4>1, <4>2, Zenon
    <3>2. cursor \in Messages \cup {NoOne} /\ <<>> \in Seq(Messages)
      BY <1>0 DEF SyncTypes
    <3> HIDE DEF x
    <3> QED BY <3>1, <3>2 DEF Sync!Pull
  <2> HIDE DEF x
  <2>3. pull' \in [Pulls -> Sync!Pull] /\ pull'[p] = x /\ \A o \in Pulls : o # p => pull'[o] = pull[o]
    BY <1>2, <2>1, <2>2
  <2>4. PullRead(pull[p])'
    <3>1. cursor # NoOne => ReadTo(cursor)'
      BY <2>1 DEF SyncInv, ReadTo, ReadUpTo, Gone
    <3>2. pull'[p].pc = "asked" /\ pull'[p].after = cursor'
      BY <2>1, <2>2, <2>3
    <3>3. pull'[p].after # NoOne => ReadTo(pull[p].after)'
      BY <2>1, <3>1, <3>2
    <3> QED BY <3>2, <3>3 DEF PullRead
  <2> QED BY <1>1, <2>1, <2>3, <2>4
<1>4. ASSUME NEW p \in Pulls, Sync!PullFails(p) \/ Sync!EndPull(p) PROVE SyncInv'
  <2>1. pull' = [pull EXCEPT ![p] = Sync!Idle] /\ UNCHANGED <<queue, cursor, deposited, processed>>
    BY <1>4 DEF Sync!PullFails, Sync!EndPull
  <2>2. pull' \in [Pulls -> Sync!Pull] /\ \A o \in Pulls : pull'[o] \in {pull[o], Sync!Idle}
    BY <1>2, <2>1
  <2> QED BY <1>1, <2>1, <2>2
<1>5. CASE Sync!RouterRestart
  BY <1>1, <1>2, <1>5 DEF Sync!RouterRestart
<1>6. CASE Sync!AppRestart
  BY <1>1, <1>2, <1>6 DEF Sync!AppRestart
<1>7. CASE UNCHANGED syncVars
  BY <1>1, <1>2, <1>7 DEF syncVars
<1> QED
  BY <1>3, <1>4, <1>5, <1>6, <1>7, DepositStep, AnswerStep, ProcessStep DEF Sync!Next

LEMMA UnreadListed ==
    ASSUME ~Persistent, SyncInv
    PROVE  UnreadIsListed
<1>0. SyncTypes /\ SyncSizes /\ NewestHeld /\ DepositedOnce /\ DOMAIN queue = 1 .. Len(queue)
  BY Sizes DEF SyncInv, SyncTypes
<1>1. SUFFICES ASSUME NEW i \in 1 .. Len(queue), \A k \in 1 .. Len(processed) : processed[k] # queue[i]
               PROVE  queue[i] \in Sync!ToSet(Sync!AfterCursor)
  <2>1. \A m \in Sync!Unread : \E i \in 1 .. Len(queue) :
            queue[i] = m /\ \A k \in 1 .. Len(processed) : processed[k] # m
    BY <1>0 DEF Sync!Unread, Sync!ToSet, SyncTypes
  <2> QED BY <2>1 DEF UnreadIsListed, Sync!UnreadIsListed
<1>2. CASE cursor = NoOne
  BY <1>0, <1>2 DEF Sync!AfterCursor, Sync!ToSet
<1>3. CASE cursor # NoOne
  <2> DEFINE f == Sync!Start(queue, cursor)
             l == IF f + Len(queue) - 1 < Len(queue) THEN f + Len(queue) - 1 ELSE Len(queue)
  <2>1. Sync!AfterCursor = SubSeq(queue, f, l)
    BY <1>3 DEF Sync!AfterCursor, Sync!ListMessages
  <2>2. f \in 1 .. i
    <3>1. CASE cursor \in Sync!Range(queue)
      <4> DEFINE c == CHOOSE n \in DOMAIN queue : queue[n] = cursor
      <4>1. c \in 1 .. Len(queue) /\ queue[c] = cursor
        BY <1>0, <3>1 DEF Sync!Range
      <4>2. f = c + 1
        BY <3>1 DEF Sync!Start
      <4> HIDE DEF c, f
      <4>3. PICK x \in 1 .. Len(deposited) : deposited[x] = cursor /\ ReadUpTo(x)
        BY <1>3 DEF SyncInv, ReadTo
      <4>4. /\ Gone + c \in 1 .. Len(deposited) /\ deposited[Gone + c] = cursor
            /\ Gone + i \in 1 .. Len(deposited) /\ deposited[Gone + i] = queue[i] /\ Gone + i > Gone
        BY <1>0, <4>1 DEF NewestHeld, Gone, SyncSizes
      <4>5. x = Gone + c
        BY <1>0, <4>3, <4>4 DEF DepositedOnce
      <4>6. ~(Gone + i <= x)
        BY <1>1, <4>3, <4>4 DEF ReadUpTo
      <4> QED BY <1>0, <4>1, <4>2, <4>5, <4>6 DEF SyncSizes
    <3>2. CASE cursor \notin Sync!Range(queue)
      <4>1. f = IF Persistent THEN Len(queue) + 1 ELSE 1
        BY <3>2 DEF Sync!Start
      <4> QED BY <1>0, <4>1 DEF SyncSizes
    <3> QED BY <3>1, <3>2
  <2> HIDE DEF f
  <2>3. l = Len(queue)
    BY <1>0, <2>2 DEF SyncSizes
  <2> HIDE DEF l
  <2>4. /\ i - f + 1 \in DOMAIN SubSeq(queue, f, l)
        /\ SubSeq(queue, f, l)[i - f + 1] = queue[i]
    BY <1>0, <2>2, <2>3 DEF SyncTypes, SyncSizes
  <2> QED BY <2>1, <2>4 DEF Sync!ToSet
<1> QED
  BY <1>2, <1>3

\* With the queues in memory no message is passed over: whatever the phone has
\* not processed of what its queue holds is among what its next pull may be
\* shown, however many pulls share the cursor, and though messages are evicted
\* and the router or the app restarts (sync_service.dart, the pull loop).
THEOREM UnreadStaysListed ==
    ASSUME ~Persistent
    PROVE  PartsSpec => []UnreadIsListed
<1> USE PhoneAssumption
<1>1. PartsInit => SyncInv
  <2> SUFFICES ASSUME PartsInit PROVE SyncInv
    OBVIOUS
  <2>1. /\ queue = <<>> /\ cursor = NoOne /\ pull = [p \in Pulls |-> Sync!Idle]
        /\ processed = <<>> /\ deposited = <<>>
    BY DEF PartsInit, Sync!Init
  <2>2. Sync!Idle \in Sync!Pull /\ Sync!Idle.pc = "idle"
    BY DEF Sync!Idle, Sync!Pull
  <2> QED
    BY <2>1, <2>2 DEF SyncInv, SyncTypes, NewestHeld, DepositedOnce, PullRead
<1>2. SyncInv /\ [PartsNext]_partsVars => SyncInv'
  <2> SUFFICES ASSUME SyncInv, [PartsNext]_partsVars PROVE SyncInv'
    OBVIOUS
  <2>1. [Sync!Next]_syncVars
    BY DEF PartsNext, partsVars
  <2> QED BY <2>1, SyncStep
<1>3. SyncInv => UnreadIsListed
  BY UnreadListed
<1> QED
  BY <1>1, <1>2, <1>3, PTL DEF PartsSpec

=============================================================================
