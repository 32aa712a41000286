-------------------------- MODULE DidRegistryProofs --------------------------
(***************************************************************************)
(* Proofs about the merchant registry and the DID program, for any         *)
(* merchants, keys, credentials and bounds, and for both builds; and,      *)
(* below, about the list of hubs and the search for routes over them.      *)
(***************************************************************************)
EXTENDS MCDidRegistry, FiniteSetTheorems, SequenceTheorems, WellFoundedInduction, TLAPS

\* A request the server has still a nonce for carries what its operation needs.
Wanted(r) ==
    /\ r \in Request
    /\ r.op \in {"register", "confirm", "rotate"} => r.key \in Keys
    /\ r.op \in {"register", "confirm", "update", "revoke"} => r.vc \in Vcs

\* A transaction as the handlers build it
Built(t) ==
    /\ t \in Transaction
    /\ t.op = "initialize" => t.key \in Keys /\ t.account = t.key /\ t.vc \in Vcs
    /\ t.op = "update" => t.vc \in Vcs
    /\ t.op = "recover" => t.key \in Keys

Typed ==
    /\ did \in [Keys -> DidAccount \cup {None}]
    /\ cache \in [Merchants -> DidAccount \cup {None}]
    /\ holders \in [Keys -> SUBSET Keys]
    /\ bound \subseteq Keys \X Vcs
    /\ waiting \subseteq Merchants \X DidAccount
    /\ \A t \in txs : Built(t)
    /\ asked \in Seq(Request \cup {None})
    /\ \A n \in nonces : n \in DOMAIN asked /\ Wanted(asked[n])

\* What a step does to the chain's accounts: it leaves them alone, creates one,
\* or lands a change prepared from the account's present nonce.
Created(t) == MayInitialize(t) /\ Creates(t)

Changed(t, new) ==
    /\ AtNonce(t)
    /\ Changes(t, new)
    /\ \/ t.op = "update" /\ UpdateDidWithVc(t) /\ verify_ed25519_signature(t)
          /\ new = [did[t.account] EXCEPT !.vc = t.vc]
       \/ t.op = "recovery" /\ new = [did[t.account] EXCEPT !.recovery = t.key]
       \/ t.op = "recover" /\ new = [did[t.account] EXCEPT !.controller = t.key]

Quiet == UNCHANGED <<did, holders, landed>> /\ bound \subseteq bound'

LEMMA Steps ==
    ASSUME [Next]_vars
    PROVE  \/ Quiet
           \/ \E t \in txs : Created(t)
           \/ \E t \in txs : \E new : Changed(t, new)
<1>1. CASE UNCHANGED vars
  BY <1>1 DEF vars, Quiet
<1>2. CASE IssueNonce
  BY <1>2 DEF IssueNonce, chainVars, registryVars, Quiet
<1>3. ASSUME NEW n \in 1..MaxRequests, NonceIsLost(n) PROVE Quiet
  BY <1>3, SMTT(30) DEF NonceIsLost, chainVars, registryVars, Quiet
<1>4. ASSUME NEW n \in 1..MaxRequests, Handles(n) PROVE Quiet
  BY <1>4 DEF Handles, Takes, sign_vc_binding, issue_vc, register_merchant,
     register_merchant_zk, confirm_register, rotate_key, rotate_key_zk, update_vc,
     update_vc_zk, revoke_vc, chainVars, registryVars, Quiet
<1>5. ASSUME NEW m \in Merchants, NEW k \in Keys, NEW new \in Keys, Recover(m, k, new)
      PROVE  Quiet
  BY <1>5 DEF Recover, chainVars, registryVars, Quiet
<1>6. ASSUME NEW t \in txs, Ledger(t)
      PROVE  Quiet \/ Created(t) \/ \E new : Changed(t, new)
  <2>1. CASE initialize_did(t) \/ initialize_did_zk(t)
    BY <2>1 DEF initialize_did, initialize_did_zk, Created
  <2>2. CASE update_did_with_vc(t) \/ update_did_with_vc_zk(t)
    <3>1. Changed(t, [did[t.account] EXCEPT !.vc = t.vc])
      BY <2>2 DEF update_did_with_vc, update_did_with_vc_zk, MayUpdate, AtCopy, Changed
    <3> QED
      BY <3>1
  <2>3. CASE set_recovery_key(t) \/ set_recovery_key_zk(t)
    <3>1. Changed(t, [did[t.account] EXCEPT !.recovery = t.key])
      BY <2>3 DEF set_recovery_key, set_recovery_key_zk, MaySetRecovery, AtCopy, Changed
    <3> QED
      BY <3>1
  <2>4. CASE recover_controller(t) \/ recover_controller_zk(t)
    <3>1. Changed(t, [did[t.account] EXCEPT !.controller = t.key])
      BY <2>4 DEF recover_controller, recover_controller_zk, MayRecover, AtCopy, Changed
    <3> QED
      BY <3>1
  <2>5. CASE revoke_vc_onchain(t)
    BY <2>5 DEF revoke_vc_onchain, Executes, registryVars, Quiet
  <2>6. CASE Expires(t)
    BY <2>6 DEF Expires, chainVars, registryVars, Quiet
  <2> QED
    BY <1>6, <2>1, <2>2, <2>3, <2>4, <2>5, <2>6 DEF Ledger
<1>7. ASSUME NEW w \in waiting, cache_merchant(w[1], w[2]) PROVE Quiet
  BY <1>7 DEF cache_merchant, chainVars, Quiet
<1>8. CASE Restart
  BY <1>8 DEF Restart, chainVars, registryVars, Quiet
<1> QED
  BY <1>1, <1>2, <1>3, <1>4, <1>5, <1>6, <1>7, <1>8 DEF Next

-----------------------------------------------------------------------------
(* Types *)

LEMMA NoAccount == None \notin Keys /\ None \notin Vcs /\ None \notin Merchants
BY DidAssumption

\* What the handlers put together has the shape of a transaction.
LEMMA Handed ==
    ASSUME NEW r, Wanted(r), NEW a \in DidAccount, NEW k \in Keys,
           NEW c \in DidAccount \cup {None}
    PROVE  /\ r.op = "register" => Built(initialize_tx(r))
           /\ r.op = "rotate" => Built(set_recovery_key_tx(r, a, k, c))
           /\ r.op = "update" => Built(update_did_tx(r, a, k, c))
<1>0. r.m \in Merchants /\ a.controller \in Keys /\ a.nonce \in Nat /\ Payer \in Keys
  BY DidAssumption DEF Wanted, Request, DidAccount
<1>1. \A x \in Keys : Signer(r, x) \in Keys
  BY <1>0 DEF Signer
<1>2. \A x \in DidAccount : Saves(r, x) \in DidAccount \cup {None}
  BY DEF Saves
<1>3. ASSUME r.op = "register" PROVE Built(initialize_tx(r))
  <2>1. r.key \in Keys /\ r.vc \in Vcs
    BY <1>3 DEF Wanted
  <2>2. Fresh(r.key, r.vc) \in DidAccount
    BY <2>1 DEF Fresh, DidAccount
  <2> QED
    BY <1>0, <1>1, <1>2, <2>1, <2>2 DEF initialize_tx, Built, Transaction, Instructions
<1>4. ASSUME r.op = "rotate" PROVE Built(set_recovery_key_tx(r, a, k, c))
  <2>1. r.key \in Keys
    BY <1>4 DEF Wanted
  <2>2. Rotated(a, r.key) \in DidAccount
    BY <2>1 DEF Rotated, DidAccount
  <2> QED
    BY <1>0, <1>1, <1>2, <2>1, <2>2 DEF set_recovery_key_tx, Built, Transaction, Instructions
<1>5. ASSUME r.op = "update" PROVE Built(update_did_tx(r, a, k, c))
  <2>1. r.vc \in Vcs
    BY <1>5 DEF Wanted
  <2>2. Updated(a, r.vc) \in DidAccount
    BY <2>1 DEF Updated, DidAccount
  <2> QED
    BY <1>0, <1>1, <1>2, <2>1, <2>2 DEF update_did_tx, Built, Transaction, Instructions
<1> QED
  BY <1>3, <1>4, <1>5

LEMMA OneField ==
    ASSUME NEW a \in DidAccount
    PROVE  /\ \A v \in Vcs : LET b == [a EXCEPT !.vc = v] IN
                 /\ b \in DidAccount /\ b.nonce = a.nonce /\ b.original = a.original
                 /\ b.controller = a.controller /\ b.vc = v
           /\ \A k \in Keys \cup {None} : LET b == [a EXCEPT !.recovery = k] IN
                 /\ b \in DidAccount /\ b.nonce = a.nonce /\ b.original = a.original
                 /\ b.controller = a.controller /\ b.vc = a.vc
           /\ \A k \in Keys : LET b == [a EXCEPT !.controller = k] IN
                 /\ b \in DidAccount /\ b.nonce = a.nonce /\ b.original = a.original
                 /\ b.controller = k /\ b.vc = a.vc
           /\ \A n \in Nat : LET b == [a EXCEPT !.nonce = n] IN
                 /\ b \in DidAccount /\ b.nonce = n /\ b.original = a.original
                 /\ b.controller = a.controller /\ b.vc = a.vc
BY DEF DidAccount

\* A change of one field leaves a well-formed account, one nonce on.
LEMMA Fields ==
    ASSUME Typed, NEW t \in txs, NEW new, Changed(t, new)
    PROVE  /\ t.account \in Keys /\ t.nonce \in Nat
           /\ did[t.account] \in DidAccount /\ did[t.account].nonce = t.nonce
           /\ new \in DidAccount /\ new.nonce = t.nonce
           /\ new.original = did[t.account].original
           /\ [new EXCEPT !.nonce = did[t.account].nonce + 1] \in DidAccount
           /\ new.vc # did[t.account].vc =>
                /\ new.vc = t.vc /\ t.signer = did[t.account].controller
                /\ new.controller = did[t.account].controller
                /\ <<t.signer, t.vc>> \in bound
<1>1. Built(t)
  BY DEF Typed
<1>2. t.account \in Keys /\ t.nonce \in Nat /\ did[t.account] \in DidAccount
      /\ did[t.account].nonce = t.nonce
  BY <1>1 DEF Changed, AtNonce, Typed, Built, Transaction
<1>a. ASSUME NEW a \in DidAccount
      PROVE  [a EXCEPT !.nonce = did[t.account].nonce + 1] \in DidAccount
  <2>1. did[t.account].nonce + 1 \in Nat
    BY <1>2
  <2> QED
    BY <2>1, OneField
<1>3. CASE t.op = "update"
  <2>1. t.vc \in Vcs
    BY <1>1, <1>3 DEF Built
  <2>2. /\ t.signer = did[t.account].controller /\ <<t.signer, t.vc>> \in bound
        /\ new = [did[t.account] EXCEPT !.vc = t.vc]
    BY <1>3 DEF Changed, UpdateDidWithVc, verify_ed25519_signature
  <2>3. /\ new \in DidAccount /\ new.nonce = t.nonce
        /\ new.original = did[t.account].original
        /\ new.controller = did[t.account].controller /\ new.vc = t.vc
    BY <1>2, <2>1, <2>2, OneField
  <2> QED
    BY <1>2, <2>2, <2>3, <1>a
<1>4. CASE t.op = "recovery"
  <2>1. t.key \in Keys \cup {None}
    BY <1>1, <1>4 DEF Built, Transaction
  <2>2. new = [did[t.account] EXCEPT !.recovery = t.key]
    BY <1>4 DEF Changed
  <2>3. /\ new \in DidAccount /\ new.nonce = t.nonce
        /\ new.original = did[t.account].original /\ new.vc = did[t.account].vc
    BY <1>2, <2>1, <2>2, OneField
  <2> QED
    BY <1>2, <2>2, <2>3, <1>a
<1>5. CASE t.op = "recover"
  <2>1. t.key \in Keys
    BY <1>1, <1>5 DEF Built
  <2>2. new = [did[t.account] EXCEPT !.controller = t.key]
    BY <1>5 DEF Changed
  <2>3. /\ new \in DidAccount /\ new.nonce = t.nonce
        /\ new.original = did[t.account].original /\ new.vc = did[t.account].vc
    BY <1>2, <2>1, <2>2, OneField
  <2> QED
    BY <1>2, <2>2, <2>3, <1>a
<1> QED
  BY <1>2, <1>3, <1>4, <1>5 DEF Changed

LEMMA AccountsTyped ==
    ASSUME Typed, [Next]_vars
    PROVE  did' \in [Keys -> DidAccount \cup {None}] /\ holders' \in [Keys -> SUBSET Keys]
<1>1. CASE Quiet
  BY <1>1 DEF Quiet, Typed
<1>2. ASSUME NEW t \in txs, Created(t)
      PROVE  /\ did' \in [Keys -> DidAccount \cup {None}]
             /\ holders' \in [Keys -> SUBSET Keys]
  <2>1. t.signer \in Keys /\ t.account \in Keys /\ t.vc \in Vcs
    BY <1>2 DEF Created, MayInitialize, Typed, Built, Transaction
  <2>2. Fresh(t.signer, t.vc) \in DidAccount
    BY <2>1 DEF Fresh, DidAccount
  <2> QED
    BY <1>2, <2>1, <2>2 DEF Created, Creates, Typed
<1>3. ASSUME NEW t \in txs, NEW new, Changed(t, new)
      PROVE  /\ did' \in [Keys -> DidAccount \cup {None}]
             /\ holders' \in [Keys -> SUBSET Keys]
  <2>1. /\ [new EXCEPT !.nonce = did[t.account].nonce + 1] \in DidAccount
        /\ new.controller \in Keys
    BY <1>3, Fields DEF DidAccount
  <2>2. did' = [did EXCEPT ![t.account] = [new EXCEPT !.nonce = did[t.account].nonce + 1]]
        /\ holders' = [holders EXCEPT ![t.account] = @ \cup {new.controller}]
    BY <1>3 DEF Changed, Changes
  <2> QED
    BY <2>1, <2>2 DEF Typed
<1> QED
  BY <1>1, <1>2, <1>3, Steps

LEMMA AskedTyped ==
    ASSUME Typed, [Next]_vars
    PROVE  /\ asked' \in Seq(Request \cup {None})
           /\ \A n \in nonces' : n \in DOMAIN asked' /\ Wanted(asked'[n])
<1> DEFINE Kept == /\ asked' \in Seq(Request \cup {None})
                   /\ \A n \in nonces' : n \in DOMAIN asked' /\ Wanted(asked'[n])
<1>1. CASE UNCHANGED <<asked, nonces>>
  BY <1>1 DEF Typed
<1>2. CASE IssueNonce
  <2>1. PICK r \in Request : Askable(r) /\ asked' = Append(asked, r)
    BY <1>2 DEF IssueNonce
  <2>2. Wanted(r)
    BY <2>1, NoAccount DEF Askable, Wanted, Request
  <2>3. nonces' = nonces \cup {Len(asked) + 1}
    BY <1>2 DEF IssueNonce
  <2> QED
    BY <2>1, <2>2, <2>3 DEF Typed
<1>3. ASSUME NEW n, nonces' = nonces \ {n}, asked' = [asked EXCEPT ![n] = None]
      PROVE  Kept
  <2>1. asked \in Seq(Request \cup {None})
    BY DEF Typed
  <2>2. asked' \in Seq(Request \cup {None}) /\ DOMAIN asked' = DOMAIN asked
    <3> DEFINE S == Request \cup {None}
    <3>1. asked \in [1..Len(asked) -> S] /\ Len(asked) \in Nat
      BY <2>1
    <3>2. asked' \in [1..Len(asked) -> S] /\ DOMAIN asked' = DOMAIN asked
      BY <1>3, <3>1
    <3>3. asked' \in Seq(S)
      BY <3>1, <3>2
    <3> QED
      BY <3>2, <3>3
  <2>3. ASSUME NEW i \in nonces' PROVE i \in DOMAIN asked' /\ Wanted(asked'[i])
    <3>1. i \in nonces /\ i # n
      BY <1>3, <2>3
    <3>2. i \in DOMAIN asked /\ asked'[i] = asked[i]
      BY <1>3, <3>1 DEF Typed
    <3> QED
      BY <2>2, <3>1, <3>2 DEF Typed
  <2> QED
    BY <2>2, <2>3
<1>4. ASSUME NEW n \in 1..MaxRequests, NonceIsLost(n) \/ Handles(n)
      PROVE  Kept
  <2>1. nonces' = nonces \ {n} /\ asked' = [asked EXCEPT ![n] = None]
    BY <1>4 DEF NonceIsLost, Handles, Takes, verify_and_consume_nonce, issue_vc,
       register_merchant, register_merchant_zk, confirm_register, rotate_key,
       rotate_key_zk, update_vc, update_vc_zk, revoke_vc
  <2> QED
    BY <2>1, <1>3
<1>5. CASE Restart
  BY <1>5 DEF Restart, Typed
<1>6. ASSUME NEW t \in txs, Ledger(t) PROVE UNCHANGED <<asked, nonces>>
  BY <1>6 DEF Ledger, initialize_did, update_did_with_vc, set_recovery_key,
     recover_controller, initialize_did_zk, update_did_with_vc_zk, set_recovery_key_zk,
     recover_controller_zk, revoke_vc_onchain, Expires, Creates, Changes, Executes
<1>7. ASSUME NEW w \in waiting, cache_merchant(w[1], w[2]) PROVE UNCHANGED <<asked, nonces>>
  BY <1>7 DEF cache_merchant
<1>8. ASSUME NEW m \in Merchants, NEW k \in Keys, NEW new \in Keys, Recover(m, k, new)
      PROVE  UNCHANGED <<asked, nonces>>
  BY <1>8 DEF Recover
<1> QED
  BY <1>1, <1>2, <1>4, <1>5, <1>6, <1>7, <1>8 DEF Next, vars

\* A handler reads a well-formed request; what it adds to the transactions, to
\* the platform's signatures and to the cache is well-formed.
LEMMA HandlesTyped ==
    ASSUME Typed, NEW n \in 1..MaxRequests, Handles(n)
    PROVE  /\ \A t \in txs' : Built(t)
           /\ bound' \subseteq Keys \X Vcs
           /\ cache' \in [Merchants -> DidAccount \cup {None}]
<1> DEFINE r == asked[n]
           acc == cache[r.m]
<1>1. n \in nonces /\ Wanted(r) /\ r \in Request /\ r.m \in Merchants
  BY DEF Handles, Takes, verify_and_consume_nonce, issue_vc, register_merchant,
     register_merchant_zk, confirm_register, rotate_key, rotate_key_zk, update_vc,
     update_vc_zk, revoke_vc, Typed, Wanted, Request
<1>2. acc # None => /\ acc \in DidAccount /\ acc.controller \in Keys
                    /\ acc.original \in Keys
                    /\ Signer(r, acc.controller) \in Keys
  BY <1>1, DidAssumption DEF Typed, DidAccount, Signer
<1>3. CASE \E v \in Vcs : issue_vc(n, v)
  BY <1>3 DEF issue_vc, Typed
<1>4. CASE register_merchant(n) \/ register_merchant_zk(n)
  <2>1. /\ r.op = "register" /\ txs' = txs \cup {initialize_tx(r)}
        /\ bound' = bound \cup {<<r.key, r.vc>>} /\ cache' = cache
    BY <1>4 DEF register_merchant, register_merchant_zk, Takes, sign_vc_binding
  <2>2. r.key \in Keys /\ r.vc \in Vcs
    BY <1>1, <2>1 DEF Wanted
  <2>3. Fresh(r.key, r.vc) \in DidAccount
    BY <2>2 DEF Fresh, DidAccount
  <2>4. Built(initialize_tx(r))
    BY <1>1, <2>1, <2>2, <2>3, Handed
  <2> QED
    BY <2>1, <2>2, <2>4 DEF Typed
<1>5. CASE confirm_register(n)
  <2>1. /\ r.op = "confirm" /\ txs' = txs /\ bound' = bound
        /\ cache' = [cache EXCEPT ![r.m] = Fresh(r.key, r.vc)]
    BY <1>5 DEF confirm_register, Takes
  <2>2. Fresh(r.key, r.vc) \in DidAccount
    BY <1>1, <2>1 DEF Fresh, DidAccount, Wanted
  <2> QED
    BY <2>1, <2>2 DEF Typed
<1>6. CASE rotate_key(n) \/ rotate_key_zk(n)
  <2>1. /\ r.op = "rotate" /\ acc # None /\ bound' = bound
        /\ cache' = cache \/ cache' = [cache EXCEPT ![r.m] = Rotated(acc, r.key)]
        /\ \/ txs' = txs \cup {set_recovery_key_tx(r, acc, Signer(r, acc.controller), None)}
           \/ txs' = txs \cup {set_recovery_key_tx(r, acc, acc.original, acc)}
    BY <1>6 DEF rotate_key, rotate_key_zk, Takes, registryVars
  <2>2. Rotated(acc, r.key) \in DidAccount
    BY <1>1, <1>2, <2>1 DEF Rotated, DidAccount, Wanted
  <2>3. /\ Built(set_recovery_key_tx(r, acc, Signer(r, acc.controller), None))
        /\ Built(set_recovery_key_tx(r, acc, acc.original, acc))
    BY <1>1, <1>2, <2>1, Handed
  <2> QED
    BY <2>1, <2>2, <2>3 DEF Typed
<1>7. CASE update_vc(n) \/ update_vc_zk(n)
  <2>1. /\ r.op = "update" /\ acc # None /\ cache' = cache
        /\ bound' = bound \cup {<<acc.controller, r.vc>>}
        /\ \/ txs' = txs \cup {update_did_tx(r, acc, Signer(r, acc.controller), None)}
           \/ txs' = txs \cup {update_did_tx(r, acc, acc.original, acc)}
    BY <1>7 DEF update_vc, update_vc_zk, Takes, sign_vc_binding
  <2>2. r.vc \in Vcs
    BY <1>1, <2>1 DEF Wanted
  <2>3. /\ Built(update_did_tx(r, acc, Signer(r, acc.controller), None))
        /\ Built(update_did_tx(r, acc, acc.original, acc))
    BY <1>1, <1>2, <2>1, Handed
  <2> QED
    BY <1>2, <2>1, <2>2, <2>3 DEF Typed
<1>8. CASE revoke_vc(n)
  <2>1. r.op = "revoke" /\ UNCHANGED <<bound, cache>>
    BY <1>8 DEF revoke_vc, Takes, registryVars
  <2>2. r.vc \in Vcs
    BY <1>1, <2>1 DEF Wanted
  <2>3. Built([op |-> "revoke", m |-> r.m, signer |-> Payer, account |-> None,
               key |-> None, subject |-> None, vc |-> r.vc, nonce |-> 0, copy |-> None,
               saves |-> None])
    BY <1>1, <2>2, DidAssumption DEF Built, Transaction, Instructions
  <2>4. \A t \in txs' : Built(t)
    BY <1>8, <2>3 DEF revoke_vc, Typed
  <2> QED
    BY <1>2, <2>1, <2>4 DEF Typed
<1> QED
  BY <1>3, <1>4, <1>5, <1>6, <1>7, <1>8, SMTT(30) DEF Handles

LEMMA RestTyped ==
    ASSUME Typed, [Next]_vars
    PROVE  /\ \A t \in txs' : Built(t)
           /\ bound' \subseteq Keys \X Vcs
           /\ cache' \in [Merchants -> DidAccount \cup {None}]
           /\ waiting' \subseteq Merchants \X DidAccount
<1> DEFINE Rest == /\ \A t \in txs' : Built(t)
                   /\ bound' \subseteq Keys \X Vcs
                   /\ cache' \in [Merchants -> DidAccount \cup {None}]
                   /\ waiting' \subseteq Merchants \X DidAccount
<1>0. CASE UNCHANGED <<bound, cache, waiting>> /\ txs' \subseteq txs
  BY <1>0 DEF Typed
<1>1. CASE UNCHANGED vars
  BY <1>0, <1>1 DEF vars
<1>2. CASE IssueNonce
  BY <1>0, <1>2 DEF IssueNonce, registryVars
<1>3. ASSUME NEW n \in 1..MaxRequests, NonceIsLost(n) PROVE Rest
  BY <1>0, <1>3 DEF NonceIsLost, registryVars
<1>4. ASSUME NEW n \in 1..MaxRequests, Handles(n) PROVE Rest
  <2>1. waiting' = waiting
    BY <1>4 DEF Handles, Takes, issue_vc, register_merchant, register_merchant_zk,
       confirm_register, rotate_key, rotate_key_zk, update_vc, update_vc_zk, revoke_vc
  <2> QED
    BY <1>4, <2>1, HandlesTyped, SMTT(30) DEF Typed
<1>5. ASSUME NEW m \in Merchants, NEW k \in Keys, NEW new \in Keys, Recover(m, k, new)
      PROVE  Rest
  <2>1. did[k] \in DidAccount /\ did[k].recovery \in Keys
    BY <1>5, DidAssumption DEF Recover, Typed
  <2>2. Built(recover_controller_tx(m, k, new))
    BY <2>1 DEF recover_controller_tx, Built, Transaction, Instructions, DidAccount
  <2> QED
    BY <1>5, <2>2 DEF Recover, Typed, registryVars
<1>6. ASSUME NEW t \in txs, Ledger(t) PROVE Rest
  <2>1. CASE Executes(t)
    <3>1. t.m \in Merchants /\ t.saves \in DidAccount \cup {None}
      BY DEF Typed, Built, Transaction
    <3> QED
      BY <2>1, <3>1 DEF Executes, registryVars, Typed
  <2>2. CASE Expires(t)
    BY <1>0, <2>2 DEF Expires, registryVars
  <2> QED
    BY <1>6, <2>1, <2>2 DEF Ledger, initialize_did, update_did_with_vc, set_recovery_key,
       recover_controller, initialize_did_zk, update_did_with_vc_zk, set_recovery_key_zk,
       recover_controller_zk, revoke_vc_onchain, Creates, Changes
<1>7. ASSUME NEW w \in waiting, cache_merchant(w[1], w[2]) PROVE Rest
  <2>1. w[1] \in Merchants /\ w[2] \in DidAccount
    BY DEF Typed
  <2> QED
    BY <1>7, <2>1 DEF cache_merchant, Typed
<1>8. CASE Restart
  <2>1. ASSUME NEW t \in txs PROVE Built([t EXCEPT !.saves = None])
    BY DEF Typed, Built, Transaction
  <2>2. txs' = {[t EXCEPT !.saves = None] : t \in txs} /\ waiting' = {}
        /\ UNCHANGED <<bound, cache>>
    BY <1>8 DEF Restart, registryVars
  <2> QED
    BY <2>1, <2>2 DEF Typed
<1> QED
  BY <1>1, <1>2, <1>3, <1>4, <1>5, <1>6, <1>7, <1>8 DEF Next

THEOREM TypedAlways == Spec => []Typed
<1>1. Init => Typed
  BY DEF Init, Typed
<1>2. Typed /\ [Next]_vars => Typed'
  <2> SUFFICES ASSUME Typed, [Next]_vars PROVE Typed'
    OBVIOUS
  <2>1. \A t \in txs' : Built(t)
    BY RestTyped
  <2> QED
    BY <2>1, AccountsTyped, AskedTyped, RestTyped DEF Typed
<1> QED
  BY <1>1, <1>2, PTL DEF Spec

-----------------------------------------------------------------------------
(* Credentials and nonces *)

Held == \A k \in Keys : did[k] # None => did[k].controller \in holders[k]

\* The transactions that have landed are behind the account's nonce.
Spent == \A t \in landed : /\ t.account \in Keys /\ t.nonce \in Nat
                           /\ did[t.account] \in DidAccount
                           /\ t.nonce < did[t.account].nonce

ChainInv == Typed /\ Held /\ VcIsBound /\ Spent /\ OnePerState

LEMMA ChainStep == ASSUME ChainInv, [Next]_vars PROVE Held' /\ VcIsBound' /\ Spent' /\ OnePerState'
<1> USE DEF ChainInv
<1>1. CASE Quiet
  BY <1>1 DEF Quiet, Held, VcIsBound, Spent, OnePerState
<1>2. ASSUME NEW t \in txs, Created(t) PROVE Held' /\ VcIsBound' /\ Spent' /\ OnePerState'
  <2> DEFINE a == t.account
  <2>1. a \in Keys /\ a = t.signer /\ did[a] = None /\ <<t.signer, t.vc>> \in bound
    BY <1>2 DEF Created, MayInitialize, InitializeDid, verify_ed25519_signature, Typed,
       Built, Transaction
  <2>2. /\ did' = [did EXCEPT ![a] = Fresh(t.signer, t.vc)]
        /\ holders' = [holders EXCEPT ![a] = {t.signer}]
        /\ landed' = landed /\ bound' = bound
    BY <1>2 DEF Created, Creates, Executes, registryVars
  <2>3. /\ did'[a].controller = t.signer /\ did'[a].vc = t.vc /\ holders'[a] = {t.signer}
        /\ \A k \in Keys \ {a} : did'[k] = did[k] /\ holders'[k] = holders[k]
    BY <2>1, <2>2 DEF Typed, Fresh
  <2>4. Held' /\ VcIsBound'
    BY <2>1, <2>2, <2>3 DEF Held, VcIsBound
  <2>5. \A s \in landed : s.account # a
    <3>1. None \notin DidAccount
      BY DidAssumption
    <3> QED
      BY <2>1, <3>1 DEF Spent
  <2>6. Spent' /\ OnePerState'
    BY <2>2, <2>3, <2>5 DEF Spent, OnePerState
  <2> QED
    BY <2>4, <2>6
<1>3. ASSUME NEW t \in txs, NEW new, Changed(t, new)
      PROVE  Held' /\ VcIsBound' /\ Spent' /\ OnePerState'
  <2> DEFINE a == t.account
             next == [new EXCEPT !.nonce = did[a].nonce + 1]
  <2>1. /\ a \in Keys /\ t.nonce \in Nat /\ did[a] # None /\ did[a] \in DidAccount
        /\ did[a].nonce = t.nonce /\ new \in DidAccount /\ next \in DidAccount
    <3>1. a \in Keys /\ did[a] # None /\ did[a].nonce = t.nonce
      BY <1>3 DEF Changed, AtNonce
    <3>2. t.nonce \in Nat /\ did[a] \in DidAccount /\ new \in DidAccount /\ next \in DidAccount
      BY <1>3, Fields
    <3> QED BY <3>1, <3>2
  <2>2. next.controller = new.controller /\ next.vc = new.vc /\ next.nonce = t.nonce + 1
    BY <2>1, OneField
  <2>3. /\ did' = [did EXCEPT ![a] = next] /\ landed' = landed \cup {t} /\ bound' = bound
        /\ holders' = [holders EXCEPT ![a] = @ \cup {new.controller}]
    BY <1>3 DEF Changed, Changes, Executes, registryVars
  <2>4. /\ did'[a] = next /\ holders'[a] = holders[a] \cup {new.controller}
        /\ \A k \in Keys \ {a} : did'[k] = did[k] /\ holders'[k] = holders[k]
    BY <2>1, <2>3 DEF Typed
  <2>5. Held'
    <3> SUFFICES ASSUME NEW k \in Keys, did'[k] # None
                 PROVE  did'[k].controller \in holders'[k]
      BY DEF Held
    <3> HIDE DEF next
    <3>1. CASE k = a
      BY <2>2, <2>4, <3>1
    <3>2. CASE k # a
      BY <2>4, <3>2 DEF Held
    <3> QED BY <3>1, <3>2
  <2>6. \E c \in holders'[a] : <<c, next.vc>> \in bound
    <3>1. CASE new.vc = did[a].vc
      BY <2>1, <2>2, <2>4, <3>1 DEF VcIsBound
    <3>2. CASE new.vc # did[a].vc
      <4>1. /\ new.vc = t.vc /\ t.signer = did[a].controller /\ <<t.signer, t.vc>> \in bound
        BY <1>3, <3>2, Fields
      <4>2. t.signer \in holders[a]
        BY <2>1, <4>1 DEF Held
      <4> QED
        BY <2>2, <2>4, <4>1, <4>2
    <3> QED
      BY <3>1, <3>2
  <2>7. VcIsBound'
    BY <2>3, <2>4, <2>6 DEF VcIsBound
  <2>8. Spent'
    <3>1. t.nonce < next.nonce
      BY <2>1, <2>2
    <3> HIDE DEF next
    <3>2. ASSUME NEW s \in landed
          PROVE  /\ s.account \in Keys /\ s.nonce \in Nat
                 /\ did'[s.account] \in DidAccount /\ s.nonce < did'[s.account].nonce
      <4>1. /\ s.account \in Keys /\ s.nonce \in Nat /\ did[s.account] \in DidAccount
            /\ s.nonce < did[s.account].nonce
        BY DEF Spent
      <4>2. CASE s.account = a
        <5>1. did'[s.account] = next /\ did[s.account].nonce = t.nonce
          BY <2>1, <2>4, <4>2
        <5> QED
          BY <2>1, <2>2, <4>1, <5>1
      <4>3. CASE s.account # a
        BY <2>4, <4>1, <4>3
      <4> QED
        BY <4>2, <4>3
    <3> QED
      BY <2>1, <2>3, <2>4, <3>1, <3>2 DEF Spent
  <2>9. OnePerState'
    <3>1. \A s \in landed : s.account = a => s.nonce # t.nonce
      BY <2>1 DEF Spent
    <3> QED
      BY <2>3, <3>1 DEF OnePerState
  <2> QED
    BY <2>5, <2>7, <2>8, <2>9
<1> QED
  BY <1>1, <1>2, <1>3, Steps

LEMMA ChainAlways == Spec => []ChainInv
<1>1. Init => Held /\ VcIsBound /\ Spent /\ OnePerState
  BY DEF Init, Held, VcIsBound, Spent, OnePerState
<1>2. Typed /\ (Held /\ VcIsBound /\ Spent /\ OnePerState) /\ [Next]_vars
        => (Held /\ VcIsBound /\ Spent /\ OnePerState)'
  BY ChainStep DEF ChainInv
<1> QED
  BY <1>1, <1>2, TypedAlways, PTL DEF Spec, ChainInv

\* The credential of an account is one the platform signed for a key that
\* controlled the account (lib.rs:217-307), in both builds.
THEOREM CredentialIsBound == Spec => []VcIsBound
BY ChainAlways, PTL DEF ChainInv

\* No two transactions prepared from the same state of an account both land
\* (lib.rs:275, 318, 343).
THEOREM OneTransactionPerNonce == Spec => []OnePerState
BY ChainAlways, PTL DEF ChainInv

-----------------------------------------------------------------------------
(* The table of hubs and a client that reads it page by page (HubRegistry).  *)

HubRow == [did : Hubs, status : {"active", "inactive"}, tokens : SUBSET Tokens]

\* A hub that was on the list all the time and is not read yet is old enough to be on
\* a page to come: rows are only added at the new end, and keep their hub.
HubInv ==
    /\ table \in Seq(HubRow)
    /\ page \in Nat \cup {None}
    /\ \A h \in present : \E i \in 1 .. Len(table) : table[i].did = h
    /\ page # None =>
          \A h \in present \ seen : \E i \in 1 .. Len(table) :
              table[i].did = h /\ i <= Len(table) - page
    /\ ended => page = None /\ present \subseteq seen

LEMMA HubConstants == PageSize \in Nat \ {0} /\ None \notin Nat
BY PartsAssumption DEF Hub!HubRegistryAssumption

LEMMA HubMatching ==
    ASSUME NEW rows \in Seq(HubRow)
    PROVE  \A h : h \in Hub!Matching(rows) <=> \E i \in 1 .. Len(rows) : rows[i].did = h
BY DEF Hub!Matching, Hub!Matches

\* Rows change but for their hub, and may be added at the end.
LEMMA HubsChange ==
    ASSUME HubInv, NEW rows \in Seq(HubRow), Hub!Changes(rows), Len(table) <= Len(rows),
           \A i \in 1 .. Len(table) : rows[i].did = table[i].did
    PROVE  HubInv'
<1>1. /\ table' = rows /\ UNCHANGED <<page, seen, ended>> /\ present' \subseteq present
      /\ Len(table) \in Nat /\ Len(rows) \in Nat
  BY DEF Hub!Changes, HubInv
<1>2. \A i \in 1 .. Len(table) : i \in 1 .. Len(rows)
  BY <1>1
<1>3. \A h \in present' : \E i \in 1 .. Len(rows) : rows[i].did = h
  BY <1>1, <1>2 DEF HubInv
<1>4. ASSUME page # None, NEW h \in present' \ seen
      PROVE  \E i \in 1 .. Len(rows) : rows[i].did = h /\ i <= Len(rows) - page
  <2>1. PICK i \in 1 .. Len(table) : table[i].did = h /\ i <= Len(table) - page
    BY <1>1, <1>4 DEF HubInv
  <2>2. page \in Nat
    BY <1>4 DEF HubInv
  <2>3. i <= Len(rows) - page
    BY <1>1, <2>1, <2>2
  <2> QED
    BY <1>2, <2>1, <2>3
<1> QED
  BY <1>1, <1>3, <1>4 DEF HubInv

\* A page: what is not on it and was to come is on a later one, or it was the last.
LEMMA HubPageIsRead == ASSUME HubInv, Hub!ReadPage PROVE HubInv'
<1> DEFINE n == Len(table)
           rows == Hub!Reverse(table)
           last == IF page + PageSize < n THEN page + PageSize ELSE n
           listed == SubSeq(rows, page + 1, last)
<1>1. /\ n \in Nat /\ page \in Nat /\ PageSize \in Nat \ {0}
      /\ \A i \in 1 .. n : table[i] \in HubRow
  BY HubConstants DEF HubInv, Hub!ReadPage
<1>2. /\ rows \in Seq(HubRow) /\ Len(rows) = n
      /\ \A i \in 1 .. n : rows[i] = table[(n - i) + 1]
  <2>1. rows = [i \in 1 .. n |-> table[(n - i) + 1]]
    BY DEF Hub!Reverse
  <2>2. \A i \in 1 .. n : (n - i) + 1 \in 1 .. n
    BY <1>1
  <2> HIDE DEF n
  <2>3. rows \in [1 .. n -> HubRow]
    BY <1>1, <2>1, <2>2
  <2> QED
    BY <1>1, <2>1, <2>3
<1>3. Hub!ListHubs(page) = listed
  BY <1>2 DEF Hub!ListHubs, Hub!NewestFirst, Hub!Selected
<1>4. last \in Nat /\ last <= n /\ last <= page + PageSize
  BY <1>1
<1>5. /\ Len(listed) = IF page + 1 <= last THEN last - page ELSE 0
      /\ \A i \in 1 .. last - page : listed[i] = rows[page + i]
  <2> HIDE DEF rows, last, n
  <2>1. \A i \in page + 1 .. last : rows[i] \in HubRow
    BY <1>1, <1>2, <1>4
  <2>2. /\ Len(listed) = IF page + 1 <= last THEN last - (page + 1) + 1 ELSE 0
        /\ \A i \in 1 .. last - (page + 1) + 1 : listed[i] = rows[page + 1 + i - 1]
        /\ listed \in Seq(HubRow)
    BY <1>1, <1>4, <2>1, SubSeqProperties
  <2> HIDE DEF listed
  <2> QED
    BY <1>1, <1>4, <2>2
<1>6. \A i \in 1 .. last - page : listed[i].did \in Hub!Dids(listed)
  <2>1. \A i \in 1 .. last - page : i \in 1 .. Len(listed)
    BY <1>1, <1>4, <1>5
  <2>2. DOMAIN listed = 1 .. Len(listed)
    <3>1. listed \in Seq(HubRow)
      <4> HIDE DEF rows, last, n
      <4>1. \A i \in page + 1 .. last : rows[i] \in HubRow
        BY <1>1, <1>2, <1>4
      <4> QED
        BY <1>1, <1>4, <4>1, SubSeqProperties
    <3> HIDE DEF listed
    <3> QED
      BY <3>1
  <2> HIDE DEF listed
  <2> QED
    BY <2>1, <2>2 DEF Hub!Dids
<1> DEFINE ends == Len(listed) < PageSize
<1>7. /\ seen' = seen \cup Hub!Dids(listed)
      /\ page' = IF ends THEN None ELSE page + PageSize
      /\ ended' = ends
      /\ UNCHANGED <<table, present>>
  BY <1>3 DEF Hub!ReadPage
\* a row that is not read yet, and not on this page, is past it
<1>8. ASSUME NEW h \in present' \ seen'
      PROVE  /\ page + PageSize < n
             /\ \E i \in 1 .. n : table[i].did = h /\ i <= n - (page + PageSize)
  <2>1. PICK i \in 1 .. n : table[i].did = h /\ i <= n - page
    BY <1>7 DEF HubInv, Hub!ReadPage
  <2> DEFINE k == n - i + 1 - page
  <2>2. k \in Nat \ {0} /\ k + page \in 1 .. n /\ (n - (k + page)) + 1 = i
    BY <1>1, <2>1
  <2>3. rows[page + k] = table[i]
    <3> HIDE DEF rows, n, k
    <3> QED BY <1>1, <1>2, <2>2
  <2>4. k \notin 1 .. last - page
    <3> HIDE DEF rows, n, k, listed, last
    <3> QED BY <1>5, <1>6, <1>7, <2>1, <2>3
  <2>5. last - page < k
    <3> HIDE DEF k, n, last
    <3> QED BY <1>1, <1>4, <2>2, <2>4
  <2>6. page + PageSize < n
    BY <1>1, <2>1, <2>2, <2>5
  <2>7. i <= n - (page + PageSize)
    BY <1>1, <2>1, <2>5, <2>6
  <2> QED
    BY <2>1, <2>6, <2>7
<1>9. ends => present' \subseteq seen'
  <2>1. page + PageSize < n => Len(listed) = PageSize
    <3> HIDE DEF listed, n
    <3> QED BY <1>1, <1>5
  <2> HIDE DEF listed, n
  <2> QED
    BY <1>1, <1>8, <2>1
<1> HIDE DEF listed, last, rows, ends
<1>10. page' \in Nat \cup {None}
  BY <1>1, <1>7
<1>11. page' # None => page' = page + PageSize
  BY <1>7
<1>12. ended' => page' = None /\ present' \subseteq seen'
  BY <1>7, <1>9
<1> QED
  BY <1>7, <1>8, <1>10, <1>11, <1>12 DEF HubInv

LEMMA HubReadingStarts == ASSUME HubInv, Hub!StartReading PROVE HubInv'
<1>1. \A h \in present' : \E i \in 1 .. Len(table) : table[i].did = h
  BY HubMatching DEF Hub!StartReading, HubInv
<1>2. \A i \in 1 .. Len(table) : i <= Len(table) - 0
  BY DEF HubInv
<1> QED
  BY <1>1, <1>2 DEF Hub!StartReading, HubInv

LEMMA HubIsUpdated ==
    ASSUME HubInv, NEW i, NEW s \in {None, "active", "inactive"},
           NEW ts \in {None} \cup SUBSET Tokens, Hub!UpdateHub(i, s, ts)
    PROVE  HubInv'
<1> DEFINE old == table[i]
           new == [did |-> old.did, status |-> IF s = None THEN old.status ELSE s,
                   tokens |-> IF ts = None THEN old.tokens ELSE ts]
           rows == [table EXCEPT ![i] = new]
<1>1. i \in 1 .. Len(table) /\ old \in HubRow
  BY DEF Hub!UpdateHub, HubInv
<1>2. new \in HubRow
  <2> HIDE DEF old
  <2> QED BY <1>1 DEF HubRow
<1>3. Hub!Changes(rows)
  BY <1>1 DEF Hub!UpdateHub
<1> HIDE DEF new
<1>4. rows \in Seq(HubRow) /\ Len(rows) = Len(table)
  BY <1>1, <1>2 DEF HubInv
<1>5. \A j \in 1 .. Len(table) : rows[j].did = table[j].did
  BY <1>1 DEF HubInv, new
<1>6. Len(table) \in Nat
  BY DEF HubInv
<1> HIDE DEF rows
<1> QED
  BY <1>3, <1>4, <1>5, <1>6, HubsChange

LEMMA HubRegistered ==
    ASSUME HubInv, NEW h \in Hubs, NEW ts \in SUBSET Tokens, Hub!RegisterHub(h, ts)
    PROVE  HubInv'
<1> DEFINE rows == Append(table, Hub!Row(h, ts))
<1>1. /\ rows \in Seq(HubRow) /\ Len(table) \in Nat /\ Len(rows) = Len(table) + 1
      /\ \A i \in 1 .. Len(table) : rows[i] = table[i]
  BY DEF HubInv, Hub!Row, HubRow
<1>2. Hub!Changes(rows)
  BY DEF Hub!RegisterHub
<1> HIDE DEF rows
<1>3. Len(table) <= Len(rows)
  BY <1>1
<1> QED
  BY <1>1, <1>2, <1>3, HubsChange

LEMMA HubStep == HubInv /\ [Hub!Next]_hubVars => HubInv'
<1> SUFFICES ASSUME HubInv, [Hub!Next]_hubVars PROVE HubInv'
  OBVIOUS
<1>1. CASE UNCHANGED hubVars
  BY <1>1 DEF hubVars, HubInv
<1>2. ASSUME NEW i, Hub!DeregisterHub(i) PROVE HubInv'
  BY <1>2, HubIsUpdated DEF Hub!DeregisterHub
<1> QED
  BY <1>1, <1>2, HubIsUpdated, HubRegistered, HubReadingStarts, HubPageIsRead DEF Hub!Next

LEMMA HubInit == Hub!Init => HubInv
BY DEF Hub!Init, HubInv


-----------------------------------------------------------------------------
(* The search for routes (HubRouting).  Its recursive function has one       *)
(* solution: per path, the routes that extend it.                            *)

RoutingInv ==
    /\ registered \subseteq Hubs
    /\ graph \in [Hubs -> Seq(Hubs)]

LEMMA HubsAreFinite == IsFiniteSet(Hubs) /\ None \notin Hubs
BY PartsAssumption DEF Routes!HubRoutingAssumption, Routes!IsFiniteSet, IsFiniteSet

LEMMA RoutingInit == Routes!Init => RoutingInv
BY DEF Routes!Init, Routes!NoEdges, RoutingInv

LEMMA SetToSeqType == ASSUME NEW S, IsFiniteSet(S) PROVE Routes!SetToSeq(S) \in Seq(S)
<1> DEFINE n == Cardinality(S)
<1>1. n \in Nat /\ ExistsBijection(1 .. n, S)
  BY FS_CardinalityType
<1>2. \E f \in [1 .. n -> S] : Routes!IsInjective(f)
  BY <1>1 DEF ExistsBijection, Bijection, Injection, IsInjective, Routes!IsInjective
<1>3. Routes!SetToSeq(S) \in [1 .. n -> S]
  <2> HIDE DEF n
  <2>1. Routes!SetToSeq(S) = CHOOSE f \in [1 .. n -> S] : Routes!IsInjective(f)
    BY DEF Routes!SetToSeq, n, Routes!Cardinality, Cardinality
  <2> QED
    BY <1>2, <2>1
<1> QED
  <2> HIDE DEF n
  <2> QED BY <1>1, <1>3

LEMMA RoutingStep == RoutingInv /\ [Routes!Next]_routingVars => RoutingInv'
<1> SUFFICES ASSUME RoutingInv, [Routes!Next]_routingVars PROVE RoutingInv'
  OBVIOUS
<1>1. CASE Routes!RefreshGraph
  <2>1. Routes!LiquidHubs \subseteq Hubs
    BY DEF Routes!LiquidHubs, RoutingInv
  <2>2. ASSUME NEW h \in Hubs PROVE Routes!SetToSeq(Routes!LiquidHubs \ {h}) \in Seq(Hubs)
    <3> DEFINE S == Routes!LiquidHubs \ {h}
    <3>1. S \in SUBSET Hubs /\ IsFiniteSet(S)
      BY <2>1, HubsAreFinite, FS_Subset
    <3> HIDE DEF S
    <3>2. Routes!SetToSeq(S) \in Seq(S)
      BY <3>1, SetToSeqType
    <3>3. Seq(S) \subseteq Seq(Hubs)
      BY <3>1
    <3> QED
      BY <3>2, <3>3 DEF S
  <2>3. graph' \in [Hubs -> Seq(Hubs)]
    BY <1>1, <2>2 DEF Routes!RefreshGraph
  <2> QED
    BY <1>1, <2>3 DEF Routes!RefreshGraph, RoutingInv
<1>2. ASSUME NEW f \in Hubs, NEW t \in Hubs, Routes!AddChannelEdge(f, t) PROVE RoutingInv'
  BY <1>2 DEF Routes!AddChannelEdge, RoutingInv
<1>3. ASSUME NEW h \in Hubs, Routes!RegisterHub(h) PROVE RoutingInv'
  BY <1>3 DEF Routes!RegisterHub, RoutingInv
<1>4. ASSUME NEW h, NEW r, NEW l, Routes!UpdateMetrics(h, r, l) PROVE RoutingInv'
  BY <1>4 DEF Routes!UpdateMetrics, RoutingInv
<1>5. CASE Routes!Restart
  BY <1>5 DEF Routes!Restart, Routes!NoEdges, RoutingInv
<1>6. CASE UNCHANGED routingVars
  BY <1>6 DEF routingVars, RoutingInv
<1> QED
  BY <1>1, <1>2, <1>3, <1>4, <1>5, <1>6 DEF Routes!Next

\* The simple paths.
LEMMA PathIs ==
    ASSUME NEW n \in Nat
    PROVE  /\ \A p : p \in Routes!Paths(n) <=>
                  /\ p \in Seq(Hubs) /\ Len(p) \in 1 .. n
                  /\ \A i, j \in 1 .. Len(p) : p[i] = p[j] => i = j
<1>1. ASSUME NEW p PROVE p \in Routes!BoundedSeq(Hubs, n) <=> p \in Seq(Hubs) /\ Len(p) <= n
  <2>1. ASSUME p \in Routes!BoundedSeq(Hubs, n) PROVE p \in Seq(Hubs) /\ Len(p) <= n
    <3>1. PICK k \in 0 .. n : p \in [1 .. k -> Hubs]
      BY <2>1 DEF Routes!BoundedSeq, Routes!SeqOf
    <3>2. k \in Nat /\ k <= n
      BY <3>1
    <3>3. p \in Seq(Hubs)
      BY <3>1, <3>2
    <3>4. Len(p) = k
      <4>1. DOMAIN p = 1 .. k
        BY <3>1
      <4> QED BY <3>2, <3>3, <4>1
    <3> QED
      BY <3>2, <3>3, <3>4
  <2>2. ASSUME p \in Seq(Hubs), Len(p) <= n PROVE p \in Routes!BoundedSeq(Hubs, n)
    <3>1. Len(p) \in 0 .. n /\ p \in [1 .. Len(p) -> Hubs]
      BY <2>2, LenProperties
    <3> QED
      BY <3>1 DEF Routes!BoundedSeq, Routes!SeqOf
  <2> QED
    BY <2>1, <2>2
<1>2. ASSUME NEW p \in Seq(Hubs) PROVE p # <<>> <=> Len(p) >= 1
  BY <1>2
<1>3. ASSUME NEW p \in Seq(Hubs)
      PROVE  Routes!IsInjective(p) <=> \A i, j \in 1 .. Len(p) : p[i] = p[j] => i = j
  BY <1>3 DEF Routes!IsInjective
<1> QED
  BY <1>1, <1>2, <1>3 DEF Routes!Paths

\* Of the finite sets with a property, one has no proper subset with it.
LEMMA SmallestSet ==
    ASSUME NEW S, IsFiniteSet(S), NEW Q \in SUBSET SUBSET S, Q # {}
    PROVE  \E T \in Q : \A U \in Q : U \subseteq T => U = T
<1>1. Q \subseteq FiniteSubsetsOf(S)
  BY FS_FiniteSubsetsOfFinite
<1>2. PICK T \in Q : \A U \in Q : <<U, T>> \notin StrictSubsetOrdering(S)
  BY <1>1, FS_StrictSubsetOrderingWellFounded, WFMin
<1> QED
  BY <1>2 DEF StrictSubsetOrdering

\* A non-empty set of numbers up to n has a smallest one.
LEMMA SmallestNumber ==
    ASSUME NEW n \in Nat, NEW Q \in SUBSET (0 .. n), Q # {}
    PROVE  \E k \in Q : \A j \in Q : j >= k
<1> DEFINE R == 0 .. n
           T == {0 .. k : k \in Q}
<1>1. IsFiniteSet(R)
  BY FS_Interval
<1>2. T \in SUBSET SUBSET R /\ T # {}
  <2>1. \A k \in Q : (0 .. k) \subseteq R
    OBVIOUS
  <2> HIDE DEF R
  <2> QED BY <2>1
<1>3. PICK t \in T : \A u \in T : u \subseteq t => u = t
  <2> HIDE DEF T, R
  <2> QED BY <1>1, <1>2, SmallestSet
<1>4. PICK k \in Q : t = 0 .. k
  BY <1>3
<1>5. ASSUME NEW j \in Q, ~(j >= k)
      PROVE  FALSE
  <2>1. j \in Nat /\ k \in Nat /\ j < k
    BY <1>5
  <2>2. (0 .. j) \subseteq (0 .. k) /\ (0 .. j) \in T
    BY <2>1
  <2>3. (0 .. j) = 0 .. k
    <3> HIDE DEF T
    <3> QED BY <1>3, <1>4, <2>2
  <2>4. k \in 0 .. k /\ k \notin 0 .. j
    BY <2>1
  <2> QED
    BY <2>3, <2>4
<1> QED
  BY <1>5

\* The complete paths that begin like this one.
Beyond(to, n, path) ==
    {p \in Routes!Paths(n + 1) :
        /\ Len(path) <= Len(p) /\ Len(p) > 1
        /\ \A i \in 1 .. Len(path) : p[i] = path[i]
        /\ \A i \in Len(path) .. Len(p) - 1 : Routes!Edge(p[i], p[i + 1])
        /\ p[Len(p)] = to
        /\ Routes!Known(p)}

Answers(to, n) ==
    [path \in Routes!Paths(n + 1) |-> {Routes!BuildRoute(p) : p \in Beyond(to, n, path)}]

\* One call of dfs_routes.
Call(dfs, to, n, path) ==
    IF Routes!Last(path) = to /\ Len(path) > 1
    THEN IF Routes!Known(path) THEN {Routes!BuildRoute(path)} ELSE {}
    ELSE IF Routes!MoreHops(path, n)
    THEN UNION {dfs[Append(path, h)] :
                    h \in Routes!Range(graph[Routes!Last(path)]) \ Routes!Range(path)}
    ELSE {}

Solves(dfs, to, n) == dfs = [path \in Routes!Paths(n + 1) |-> Call(dfs, to, n, path)]

LEMMA DfsIsChosen ==
    ASSUME NEW to, NEW n
    PROVE  Routes!DfsRoutes(to, n) = CHOOSE dfs : Solves(dfs, to, n)
BY DEF Routes!DfsRoutes, Solves, Call

LEMMA WithinPath ==
    ASSUME NEW n \in Nat, NEW path \in Routes!Paths(n + 1)
    PROVE  /\ path \in Seq(Hubs) /\ Len(path) \in 1 .. n + 1
           /\ path[Len(path)] \in Hubs
           /\ Routes!Last(path) = path[Len(path)]
           /\ DOMAIN path = 1 .. Len(path)
           /\ \A h : h \in Routes!Range(path) <=> \E i \in 1 .. Len(path) : h = path[i]
<1>1. path \in Seq(Hubs) /\ Len(path) \in 1 .. n + 1
  BY PathIs
<1> QED
  BY <1>1 DEF Routes!Last, Routes!Range

\* The hubs dfs_routes goes on to.
LEMMA NextHubs ==
    ASSUME RoutingInv, NEW n \in Nat, NEW path \in Routes!Paths(n + 1)
    PROVE  \A h : h \in Routes!Range(graph[Routes!Last(path)]) \ Routes!Range(path) <=>
                    /\ Routes!Edge(path[Len(path)], h)
                    /\ h \in Hubs
                    /\ \A i \in 1 .. Len(path) : h # path[i]
<1>1. graph[path[Len(path)]] \in Seq(Hubs)
  BY WithinPath DEF RoutingInv
<1>2. \A h : h \in Routes!Range(graph[path[Len(path)]]) => h \in Hubs
  BY <1>1 DEF Routes!Range
<1> QED
  BY <1>2, WithinPath DEF Routes!Edge

LEMMA AppendPath ==
    ASSUME NEW n \in Nat, NEW path \in Routes!Paths(n + 1), Len(path) <= n,
           NEW h \in Hubs, \A i \in 1 .. Len(path) : h # path[i]
    PROVE  Append(path, h) \in Routes!Paths(n + 1)
<1> DEFINE p == Append(path, h)
<1>1. /\ path \in Seq(Hubs) /\ Len(path) \in 1 .. n + 1
      /\ \A i, j \in 1 .. Len(path) : path[i] = path[j] => i = j
  BY PathIs
<1>2. p \in Seq(Hubs) /\ Len(p) = Len(path) + 1
  BY <1>1
<1>3. p[Len(path) + 1] = h /\ \A i \in 1 .. Len(path) : p[i] = path[i]
  BY <1>1
<1>4. \A i, j \in 1 .. Len(p) : p[i] = p[j] => i = j
  <2> SUFFICES ASSUME NEW i \in 1 .. Len(p), NEW j \in 1 .. Len(p), p[i] = p[j] PROVE i = j
    OBVIOUS
  <2> HIDE DEF p
  <2>1. CASE i \in 1 .. Len(path) /\ j \in 1 .. Len(path)
    BY <1>1, <1>3, <2>1
  <2>2. CASE i = Len(path) + 1 /\ j \in 1 .. Len(path)
    BY <1>3, <2>2
  <2>3. CASE j = Len(path) + 1 /\ i \in 1 .. Len(path)
    BY <1>3, <2>3
  <2> QED
    BY <1>1, <1>2, <2>1, <2>2, <2>3
<1>5. Len(p) \in 1 .. n + 1
  BY <1>1, <1>2
<1> HIDE DEF p
<1>6. p \in Routes!Paths(n + 1)
  <2>1. n + 1 \in Nat
    OBVIOUS
  <2> QED
    BY <1>2, <1>4, <1>5, <2>1, PathIs
<1> QED
  BY <1>6 DEF p

\* What is known of a complete path that begins like this one.
LEMMA BeyondIs ==
    ASSUME NEW n \in Nat, NEW to, NEW path \in Routes!Paths(n + 1),
           NEW p \in Beyond(to, n, path)
    PROVE  /\ p \in Routes!Paths(n + 1) /\ p \in Seq(Hubs)
           /\ Len(p) \in 2 .. n + 1 /\ Len(path) \in 1 .. Len(p)
           /\ \A i, j \in 1 .. Len(p) : p[i] = p[j] => i = j
           /\ \A i \in 1 .. Len(path) : p[i] = path[i]
           /\ p[Len(p)] = to
           /\ Len(p) = Len(path) => p = path
<1>1. /\ p \in Routes!Paths(n + 1)
      /\ Len(path) <= Len(p) /\ Len(p) > 1
      /\ \A i \in 1 .. Len(path) : p[i] = path[i]
      /\ p[Len(p)] = to
  BY DEF Beyond
<1>2. /\ p \in Seq(Hubs) /\ Len(p) \in 1 .. n + 1
      /\ \A i, j \in 1 .. Len(p) : p[i] = p[j] => i = j
  BY <1>1, n + 1 \in Nat, PathIs
<1>3. path \in Seq(Hubs) /\ Len(path) \in 1 .. n + 1
  BY n + 1 \in Nat, PathIs
<1>4. Len(p) = Len(path) => p = path
  BY <1>1, <1>2, <1>3, SeqEqual
<1> QED
  BY <1>1, <1>2, <1>3, <1>4

\* At the destination there is nothing beyond.
LEMMA AtDestination ==
    ASSUME NEW n \in Nat, NEW to, NEW path \in Routes!Paths(n + 1),
           path[Len(path)] = to, Len(path) > 1
    PROVE  Beyond(to, n, path) = IF Routes!Known(path) THEN {path} ELSE {}
<1>1. ASSUME NEW p \in Beyond(to, n, path) PROVE p = path /\ Routes!Known(path)
  <2>1. p[Len(path)] = p[Len(p)] /\ Len(path) \in 1 .. Len(p) /\ Len(p) \in 1 .. Len(p)
    BY BeyondIs
  <2>2. p = path
    BY <2>1, BeyondIs
  <2>3. Routes!Known(p)
    BY DEF Beyond
  <2> QED
    BY <2>2, <2>3
<1>2. ASSUME Routes!Known(path) PROVE path \in Beyond(to, n, path)
  BY <1>2, WithinPath DEF Beyond
<1> QED
  BY <1>1, <1>2

\* Elsewhere what is beyond is beyond one of the next hubs.
LEMMA OneHopFurther ==
    ASSUME RoutingInv, NEW n \in Nat, NEW to, NEW path \in Routes!Paths(n + 1),
           Len(path) <= n, ~(path[Len(path)] = to /\ Len(path) > 1),
           NEW p
    PROVE  p \in Beyond(to, n, path) <=>
               \E h \in Routes!Range(graph[Routes!Last(path)]) \ Routes!Range(path) :
                   p \in Beyond(to, n, Append(path, h))
<1> DEFINE Onward == Routes!Range(graph[Routes!Last(path)]) \ Routes!Range(path)
           L == Len(path)
<1>0. path \in Seq(Hubs) /\ L \in 1 .. n + 1
  BY WithinPath
<1>n. \A h : h \in Onward <=> Routes!Edge(path[L], h) /\ h \in Hubs /\ \A i \in 1 .. L : h # path[i]
  BY NextHubs
<1>a. \A h \in Onward : Append(path, h) \in Routes!Paths(n + 1)
  <2> HIDE DEF Onward
  <2> QED BY <1>n, AppendPath
<1>b. \A h : /\ Len(Append(path, h)) = L + 1
             /\ Append(path, h)[L + 1] = h
             /\ \A i \in 1 .. L : Append(path, h)[i] = path[i]
  <2> TAKE h
  <2>1. path \in Seq(Hubs \cup {h})
    BY <1>0
  <2> QED
    BY <1>0, <2>1
<1> HIDE DEF Onward
<1>1. ASSUME p \in Beyond(to, n, path) PROVE \E h \in Onward : p \in Beyond(to, n, Append(path, h))
  <2>1. /\ p \in Routes!Paths(n + 1) /\ p \in Seq(Hubs)
        /\ Len(p) \in 2 .. n + 1 /\ L \in 1 .. Len(p)
        /\ \A i, j \in 1 .. Len(p) : p[i] = p[j] => i = j
        /\ \A i \in 1 .. L : p[i] = path[i]
        /\ p[Len(p)] = to
        /\ Len(p) = L => p = path
    BY <1>1, BeyondIs
  <2>2. Len(p) # L
    BY <2>1
  <2>3. L + 1 \in 1 .. Len(p) /\ L \in L .. Len(p) - 1
    BY <2>1, <2>2
  <2>4. /\ \A i \in L .. Len(p) - 1 : Routes!Edge(p[i], p[i + 1])
        /\ Routes!Known(p)
    BY <1>1 DEF Beyond
  <2> DEFINE h == p[L + 1]
  <2>5. Routes!Edge(path[L], h) /\ h \in Hubs
    BY <2>1, <2>3, <2>4
  <2>6. \A i \in 1 .. L : h # path[i]
    BY <2>1, <2>3
  <2>7. h \in Onward
    BY <1>n, <2>5, <2>6
  <2>8. Len(Append(path, h)) <= Len(p)
    BY <1>b, <2>3
  <2>9. \A i \in 1 .. Len(Append(path, h)) : p[i] = Append(path, h)[i]
    <3> SUFFICES ASSUME NEW i \in 1 .. L + 1 PROVE p[i] = Append(path, h)[i]
      BY <1>b
    <3>1. CASE i = L + 1
      BY <1>b, <3>1
    <3>2. CASE i \in 1 .. L
      BY <1>b, <2>1, <3>2
    <3> QED
      BY <1>0, <3>1, <3>2
  <2>10. \A i \in Len(Append(path, h)) .. Len(p) - 1 : Routes!Edge(p[i], p[i + 1])
    BY <1>0, <1>b, <2>1, <2>4
  <2>11. p \in Beyond(to, n, Append(path, h))
    <3> HIDE DEF h
    <3> QED BY <2>1, <2>4, <2>8, <2>9, <2>10 DEF Beyond
  <2> QED
    BY <2>7, <2>11
<1>2. ASSUME NEW h \in Onward, p \in Beyond(to, n, Append(path, h)) PROVE p \in Beyond(to, n, path)
  <2>1. /\ p \in Routes!Paths(n + 1) /\ Len(p) > 1 /\ L + 1 <= Len(p)
        /\ \A i \in 1 .. L + 1 : p[i] = Append(path, h)[i]
        /\ \A i \in L + 1 .. Len(p) - 1 : Routes!Edge(p[i], p[i + 1])
        /\ p[Len(p)] = to /\ Routes!Known(p)
    BY <1>2, <1>b DEF Beyond
  <2>2. p \in Seq(Hubs) /\ Len(p) \in Nat
    BY <2>1, n + 1 \in Nat, PathIs
  <2>3. \A i \in 1 .. L : p[i] = path[i]
    BY <1>0, <1>b, <2>1
  <2>4. p[L + 1] = h /\ p[L] = path[L]
    BY <1>0, <1>b, <2>1, <2>3
  <2>5. Routes!Edge(p[L], p[L + 1])
    BY <1>n, <2>4
  <2>6. \A i \in L .. Len(p) - 1 : Routes!Edge(p[i], p[i + 1])
    <3> TAKE i \in L .. Len(p) - 1
    <3>1. CASE i = L
      BY <2>5, <3>1
    <3>2. CASE i # L
      BY <1>0, <2>1, <2>2, <3>2
    <3> QED
      BY <3>1, <3>2
  <2>7. L <= Len(p)
    BY <1>0, <2>1, <2>2
  <2> QED
    BY <2>1, <2>3, <2>6, <2>7 DEF Beyond
<1> QED
  BY <1>1, <1>2 DEF Onward

\* Where the hops are used up nothing is beyond.
LEMMA NoHopsLeft ==
    ASSUME NEW n \in Nat \ {0}, NEW to, NEW path \in Routes!Paths(n + 1),
           Len(path) > n, path[Len(path)] # to
    PROVE  Beyond(to, n, path) = {}
<1> SUFFICES ASSUME NEW p \in Beyond(to, n, path) PROVE FALSE
  OBVIOUS
<1>1. Len(path) \in 1 .. n + 1
  BY WithinPath
<1>2. Len(p) \in 2 .. n + 1 /\ Len(path) \in 1 .. Len(p) /\ p[Len(p)] = to
      /\ (Len(p) = Len(path) => p = path)
  BY BeyondIs
<1> QED
  BY <1>1, <1>2

\* What is beyond a path is what the search answers from it: the equation of
\* dfs_routes has this solution,
LEMMA AnswersSolve ==
    ASSUME RoutingInv, NEW n \in Nat \ {0}, NEW to
    PROVE  Solves(Answers(to, n), to, n)
<1> DEFINE A == Answers(to, n)
<1>1. \A q \in Routes!Paths(n + 1) : A[q] = {Routes!BuildRoute(p) : p \in Beyond(to, n, q)}
  BY DEF Answers
<1>2. ASSUME NEW path \in Routes!Paths(n + 1)
      PROVE  {Routes!BuildRoute(p) : p \in Beyond(to, n, path)} = Call(A, to, n, path)
  <2> HIDE DEF A
  <2>1. Len(path) \in 1 .. n + 1 /\ Routes!Last(path) = path[Len(path)]
    BY WithinPath
  <2>2. CASE path[Len(path)] = to /\ Len(path) > 1
    <3>1. Beyond(to, n, path) = IF Routes!Known(path) THEN {path} ELSE {}
      BY <2>2, AtDestination
    <3>2. Call(A, to, n, path) = IF Routes!Known(path) THEN {Routes!BuildRoute(path)} ELSE {}
      BY <2>1, <2>2 DEF Call
    <3> QED
      BY <3>1, <3>2
  <2>3. CASE ~(path[Len(path)] = to /\ Len(path) > 1) /\ Len(path) <= n
    <3> DEFINE Onward == Routes!Range(graph[Routes!Last(path)]) \ Routes!Range(path)
    <3>1. Call(A, to, n, path) = UNION {A[Append(path, h)] : h \in Onward}
      BY <2>1, <2>3 DEF Call, Routes!MoreHops
    <3>2. \A h \in Onward : Append(path, h) \in Routes!Paths(n + 1)
      <4>1. \A h \in Onward : h \in Hubs /\ \A i \in 1 .. Len(path) : h # path[i]
        BY NextHubs
      <4> HIDE DEF Onward
      <4> QED
        BY <2>3, <4>1, AppendPath
    <3>3. \A p : p \in Beyond(to, n, path) <=>
                     \E h \in Onward : p \in Beyond(to, n, Append(path, h))
      BY <2>3, OneHopFurther
    <3> HIDE DEF Onward
    <3>4. \A h \in Onward :
             A[Append(path, h)] = {Routes!BuildRoute(p) : p \in Beyond(to, n, Append(path, h))}
      BY <1>1, <3>2
    <3> QED
      BY <3>1, <3>3, <3>4
  <2>4. CASE ~(path[Len(path)] = to /\ Len(path) > 1) /\ Len(path) > n
    <3>1. path[Len(path)] # to
      BY <2>1, <2>4
    <3>2. Beyond(to, n, path) = {}
      BY <2>4, <3>1, NoHopsLeft
    <3>3. Call(A, to, n, path) = {}
      BY <2>1, <2>4, <3>1 DEF Call, Routes!MoreHops
    <3> QED
      BY <3>2, <3>3
  <2> QED
    BY <2>1, <2>2, <2>3, <2>4
<1> QED
  BY <1>2 DEF Solves, Answers

\* and no other: of the paths two solutions differ at, one has the most hubs.
LEMMA DfsOnce ==
    ASSUME RoutingInv, NEW n \in Nat \ {0}, NEW to, NEW f, NEW g,
           Solves(f, to, n), Solves(g, to, n)
    PROVE  \A path \in Routes!Paths(n + 1) : f[path] = g[path]
<1> DEFINE D == {path \in Routes!Paths(n + 1) : f[path] # g[path]}
           Q == {n + 1 - Len(path) : path \in D}
<1>1. \A path \in Routes!Paths(n + 1) : Len(path) \in 1 .. n + 1
  BY WithinPath
<1>2. SUFFICES ASSUME D # {} PROVE FALSE
  OBVIOUS
<1>3. PICK k \in Q : \A j \in Q : j >= k
  <2>1. Q \in SUBSET (0 .. n + 1) /\ Q # {}
    BY <1>1, <1>2
  <2> HIDE DEF Q
  <2> QED
    BY <2>1, n + 1 \in Nat, SmallestNumber
<1>4. PICK path \in D : k = n + 1 - Len(path)
  BY <1>3
<1>5. path \in Routes!Paths(n + 1) /\ Len(path) \in 1 .. n + 1
  BY <1>1, <1>4
<1>6. \A q \in Routes!Paths(n + 1) : Len(q) = Len(path) + 1 => f[q] = g[q]
  <2> SUFFICES ASSUME NEW q \in D, Len(q) = Len(path) + 1 PROVE FALSE
    OBVIOUS
  <2>1. n + 1 - Len(q) \in Q
    OBVIOUS
  <2> HIDE DEF Q
  <2>2. n + 1 - Len(q) >= k
    BY <1>3, <2>1
  <2> QED
    BY <1>4, <1>5, <2>2
<1>7. Call(f, to, n, path) = Call(g, to, n, path)
  <2> DEFINE Onward == Routes!Range(graph[Routes!Last(path)]) \ Routes!Range(path)
  <2>1. CASE Routes!MoreHops(path, n)
    <3>1. Len(path) <= n
      BY <1>5, <2>1 DEF Routes!MoreHops
    <3>2. \A h \in Onward : h \in Hubs /\ \A i \in 1 .. Len(path) : h # path[i]
      BY <1>5, NextHubs
    <3>3. \A h \in Onward : Append(path, h) \in Routes!Paths(n + 1)
      <4> HIDE DEF Onward
      <4> QED BY <1>5, <3>1, <3>2, AppendPath
    <3>4. \A h \in Onward : Len(Append(path, h)) = Len(path) + 1
      <4>1. path \in Seq(Hubs)
        BY <1>5, WithinPath
      <4> HIDE DEF Onward
      <4> QED BY <3>2, <4>1
    <3>5. \A h \in Onward : f[Append(path, h)] = g[Append(path, h)]
      BY <1>6, <3>3, <3>4
    <3>6. {f[Append(path, h)] : h \in Onward} = {g[Append(path, h)] : h \in Onward}
      <4> HIDE DEF Onward
      <4> QED BY <3>5
    <3> QED
      BY <3>6 DEF Call
  <2>2. CASE ~Routes!MoreHops(path, n)
    BY <2>2 DEF Call
  <2> QED
    BY <2>1, <2>2
<1>8. f[path] = Call(f, to, n, path) /\ g[path] = Call(g, to, n, path)
  BY <1>5 DEF Solves
<1> QED
  BY <1>4, <1>7, <1>8

\* discover_routes answers with the complete paths that begin at its source.
LEMMA RoutesAreFound ==
    ASSUME RoutingInv, NEW n \in Nat \ {0}, NEW from \in Hubs, NEW to
    PROVE  Routes!DiscoverRoutes(from, to, n) =
               {Routes!BuildRoute(p) : p \in Beyond(to, n, <<from>>)}
<1> DEFINE dfs == CHOOSE f : Solves(f, to, n)
<1>1. Solves(Answers(to, n), to, n)
  BY AnswersSolve
<1>2. Solves(dfs, to, n)
  BY <1>1
<1>3. <<from>> \in Routes!Paths(n + 1)
  <2>1. <<from>> \in Seq(Hubs) /\ Len(<<from>>) = 1
    OBVIOUS
  <2>2. \A i, j \in 1 .. Len(<<from>>) : <<from>>[i] = <<from>>[j] => i = j
    BY <2>1
  <2>3. Len(<<from>>) \in 1 .. n + 1
    BY <2>1
  <2> HIDE DEF dfs
  <2>4. \A p : p \in Seq(Hubs) /\ Len(p) \in 1 .. n + 1
                  /\ (\A i, j \in 1 .. Len(p) : p[i] = p[j] => i = j)
              => p \in Routes!Paths(n + 1)
    BY n + 1 \in Nat, PathIs
  <2> QED
    BY <2>1, <2>2, <2>3, <2>4
<1>4. dfs[<<from>>] = Answers(to, n)[<<from>>]
  <2> HIDE DEF dfs
  <2> QED BY <1>1, <1>2, <1>3, DfsOnce
<1>5. Routes!DiscoverRoutes(from, to, n) = dfs[<<from>>]
  BY DfsIsChosen DEF Routes!DiscoverRoutes
<1> HIDE DEF dfs
<1> QED
  BY <1>3, <1>4, <1>5 DEF Answers

LEMMA RoutesComplete == RoutingInv => Routes!EveryRouteIsFound
<1> SUFFICES ASSUME RoutingInv, NEW from \in Hubs, NEW to \in Hubs,
                    NEW n \in 1 .. Routes!Cardinality(Hubs) - 1
             PROVE  {r.hops : r \in Routes!DiscoverRoutes(from, to, n)} =
                        {p \in Routes!Paths(n + 1) :
                            /\ Len(p) > 1 /\ p[1] = from /\ Routes!Last(p) = to
                            /\ Routes!Walkable(p) /\ Routes!Known(p)}
  BY DEF Routes!EveryRouteIsFound
<1>0. n \in Nat \ {0}
  OBVIOUS
<1>1. {r.hops : r \in Routes!DiscoverRoutes(from, to, n)} = Beyond(to, n, <<from>>)
  <2>1. \A p : Routes!BuildRoute(p).hops = p
    BY DEF Routes!BuildRoute
  <2>2. Routes!DiscoverRoutes(from, to, n) =
            {Routes!BuildRoute(p) : p \in Beyond(to, n, <<from>>)}
    BY <1>0, RoutesAreFound
  <2> QED
    BY <2>1, <2>2
<1>2. ASSUME NEW p \in Routes!Paths(n + 1), Len(p) > 1
      PROVE  /\ Routes!Last(p) = p[Len(p)]
             /\ Len(<<from>>) = 1 /\ <<from>>[1] = from /\ Len(p) \in Nat
  BY <1>0, <1>2, WithinPath
<1>3. ASSUME NEW p \in Routes!Paths(n + 1), Len(p) > 1
      PROVE  p \in Beyond(to, n, <<from>>) <=>
                 /\ p[1] = from /\ Routes!Last(p) = to
                 /\ Routes!Walkable(p) /\ Routes!Known(p)
  BY <1>2, <1>3 DEF Beyond, Routes!Walkable
<1> QED
  BY <1>1, <1>3 DEF Beyond

-----------------------------------------------------------------------------
(* The three parts side by side.                                           *)

PartsInv == HubInv /\ RoutingInv

LEMMA PartsInvHolds == PartsSpec => []PartsInv
<1>1. PartsInit => PartsInv
  BY HubInit, RoutingInit DEF PartsInit, PartsInv
<1>2. PartsInv /\ [PartsNext]_<<part, vars, hubVars, routingVars>> => PartsInv'
  <2> SUFFICES ASSUME PartsInv, [PartsNext]_<<part, vars, hubVars, routingVars>> PROVE PartsInv'
    OBVIOUS
  <2>1. [Hub!Next]_hubVars /\ [Routes!Next]_routingVars
    BY DEF PartsNext
  <2> QED
    BY <2>1, HubStep, RoutingStep DEF PartsInv
<1> QED
  BY <1>1, <1>2, PTL DEF PartsSpec

\* A client that asks for the list of hubs page by page, newest first (list_hubs in
\* repository.rs), gets to see every hub that was on the list all the time,
\* although hubs are registered and updated between its pages.
THEOREM NoHubMissed == PartsSpec => []ReaderMissesNoHub
<1>1. HubInv => ReaderMissesNoHub
  BY DEF HubInv, ReaderMissesNoHub, Hub!ReaderMissesNoHub
<1> QED
  BY <1>1, PartsInvHolds, PTL DEF PartsInv

\* discover_routes (routing.rs) finds every simple path of known hubs within
\* the allowed number of hops and nothing else, for any graph of channels.
THEOREM RoutesFound == PartsSpec => []EveryRouteIsFound
<1>1. RoutingInv => EveryRouteIsFound
  BY RoutesComplete DEF EveryRouteIsFound
<1> QED
  BY <1>1, PartsInvHolds, PTL DEF PartsInv
=============================================================================
