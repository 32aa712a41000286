---------------------------- MODULE DidRegistry ----------------------------
(***************************************************************************)
(* The merchant registry (src/did-registry) in front of the on-chain DID   *)
(* program (src/ignite-pay-did-program), joined by the transactions that   *)
(* src/ignite-pay-solana builds.  A merchant signs a request with a nonce  *)
(* of the registry.  In "sponsored" mode the registry's payer signs the    *)
(* transaction and the handler waits for it; in "self_onchain" mode the    *)
(* merchant gets an unsigned transaction, broadcasts it and confirms the   *)
(* registration.  The registry answers every later question from its own   *)
(* cache of the account and never reads the chain again.                   *)
(*                                                                         *)
(* Both builds are modelled: the default one keeps an account at an        *)
(* address derived from a key, the zk-compression one hands the account    *)
(* to the instruction by value.                                            *)
(***************************************************************************)
EXTENDS Naturals, Sequences

CONSTANTS
    Merchants,      \* merchant DIDs
    Keys,           \* Solana keys
    Payer,          \* the registry's own key
    KeysOf,         \* the keys a merchant holds
    DidKey,         \* the key a merchant's DID is made of
    Vcs,            \* hashes of credentials
    Issued,         \* whose credential each is to begin with, or None
    None,
    MaxRequests,    \* bound: requests signed, each with a nonce of its own
    MaxNonce,       \* bound: changes of one on-chain account
    MaxRestarts     \* bound: restarts of the registry

Builds == {"pda", "zk"}
Modes == {"sponsored", "self_onchain"}
Operations == {"issue", "register", "confirm", "rotate", "update", "revoke"}
Instructions == {"initialize", "update", "recovery", "recover", "revoke"}

\* A merchant's account, on the chain and as the registry's copy of it
DidAccount ==
    [original : Keys, controller : Keys, recovery : Keys \cup {None},
     vc : Vcs, nonce : Nat]

ASSUME DidAssumption ==
    /\ Payer \in Keys
    /\ KeysOf \in [Merchants -> SUBSET Keys]
    /\ DidKey \in [Merchants -> Keys]
    /\ Issued \in [Vcs -> Merchants \cup {None}]
    /\ None \notin Merchants \cup Keys \cup Vcs \cup DidAccount
    /\ {MaxRequests, MaxNonce, MaxRestarts} \subseteq Nat

Request ==
    [op : Operations, m : Merchants, key : Keys \cup {None},
     vc : Vcs \cup {None}, mode : Modes]

\* A transaction on its way.  "saves" is what the handler that waits for it
\* will write into the registry's cache.
Transaction ==
    [op : Instructions, m : Merchants, signer : Keys, account : Keys \cup {None},
     key : Keys \cup {None}, subject : Keys \cup {None}, vc : Vcs \cup {None},
     nonce : Nat, copy : DidAccount \cup {None}, saves : DidAccount \cup {None}]

VARIABLES
    build,      \* which of the two builds is deployed
    did,        \* chain: the account whose original key is k, or None
    revoked,    \* chain: credentials with a revocation account
    txs,        \* transactions that have been built and neither landed nor expired
    cache,      \* registry, on disk: a merchant's account as far as it knows
    vault,      \* registry, on disk: whose credential a hash is
    nonces,     \* registry, in memory: nonces that are valid
    waiting,    \* handlers whose transaction landed: <<merchant, account to cache>>
    asked,      \* the requests signed so far, a request's place is its nonce;
                \* one whose nonce is gone can do no more and is forgotten
    restarts,
    bound,      \* history: <<key, vc>> the platform has signed
    holders,    \* history: the keys that have controlled an account
    landed      \* history: changes of accounts that have landed

chainVars == <<did, revoked, holders, landed>>
registryVars == <<cache, vault, bound>>
vars == <<build, did, revoked, txs, cache, vault, nonces, waiting,
          asked, restarts, bound, holders, landed>>

Init ==
    /\ build \in Builds
    /\ did = [k \in Keys |-> None]
    /\ revoked = {}
    /\ txs = {}
    /\ cache = [m \in Merchants |-> None]
    /\ vault = Issued
    /\ nonces = {}
    /\ waiting = {}
    /\ asked = <<>>
    /\ restarts = 0
    /\ bound = {}
    /\ holders = [k \in Keys |-> {}]
    /\ landed = {}

-----------------------------------------------------------------------------
(* Merchants, the platform's operator, and the registry's nonces *)

\* What a merchant may sensibly ask for: its own keys and credentials.  The key and
\* the hash of a confirmation are not part of what it signs there, and may be other
\* ones than it has registered.
Askable(r) ==
    /\ r.key # None <=> r.op \in {"register", "confirm", "rotate"}
    /\ r.vc # None <=> r.op \in {"register", "confirm", "update", "revoke"}
    /\ r.op \in {"issue", "revoke"} => r.mode = "sponsored"
    /\ r.key # None => r.key \in KeysOf[r.m]
    /\ r.vc # None /\ r.op # "confirm" => vault[r.vc] = r.m
    /\ r.op = "confirm" => r.mode = "self_onchain"

IssueNonce ==
    /\ Len(asked) < MaxRequests
    /\ \E r \in Request :
        /\ Askable(r)
        /\ asked' = Append(asked, r)
    /\ nonces' = nonces \cup {Len(asked) + 1}
    /\ UNCHANGED <<build, txs, waiting, restarts, chainVars, registryVars>>

\* A nonce is good for five minutes; a handler that refuses its request, or that
\* an RPC failure ends before its transaction is sent, has used it as well
NonceIsLost(n) ==
    /\ n \in nonces
    /\ nonces' = nonces \ {n}
    /\ asked' = [asked EXCEPT ![n] = None]
    /\ UNCHANGED <<build, txs, waiting, restarts, chainVars, registryVars>>

\* Every handler starts with the nonce, and a request without one is refused
verify_and_consume_nonce(n) ==
    /\ n \in nonces
    /\ nonces' = nonces \ {n}
    /\ asked' = [asked EXCEPT ![n] = None]

Takes(n, op) ==
    /\ verify_and_consume_nonce(n)
    /\ asked[n].op = op
    /\ UNCHANGED <<build, waiting, restarts, chainVars>>

-----------------------------------------------------------------------------
(* The registry's handlers, up to the transaction they send or hand out *)

issue_vc(n, v) ==
    LET m == asked[n].m IN
    /\ Takes(n, "issue")
    /\ cache[m] # None => DidKey[m] \in {cache[m].controller, cache[m].original}
    /\ vault[v] = None
    /\ vault' = [vault EXCEPT ![v] = m]
    /\ UNCHANGED <<txs, cache, bound>>

\* The platform's signature that ties a credential to a key; it names neither
\* the account nor its nonce
sign_vc_binding(key, v) == bound' = bound \cup {<<key, v>>}

Signer(r, key) == IF r.mode = "sponsored" THEN Payer ELSE key

\* What the handler of a sponsored request caches when its transaction lands
Saves(r, account) == IF r.mode = "sponsored" THEN account ELSE None

Fresh(key, v) ==
    [original |-> key, controller |-> key, recovery |-> None, vc |-> v, nonce |-> 0]

initialize_tx(r) ==
    [op |-> "initialize", m |-> r.m, signer |-> Signer(r, r.key), account |-> r.key,
     key |-> r.key, subject |-> r.key, vc |-> r.vc, nonce |-> 0, copy |-> None,
     saves |-> Saves(r, Fresh(r.key, r.vc))]

register_merchant(n) ==
    LET r == asked[n] IN
    /\ build = "pda"
    /\ Takes(n, "register")
    /\ sign_vc_binding(r.key, r.vc)
    /\ txs' = txs \cup {initialize_tx(r)}
    /\ UNCHANGED <<cache, vault>>

register_merchant_zk(n) ==
    LET r == asked[n] IN
    /\ build = "zk"
    /\ Takes(n, "register")
    /\ sign_vc_binding(r.key, r.vc)
    /\ txs' = txs \cup {initialize_tx(r)}
    /\ UNCHANGED <<cache, vault>>

\* The request names a transaction that has been confirmed.  Whether it succeeded,
\* what it did and whose it is is not looked at, so that there is always one to
\* name; a request that names another is refused (NonceIsLost).
confirm_register(n) ==
    LET r == asked[n] IN
    /\ Takes(n, "confirm")
    /\ cache[r.m] = None
    /\ cache' = [cache EXCEPT ![r.m] = Fresh(r.key, r.vc)]
    /\ UNCHANGED <<txs, vault, bound>>

Rotated(account, key) ==
    [original |-> account.original, controller |-> key, recovery |-> account.recovery,
     vc |-> account.vc, nonce |-> account.nonce + 1]

set_recovery_key_tx(r, known, account, copy) ==
    [op |-> "recovery", m |-> r.m, signer |-> Signer(r, known.controller),
     account |-> account, key |-> r.key, subject |-> None, vc |-> None,
     nonce |-> known.nonce, copy |-> copy, saves |-> Saves(r, Rotated(known, r.key))]

\* The address is derived from the signer.  In self_onchain mode the cache has
\* the new controller at once.
rotate_key(n) ==
    LET r == asked[n] IN
    /\ build = "pda"
    /\ Takes(n, "rotate")
    /\ cache[r.m] # None
    /\ txs' = txs \cup {set_recovery_key_tx(r, cache[r.m],
                                           Signer(r, cache[r.m].controller), None)}
    /\ cache' = IF r.mode = "sponsored" THEN cache
                ELSE [cache EXCEPT ![r.m] = Rotated(cache[r.m], r.key)]
    /\ UNCHANGED <<vault, bound>>

rotate_key_zk(n) ==
    LET r == asked[n] IN
    /\ build = "zk"
    /\ Takes(n, "rotate")
    /\ cache[r.m] # None
    /\ txs' = txs \cup {set_recovery_key_tx(r, cache[r.m],
                                           cache[r.m].original, cache[r.m])}
    /\ UNCHANGED registryVars

Updated(account, v) ==
    [original |-> account.original, controller |-> account.controller,
     recovery |-> account.recovery, vc |-> v, nonce |-> account.nonce + 1]

update_did_tx(r, known, account, copy) ==
    [op |-> "update", m |-> r.m, signer |-> Signer(r, known.controller),
     account |-> account, key |-> None, subject |-> known.controller, vc |-> r.vc,
     nonce |-> known.nonce, copy |-> copy, saves |-> Saves(r, Updated(known, r.vc))]

update_vc(n) ==
    LET r == asked[n] IN
    /\ build = "pda"
    /\ Takes(n, "update")
    /\ cache[r.m] # None
    /\ sign_vc_binding(cache[r.m].controller, r.vc)
    /\ txs' = txs \cup {update_did_tx(r, cache[r.m],
                                     Signer(r, cache[r.m].controller), None)}
    /\ UNCHANGED <<cache, vault>>

update_vc_zk(n) ==
    LET r == asked[n] IN
    /\ build = "zk"
    /\ Takes(n, "update")
    /\ cache[r.m] # None
    /\ sign_vc_binding(cache[r.m].controller, r.vc)
    /\ txs' = txs \cup {update_did_tx(r, cache[r.m], cache[r.m].original, cache[r.m])}
    /\ UNCHANGED <<cache, vault>>

\* Nothing the registry keeps of a revocation is ever read
revoke_vc(n) ==
    LET r == asked[n] IN
    /\ Takes(n, "revoke")
    /\ txs' = txs \cup
         {[op |-> "revoke", m |-> r.m, signer |-> Payer, account |-> None, key |-> None,
           subject |-> None, vc |-> r.vc, nonce |-> 0, copy |-> None, saves |-> None]}
    /\ UNCHANGED registryVars

\* The holder of the recovery key reads the account from the chain and takes
\* the account over
recover_controller_tx(m, k, new) ==
    [op |-> "recover", m |-> m, signer |-> did[k].recovery, account |-> k, key |-> new,
     subject |-> None, vc |-> None, nonce |-> did[k].nonce,
     copy |-> IF build = "zk" THEN did[k] ELSE None, saves |-> None]

Recover(m, k, new) ==
    /\ did[k] # None
    /\ did[k].nonce < MaxNonce
    /\ did[k].recovery \in KeysOf[m]
    /\ new \in KeysOf[m]
    /\ txs' = txs \cup {recover_controller_tx(m, k, new)}
    /\ UNCHANGED <<build, nonces, waiting, asked, restarts, chainVars, registryVars>>

-----------------------------------------------------------------------------
(* The program's instructions *)

\* Fault: the program verifies the signature over the subject it is given
VerifyArgument(t) == <<t.subject, t.vc>> \in bound

\* The registry signed what it put into the transaction; the program asks for
\* a signature that names the signer
verify_ed25519_signature(t) == t.subject = t.signer /\ <<t.signer, t.vc>> \in bound

\* A transaction that executes.  A handler that waits for it learns of it.
Executes(t) ==
    /\ t \in txs
    /\ txs' = txs \ {t}
    /\ waiting' = IF t.saves = None THEN waiting ELSE waiting \cup {<<t.m, t.saves>>}
    /\ UNCHANGED <<build, nonces, asked, restarts, registryVars>>

Creates(t) ==
    /\ Executes(t)
    /\ did' = [did EXCEPT ![t.account] = Fresh(t.signer, t.vc)]
    /\ holders' = [holders EXCEPT ![t.account] = {t.signer}]
    /\ UNCHANGED <<revoked, landed>>

\* A change of an account: "new" differs from the account in one field
Changes(t, new) ==
    /\ Executes(t)
    /\ did' = [did EXCEPT ![t.account] = [new EXCEPT !.nonce = did[t.account].nonce + 1]]
    /\ holders' = [holders EXCEPT ![t.account] = @ \cup {new.controller}]
    /\ landed' = landed \cup {t}
    /\ UNCHANGED revoked

\* Fault: the nonce is not compared
AtAnyNonce(t) == t.account \in Keys /\ did[t.account] # None

\* The account exists and the nonce is its nonce.  In the zk build the account
\* is an argument that has to be the one in the state tree.
AtNonce(t) ==
    /\ t.account \in Keys
    /\ did[t.account] # None
    /\ did[t.account].nonce = t.nonce

AtCopy(t) == t.account \in Keys /\ did[t.account] # None /\ did[t.account] = t.copy

InitializeDid(t) == t.account = t.signer /\ did[t.signer] = None
UpdateDidWithVc(t) == did[t.account].controller = t.signer
SetRecoveryKey(t) == did[t.account].controller = t.signer
RecoverController(t) == did[t.account].recovery = t.signer

MayInitialize(t) == t.op = "initialize" /\ InitializeDid(t) /\ verify_ed25519_signature(t)
MayUpdate(t) == t.op = "update" /\ AtNonce(t) /\ UpdateDidWithVc(t) /\ verify_ed25519_signature(t)
MaySetRecovery(t) == t.op = "recovery" /\ AtNonce(t) /\ SetRecoveryKey(t)
MayRecover(t) == t.op = "recover" /\ AtNonce(t) /\ RecoverController(t)

initialize_did(t) == build = "pda" /\ MayInitialize(t) /\ Creates(t)
update_did_with_vc(t) ==
    build = "pda" /\ MayUpdate(t) /\ Changes(t, [did[t.account] EXCEPT !.vc = t.vc])
set_recovery_key(t) ==
    build = "pda" /\ MaySetRecovery(t) /\ Changes(t, [did[t.account] EXCEPT !.recovery = t.key])
recover_controller(t) ==
    build = "pda" /\ MayRecover(t) /\ Changes(t, [did[t.account] EXCEPT !.controller = t.key])

initialize_did_zk(t) == build = "zk" /\ MayInitialize(t) /\ Creates(t)
update_did_with_vc_zk(t) ==
    /\ build = "zk" /\ MayUpdate(t) /\ AtCopy(t)
    /\ Changes(t, [t.copy EXCEPT !.vc = t.vc])
set_recovery_key_zk(t) ==
    /\ build = "zk" /\ MaySetRecovery(t) /\ AtCopy(t)
    /\ Changes(t, [t.copy EXCEPT !.recovery = t.key])
recover_controller_zk(t) ==
    /\ build = "zk" /\ MayRecover(t) /\ AtCopy(t)
    /\ Changes(t, [t.copy EXCEPT !.controller = t.key])

\* Only the authority, which is the payer; one revocation account per hash
RevokeVc(t) == t.op = "revoke" /\ t.vc \notin revoked

revoke_vc_onchain(t) ==
    /\ RevokeVc(t)
    /\ Executes(t)
    /\ revoked' = revoked \cup {t.vc}
    /\ UNCHANGED <<did, holders, landed>>

\* The blockhash expires, the merchant never broadcasts, the simulation fails, or
\* the instruction fails on the chain, where all that is left of it is a signature
\* that is confirmed
Expires(t) ==
    /\ t \in txs
    /\ txs' = txs \ {t}
    /\ UNCHANGED <<build, nonces, waiting, asked, restarts, chainVars, registryVars>>

-----------------------------------------------------------------------------
(* After the await: what the registry records *)

cache_merchant(m, account) ==
    /\ <<m, account>> \in waiting
    /\ waiting' = waiting \ {<<m, account>>}
    /\ cache' = [cache EXCEPT ![m] = account]
    /\ UNCHANGED <<build, txs, nonces, asked, restarts, vault, bound, chainVars>>

\* Nonces and waiting handlers are gone, the cache and the credentials are not
Restart ==
    /\ restarts < MaxRestarts
    /\ restarts' = restarts + 1
    /\ nonces' = {}
    /\ asked' = [n \in DOMAIN asked |-> None]
    /\ waiting' = {}
    /\ txs' = {[t EXCEPT !.saves = None] : t \in txs}
    /\ UNCHANGED <<build, chainVars, registryVars>>

Handles(n) ==
    \/ \E v \in Vcs : issue_vc(n, v)
    \/ register_merchant(n)
    \/ register_merchant_zk(n)
    \/ confirm_register(n)
    \/ rotate_key(n)
    \/ rotate_key_zk(n)
    \/ update_vc(n)
    \/ update_vc_zk(n)
    \/ revoke_vc(n)

Ledger(t) ==
    \/ initialize_did(t)
    \/ update_did_with_vc(t)
    \/ set_recovery_key(t)
    \/ recover_controller(t)
    \/ initialize_did_zk(t)
    \/ update_did_with_vc_zk(t)
    \/ set_recovery_key_zk(t)
    \/ recover_controller_zk(t)
    \/ revoke_vc_onchain(t)
    \/ Expires(t)

Next ==
    \/ IssueNonce
    \/ \E n \in 1..MaxRequests : NonceIsLost(n) \/ Handles(n)
    \/ \E m \in Merchants, k, new \in Keys : Recover(m, k, new)
    \/ \E t \in txs : Ledger(t)
    \/ \E w \in waiting : cache_merchant(w[1], w[2])
    \/ Restart

Spec == Init /\ [][Next]_vars
=============================================================================
