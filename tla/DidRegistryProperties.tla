----------------------- MODULE DidRegistryProperties -----------------------
(* What the merchant registry and the DID program must keep. *)
EXTENDS DidRegistry

\* Every variable of the registry and of the program has its type.
TypeOK ==
    /\ build \in Builds
    /\ did \in [Keys -> DidAccount \cup {None}]
    /\ revoked \subseteq Vcs
    /\ txs \subseteq Transaction
    /\ cache \in [Merchants -> DidAccount \cup {None}]
    /\ vault \in [Vcs -> Merchants \cup {None}]
    /\ nonces \subseteq 1..MaxRequests
    /\ waiting \subseteq Merchants \X DidAccount
    /\ asked \in Seq(Request \cup {None})
    /\ restarts \in Nat
    /\ bound \subseteq Keys \X Vcs
    /\ holders \in [Keys -> SUBSET Keys]
    /\ landed \subseteq Transaction

\* The credential an account carries is one the platform has signed for a key
\* that controlled the account, whatever transactions of which merchant were
\* prepared, kept back, rotated past or sponsored by the payer
\* (ignite-pay-did-program lib.rs:217-307: the signature covers the signer and
\* the hash, neither the account nor its nonce).
VcIsBound ==
    \A k \in Keys : did[k] # None =>
        \E c \in holders[k] : <<c, did[k].vc>> \in bound

\* Of all the transactions prepared from one state of an account, at most one
\* lands: a second one prepared from the same copy in the cache, or one kept
\* back, does not undo the first (lib.rs:275, 318 and 343: the nonce).
OnePerState ==
    \A s, t \in landed : s.account = t.account /\ s.nonce = t.nonce => s = t

-----------------------------------------------------------------------------
(* What the code does not keep *)

\* A merchant the registry calls registered has an account on the chain under
\* the key it registered (confirm.rs:129-174 takes any confirmed signature, and the
\* key and the hash from the request).
CachedIsOnChain ==
    \A m \in Merchants : cache[m] # None => did[cache[m].original] # None

\* Once nothing is on its way, the cache says what the chain says
\* (rotate_key.rs:195-201 writes it before the broadcast, update_vc.rs:166-209
\* never writes it for a transaction the merchant broadcasts).
CacheMatchesChain ==
    txs = {} /\ waiting = {} =>
        \A m \in Merchants : cache[m] # None => cache[m] = did[cache[m].original]

\* A merchant the profile shows as verified has a credential that is not
\* revoked (profile.rs:54-107 looks neither at the chain nor at the mark that
\* revoke_vc.rs:90-95 leaves).
Verified(m) == cache[m] # None /\ vault[cache[m].vc] # None
VerifiedIsNotRevoked == \A m \in Merchants : Verified(m) => cache[m].vc \notin revoked
=============================================================================
