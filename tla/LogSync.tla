------------------------------- MODULE LogSync -------------------------------
(***************************************************************************)
(* The phone's transaction log and its copy on IPFS: rows in SQLite         *)
(* (log_store.rs), packed into chunks that name their predecessor by its    *)
(* hash (log_chunk.rs) and listed in a manifest (log_sync.rs), from which   *)
(* another phone restores them.  An upload is an await: it may fail, and    *)
(* rows are recorded meanwhile.  Content is what its hash says, so that a   *)
(* chunk, its CID and its hash are one value: each encryption takes a fresh *)
(* IV, here the number of the attempt.                                     *)
(*                                                                         *)
(* No screen of the app calls the store yet.  Its caller is taken to number *)
(* rows in the order it records them, to keep the manifest between calls    *)
(* and, after a restart, to fetch the one whose CID it was returned last.   *)
(***************************************************************************)
EXTENDS Naturals, Sequences, SequencesExt

CONSTANTS
    MaxRows,      \* bound on rows of the log
    MaxAttempts,  \* bound on calls of sync_to_ipfs
    MaxRestarts,  \* bound on restarts of the phone
    None          \* Rust's None

LogSyncAssumption == MaxRows \in Nat /\ MaxAttempts \in Nat /\ MaxRestarts \in Nat

VARIABLES
    table,      \* the rows by nonce: is the row marked as synced
    manifest,   \* the caller's manifest: the chunks it lists
    returned,   \* the manifest whose CID sync_to_ipfs returned last
    call,       \* a call of sync_to_ipfs under way: [step, chunk], or None
    uploaded,   \* the manifests on IPFS
    attempts,   \* history: calls of sync_to_ipfs
    restored,   \* another phone's table after a restore, or None
    restarts    \* history: restarts

logVars == <<table, manifest, returned, call, uploaded, attempts, restored, restarts>>

Init ==
    /\ table = <<>> /\ manifest = <<>> /\ returned = <<>>
    /\ call = None /\ uploaded = {} /\ restored = None
    /\ attempts = 0 /\ restarts = 0

-----------------------------------------------------------------------------
(* The local table.                                                        *)

RecordTransaction ==
    /\ Len(table) < MaxRows
    /\ table' = Append(table, FALSE)
    /\ UNCHANGED <<manifest, returned, call, uploaded, attempts, restored, restarts>>

Synced == {n \in DOMAIN table : table[n]}

Latest(nonces) == CHOOSE n \in nonces : \A k \in nonces : k <= n

LastSyncedNonce == IF Synced = {} THEN 0 ELSE Latest(Synced)

\* The rows are taken in the order of their nonces.
UnsyncedEntries(since) == {n \in DOMAIN table : ~table[n] /\ n > since}

\* Fault: whatever is in the table when the upload is done counts as sent.
MarkAll(upTo) == [n \in DOMAIN table |-> TRUE]

MarkSynced(upTo) == [n \in DOMAIN table |-> table[n] \/ n <= upTo]

-----------------------------------------------------------------------------
(* Chunks and manifests.  A hash stands for all of the chunk, so that a     *)
(* chunk names its predecessor by it, or by zeroes (None).                 *)

BuildChunk(id, prev, entries) ==
    [id |-> id, prev |-> prev, entries |-> entries, iv |-> attempts]

ChunkHash(chunk) == chunk.iv

\* The chunk with the highest number is the last one listed.
NextChunk ==
    IF manifest = <<>> THEN BuildChunk(1, None, UnsyncedEntries(LastSyncedNonce))
    ELSE BuildChunk(Last(manifest).id + 1, ChunkHash(Last(manifest)),
                    UnsyncedEntries(LastSyncedNonce))

AddManifestEntry(chunk) == Append(manifest, chunk)

\* restore_from_ipfs: the chunks by number, each after the one it names.
ChainHolds(m) == \A i \in 2 .. Len(m) : m[i].prev = ChunkHash(m[i - 1])

Entries(m) == UNION {m[i].entries : i \in DOMAIN m}

-----------------------------------------------------------------------------
(* sync_to_ipfs and sync_chunk_to_ipfs.                                     *)

SyncToIpfs ==
    /\ call = None /\ attempts < MaxAttempts
    /\ UnsyncedEntries(LastSyncedNonce) # {}
    /\ call' = [step |-> "chunk", chunk |-> NextChunk]
    /\ attempts' = attempts + 1
    /\ UNCHANGED <<table, manifest, returned, uploaded, restored, restarts>>

\* The chunk is listed in the caller's manifest once it is uploaded ...
UploadChunk ==
    /\ call # None /\ call.step = "chunk"
    /\ \/ call' = [call EXCEPT !.step = "manifest"] /\ manifest' = AddManifestEntry(call.chunk)
       \/ call' = None /\ UNCHANGED manifest
    /\ UNCHANGED <<table, returned, uploaded, attempts, restored, restarts>>

\* ... and stays there when the manifest cannot be, or the rows not marked.
UploadManifest ==
    /\ call # None /\ call.step = "manifest"
    /\ call' = None
    /\ \/ /\ uploaded' = uploaded \cup {manifest}
          /\ \/ table' = MarkSynced(Latest(call.chunk.entries)) /\ returned' = manifest
             \/ UNCHANGED <<table, returned>>
       \/ UNCHANGED <<uploaded, table, returned>>
    /\ UNCHANGED <<manifest, attempts, restored, restarts>>

\* In the order of the nonces; record_transaction fails at the first one that
\* is in the table already, and leaves the rows before it.
Restore ==
    /\ returned # <<>> /\ ChainHolds(returned)
    /\ LET doubles == {n \in Entries(returned) : \E i, j \in DOMAIN returned :
                           i # j /\ n \in returned[i].entries \cap returned[j].entries}
       IN  restored' = [rows |-> {n \in Entries(returned) : \A d \in doubles : n <= d},
                        failed |-> doubles # {}]
    /\ UNCHANGED <<table, manifest, returned, call, uploaded, attempts, restarts>>

\* The phone restarts, at any point of a call.
Restart ==
    /\ restarts < MaxRestarts
    /\ restarts' = restarts + 1
    /\ call' = None /\ manifest' = returned
    /\ UNCHANGED <<table, returned, uploaded, attempts, restored>>

\* ... also between the mark and the return, when the CID is lost.
ReturnIsLost ==
    /\ call # None /\ call.step = "manifest" /\ restarts < MaxRestarts
    /\ restarts' = restarts + 1
    /\ uploaded' = uploaded \cup {manifest}
    /\ table' = MarkSynced(Latest(call.chunk.entries))
    /\ call' = None /\ manifest' = returned
    /\ UNCHANGED <<returned, attempts, restored>>

Next ==
    \/ RecordTransaction
    \/ SyncToIpfs
    \/ UploadChunk
    \/ UploadManifest
    \/ Restore
    \/ Restart
    \/ ReturnIsLost

Spec == Init /\ [][Next]_logVars

-----------------------------------------------------------------------------
(* A row marked as synced can be restored: some manifest on IPFS lists its  *)
(* chunk in a chain that holds, however many uploads before it failed       *)
(* (sync_to_ipfs: the mark comes after the upload, and covers only the rows *)
(* that went with it).                                                     *)
SyncedIsRestorable ==
    \A n \in Synced : \E m \in uploaded : ChainHolds(m) /\ n \in Entries(m)

(* By hand, and violated: the manifest the caller has lists each row once,  *)
(* so that a restore ends (a chunk whose manifest failed is listed twice).  *)
RestoreSucceeds == restored # None => ~restored.failed

(* By hand, and violated: the last CID the caller was given finds every row *)
(* marked as synced (it is lost with a restart after the mark).             *)
ReturnedFindsAll == \A n \in Synced : n \in Entries(returned)
=============================================================================
