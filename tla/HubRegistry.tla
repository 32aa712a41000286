---------------------------- MODULE HubRegistry ------------------------------
(***************************************************************************)
(* The hub registry's table (repository.rs), one row per hub DID, and a     *)
(* client that reads the list page by page: newest first, by LIMIT and      *)
(* OFFSET, filtered by status in the query and by token after it.          *)
(***************************************************************************)
EXTENDS Naturals, Sequences, FiniteSets, SequencesExt

CONSTANTS
    Hubs,        \* hub DIDs
    Tokens,      \* token mints a hub may support
    PageSize,    \* the LIMIT of the client's query
    Filter,      \* the client's query: "all", "active" or "token"
    MaxUpdates,  \* bound on updates of a hub
    None         \* Rust's None

HubRegistryAssumption ==
    /\ IsFiniteSet(Hubs) /\ PageSize \in Nat \ {0} /\ MaxUpdates \in Nat
    /\ None \notin Nat
    /\ Filter \in {"all", "active", "token"}

VARIABLES
    table,    \* the rows, oldest first: [did, status, tokens]
    page,     \* the OFFSET the client asks for next, or None when it is not reading
    seen,     \* what the client has read so far
    present,  \* history: the hubs that match since the client began
    ended,    \* history: the client has read the last page
    updates   \* history: updates of hubs

registryVars == <<table, page, seen, present, ended, updates>>

Row(h, tokens) == [did |-> h, status |-> "active", tokens |-> tokens]

Dids(rows) == {rows[i].did : i \in DOMAIN rows}

Matches(row) ==
    CASE Filter = "all" -> TRUE
      [] Filter = "active" -> row.status = "active"
      [] Filter = "token" -> row.tokens # {}

Matching(rows) == {rows[i].did : i \in {j \in DOMAIN rows : Matches(rows[j])}}

Init ==
    /\ table = <<>> /\ page = None /\ seen = {} /\ present = {} /\ ended = FALSE /\ updates = 0

\* The history keeps those that matched all along.
Changes(rows) ==
    /\ table' = rows
    /\ present' = present \cap Matching(rows)
    /\ UNCHANGED <<page, seen, ended>>

\* hub_did is UNIQUE: a hub that was deregistered cannot come back.
RegisterHub(h, tokens) ==
    /\ h \notin Dids(table)
    /\ Changes(Append(table, Row(h, tokens)))
    /\ UNCHANGED updates

\* COALESCE: a field that is not given stays.
UpdateHub(i, status, tokens) ==
    /\ i \in DOMAIN table /\ updates < MaxUpdates
    /\ updates' = updates + 1
    /\ Changes([table EXCEPT ![i] =
           [did |-> @.did, status |-> IF status = None THEN @.status ELSE status,
            tokens |-> IF tokens = None THEN @.tokens ELSE tokens]])

\* Fault: deregistering deletes the row.
DeleteHub(i) ==
    /\ i \in DOMAIN table /\ updates < MaxUpdates
    /\ updates' = updates + 1
    /\ Changes(RemoveAt(table, i))

\* A hub is never deleted.
DeregisterHub(i) == UpdateHub(i, "inactive", None)

-----------------------------------------------------------------------------
(* list_hubs: ORDER BY created_at DESC LIMIT OFFSET, then the token filter. *)

NewestFirst(rows) == Reverse(rows)

Selected(rows) == IF Filter = "active" THEN SelectSeq(rows, LAMBDA r : r.status = "active") ELSE rows

ListHubs(offset) ==
    LET rows == NewestFirst(Selected(table))
        last == IF offset + PageSize < Len(rows) THEN offset + PageSize ELSE Len(rows)
        listed == SubSeq(rows, offset + 1, last)
    IN  IF Filter = "token" THEN SelectSeq(listed, Matches) ELSE listed

StartReading ==
    /\ page = None /\ ~ended
    /\ page' = 0
    /\ seen' = {} /\ present' = Matching(table)
    /\ UNCHANGED <<table, ended, updates>>

\* A page that is not full is the last one.
ReadPage ==
    /\ page # None
    /\ LET rows == ListHubs(page)
           last == Len(rows) < PageSize
       IN  /\ seen' = seen \cup Dids(rows)
           /\ page' = IF last THEN None ELSE page + PageSize
           /\ ended' = last
    /\ UNCHANGED <<table, present, updates>>

-----------------------------------------------------------------------------
Next ==
    \/ \E h \in Hubs, ts \in SUBSET Tokens : RegisterHub(h, ts)
    \/ \E i \in 1 .. Cardinality(Hubs) :
          \/ \E s \in {None, "active", "inactive"}, ts \in {None} \cup SUBSET Tokens : UpdateHub(i, s, ts)
          \/ DeregisterHub(i)
    \/ StartReading
    \/ ReadPage

Spec == Init /\ [][Next]_registryVars

-----------------------------------------------------------------------------
(* A client that reads the whole list misses no hub that was on it all the  *)
(* time, although hubs are registered and updated between its pages         *)
(* (repository.rs; with Filter "active" or "token" it may miss some).      *)
ReaderMissesNoHub == ended => present \subseteq seen
=============================================================================
