---------------------------- MODULE MessageStore ----------------------------
(***************************************************************************)
(* The message queues of didcomm-router, one per name, in the two stores   *)
(* the router can be configured with: vectors in memory, or sled trees     *)
(* whose keys are the random identifiers of the messages.  A queue is the  *)
(* sequence in which its store iterates over it.                           *)
(***************************************************************************)
EXTENDS Integers, Sequences, Functions

CONSTANTS
    Persistent,     \* TRUE: storage.path is configured, so the stores are sled trees
    MaxQueued       \* router.max_queued_messages

MessageStoreAssumption ==
    /\ Persistent \in BOOLEAN
    /\ MaxQueued \in Nat \ {0}

(* Fault: a full queue drops its newest message.                             *)
PushOverLast(q, m) == Append(IF Len(q) >= MaxQueued THEN SubSeq(q, 1, Len(q) - 1) ELSE q, m)

(* InMemoryMessageStore::store_for_user: a full queue drops its head.        *)
Push(q, m) == Append(IF Len(q) >= MaxQueued THEN Tail(q) ELSE q, m)

(* SledMessageStore::enqueue: the random key decides the place of a message, *)
(* and the entry with the smallest key is evicted, were it the new one.      *)
EvictFirst(q) == IF Len(q) > MaxQueued THEN Tail(q) ELSE q
Inserted(q, i, m) == SubSeq(q, 1, i) \o <<m>> \o SubSeq(q, i + 1, Len(q))
InsertSomewhere(q, m) == {EvictFirst(Inserted(q, i, m)) : i \in 0 .. Len(q)}

(* The queues that storing m may leave behind.                               *)
StoreForUser(q, m) == IF Persistent THEN InsertSomewhere(q, m) ELSE {Push(q, m)}

(* dequeue_batch: the places in a queue of the messages that are not expired, *)
(* of which up to `limit` are taken.                                         *)
FreshPlaces(q, expired) ==
    LET upTo[n \in 0 .. Len(q)] ==
            IF n = 0 THEN <<>>
            ELSE IF q[n] \in expired THEN upTo[n - 1] ELSE Append(upTo[n - 1], n)
    IN  upTo[Len(q)]

Taken(q, expired, limit) ==
    LET at == FreshPlaces(q, expired)
    IN  [i \in 1 .. (IF limit < Len(at) THEN limit ELSE Len(at)) |-> q[at[i]]]

(* Fault: what is taken is left in the queue.                                *)
LeaveAll(q, expired, limit) ==
    LET at == FreshPlaces(q, expired) IN [i \in 1 .. Len(at) |-> q[at[i]]]

(* Memory drops every expired message; sled stops looking after the last one *)
(* that it takes.                                                            *)
Left(q, expired, limit) ==
    LET at == FreshPlaces(q, expired)
    IN  IF Persistent /\ limit \in 1 .. Len(at)
          THEN SubSeq(q, at[limit] + 1, Len(q))
          ELSE [i \in 1 .. Len(at) - limit |-> q[at[limit + i]]]

(* list_messages: the messages after `cursor`.  A cursor that is no longer   *)
(* in the queue starts from the beginning in memory, and lists nothing in    *)
(* sled; neither store skips expired messages.                               *)
Start(q, cursor) ==
    IF cursor \in Range(q)
      THEN (CHOOSE i \in DOMAIN q : q[i] = cursor) + 1
      ELSE IF Persistent THEN Len(q) + 1 ELSE 1

ListMessages(q, cursor, limit) ==
    LET start == Start(q, cursor)
    IN  SubSeq(q, start, IF start + limit - 1 < Len(q) THEN start + limit - 1 ELSE Len(q))
=============================================================================
