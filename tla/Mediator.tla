------------------------------ MODULE Mediator ------------------------------
(***************************************************************************)
(* The DIDComm mediator (didcomm-router): agents hold one WebSocket each,  *)
(* register their key in the keylist and pick up what was queued for them; *)
(* peers POST forward messages, which the mediator pushes to a connected   *)
(* recipient or queues.                                                    *)
(*                                                                         *)
(* Every HTTP request runs in a task of its own and every connection has a *)
(* receiving and a sending task, on several threads: the actions are the   *)
(* single accesses that these tasks make to the shared maps, so that other *)
(* tasks run between any two of them.  The agent's side of the handshake   *)
(* is that of the MCP servers (connect_and_run), which read one message    *)
(* for each request they send, whatever that message is.                   *)
(***************************************************************************)
EXTENDS MessageStore, FiniteSets, TLC

CONSTANTS
    Dids,           \* DIDs of the agents
    Conns,          \* connections, each used once
    Requests,       \* POSTed forward requests
    RecipientOf,    \* request -> DID it is addressed to
    IdOf,           \* request -> DIDComm message id
    Expirable,      \* requests whose messages may reach max_message_age in a queue
    WebsocketUsers, \* DIDs whose push channel is "websocket" and not "fcm"
    Removers,       \* DIDs that also send keylist-update "remove"
    MaxRestarts,    \* bound: restarts of the router
    None

MediatorAssumption ==
    /\ MessageStoreAssumption
    /\ RecipientOf \in [Requests -> Dids]
    /\ DOMAIN IdOf = Requests
    /\ Expirable \subseteq Requests
    /\ WebsocketUsers \subseteq Dids /\ Removers \subseteq Dids
    /\ MaxRestarts \in Nat
    /\ None \notin Dids \cup Conns

VARIABLES
    sessions,   \* DID -> connection its messages are sent to (SessionManager)
    conn,       \* connection -> Connection
    keylist,    \* DID -> DIDs whose key it registered
    reverse,    \* DID -> DID that registered its key
    queue,      \* queue name -> sequence of requests
    seen,       \* message ids already processed
    forward,    \* request -> Forward: the state of its task
    expired,    \* queued messages that are past max_message_age
    received,   \* history: DID -> messages its agent has processed, in order
    discarded,  \* history: messages dropped by a queue, a restart or an agent
    restarts    \* history: restarts so far

vars == <<sessions, conn, keylist, reverse, queue, seen, forward, expired,
          received, discarded, restarts>>

(* A queue is named by a DID, by the key "<DID>#key-1" of a DID, or by the   *)
(* method name that every DID has in common.                                 *)
Did(d)     == <<"did", d>>
Key(d)     == <<"key", d>>
MethodName == <<"method">>
QueueNames == {Did(d) : d \in Dids} \cup {Key(d) : d \in Dids} \cup {MethodName}

(* What the mediator and an agent send each other: n is a count of messages. *)
Item    == [kind : {"grant", "keylist", "status", "batch", "forward"},
            msgs : Seq(Requests), n : Nat]
Request == [kind : {"mediate", "keylist", "remove", "status", "batch"}, n : Nat]

Reply(kind, msgs, n) == [kind |-> kind, msgs |-> msgs, n |-> n]
Ask(kind, n)         == [kind |-> kind, n |-> n]

(* A connection: `up` is what its agent sees, `open` what the mediator sees; *)
(* `phase` is how far the agent's handshake is, `picked` the batch that the  *)
(* mediator has dequeued for it and not yet sent.                            *)
Connection ==
    [did : Dids \cup {None}, up : BOOLEAN, open : BOOLEAN,
     phase : {"unused", "grant", "keylist", "status", "batch", "loop", "gone"},
     inbox : Seq(Request), out : Seq(Item),
     picking : BOOLEAN, picked : Seq(Requests)]

Forward ==
    [pc : {"new", "mark", "resolve", "online", "send", "keys", "push", "store",
           "ok", "refused", "failed"},
     owner : Dids \cup {None}, left : SUBSET QueueNames]

Init ==
    /\ sessions = [d \in Dids |-> None]
    /\ conn = [c \in Conns |->
            [did |-> None, up |-> FALSE, open |-> FALSE, phase |-> "unused",
             inbox |-> <<>>, out |-> <<>>, picking |-> FALSE, picked |-> <<>>]]
    /\ keylist = [d \in Dids |-> {}]
    /\ reverse = [d \in Dids |-> None]
    /\ queue = [k \in QueueNames |-> <<>>]
    /\ seen = {}
    /\ forward = [r \in Requests |-> [pc |-> "new", owner |-> None, left |-> {}]]
    /\ expired = {}
    /\ received = [d \in Dids |-> <<>>]
    /\ discarded = {}
    /\ restarts = 0

-----------------------------------------------------------------------------
(* SessionManager.                                                           *)
IsOnline(d) == sessions[d] # None

(* send_to succeeds while the receiving end of the channel exists.           *)
CanSendTo(d) == IsOnline(d) /\ conn[sessions[d]].open

(* A response goes to whatever connection the DID has now, or nowhere.       *)
SendTo(cs, d, item) ==
    IF CanSendTo(d) THEN [cs EXCEPT ![sessions[d]].out = Append(@, item)] ELSE cs

(* Fault: the in-memory store lists what the sled store lists.               *)
ListKeysByMethod(d) == {MethodName : k \in keylist[d]}

(* KeylistStore::list_keys.  The sled store splits "<session>:<recipient>"   *)
(* at its colons and returns the second part, which for a DID is its method. *)
ListKeys(d) ==
    IF Persistent THEN {MethodName : k \in keylist[d]} ELSE {Key(k) : k \in keylist[d]}

(* KeylistStore::add_key and remove_key: the keys of a session, and the      *)
(* session that a key was registered by.                                     *)
AddKey(d, k) ==
    /\ keylist' = [keylist EXCEPT ![d] = @ \cup {k}]
    /\ reverse' = [reverse EXCEPT ![k] = d]

RemoveKey(d, k) ==
    /\ keylist' = [keylist EXCEPT ![d] = @ \ {k}]
    /\ reverse' = [reverse EXCEPT ![k] = None]

(* KeylistStore::resolve_session_prefix.                                     *)
SessionOf(recipient) == reverse[recipient]

-----------------------------------------------------------------------------
(* Connections.                                                              *)

(* An agent runs one connection after the other, in a loop that never ends.  *)
Disconnected(d) == \A b \in Conns : conn[b].did = d => ~conn[b].up

(* The agent answers the challenge, is told that it is authenticated, and    *)
(* asks for mediation: its first request is on the way.                      *)
Authenticated(c, d) ==
    [conn EXCEPT ![c].did = d, ![c].up = TRUE, ![c].open = TRUE,
                 ![c].phase = "grant", ![c].inbox = <<Ask("mediate", 0)>>]

(* The mediator checks the agent's answer and registers its session.         *)
Connect(c, d) ==
    /\ conn[c].phase = "unused"
    /\ Disconnected(d)
    /\ conn' = Authenticated(c, d)
    /\ sessions' = [sessions EXCEPT ![d] = c]
    /\ UNCHANGED <<keylist, reverse, queue, seen, forward, expired, received,
                   discarded, restarts>>

(* The connection breaks: the agent knows, the mediator does not yet.        *)
Break(c) ==
    /\ conn[c].up
    /\ conn' = [conn EXCEPT ![c].up = FALSE, ![c].phase = "gone"]
    /\ UNCHANGED <<sessions, keylist, reverse, queue, seen, forward, expired,
                   received, discarded, restarts>>

(* The registration of the DID goes, whichever connection made it.           *)
Unregister(c, d) == [sessions EXCEPT ![d] = None]

(* The receiving task sees the end of the stream, unregisters the DID, and   *)
(* the sending task is aborted.                                              *)
ReceiveEnds(c) ==
    /\ conn[c].open /\ ~conn[c].up /\ ~conn[c].picking
    /\ sessions' = Unregister(c, conn[c].did)
    /\ conn' = [conn EXCEPT ![c].open = FALSE, ![c].inbox = <<>>]
    /\ UNCHANGED <<keylist, reverse, queue, seen, forward, expired, received,
                   discarded, restarts>>

(* The sending task fails to write first: the receiving task is aborted, and *)
(* the session stays registered.                                             *)
SendFails(c) ==
    /\ conn[c].open /\ ~conn[c].up /\ conn[c].out # <<>>
    /\ conn' = [conn EXCEPT ![c].open = FALSE, ![c].inbox = <<>>]
    /\ UNCHANGED <<sessions, keylist, reverse, queue, seen, forward, expired,
                   received, discarded, restarts>>

-----------------------------------------------------------------------------
(* Requests of a connected agent, handled in order by its receiving task.    *)
Asked(c, kind) ==
    conn[c].open /\ ~conn[c].picking /\ conn[c].inbox # <<>>
        /\ Head(conn[c].inbox).kind = kind

Handled(c) == [conn EXCEPT ![c].inbox = Tail(@)]

HandleMediateRequest(c) ==
    /\ Asked(c, "mediate")
    /\ conn' = SendTo(Handled(c), conn[c].did, Reply("grant", <<>>, 0))
    /\ UNCHANGED <<sessions, keylist, reverse, queue, seen, forward, expired,
                   received, discarded, restarts>>

(* keylist-update "add" of the agent's own key.                              *)
HandleKeylistAdd(c) ==
    LET d == conn[c].did
    IN /\ Asked(c, "keylist")
       /\ AddKey(d, d)
       /\ conn' = SendTo(Handled(c), d, Reply("keylist", <<>>, 0))
       /\ UNCHANGED <<sessions, queue, seen, forward, expired, received,
                      discarded, restarts>>

(* keylist-update "remove" of the agent's own key.                           *)
HandleKeylistRemove(c) ==
    LET d == conn[c].did
    IN /\ Asked(c, "remove")
       /\ RemoveKey(d, d)
       /\ conn' = SendTo(Handled(c), d, Reply("keylist", <<>>, 0))
       /\ UNCHANGED <<sessions, queue, seen, forward, expired, received,
                      discarded, restarts>>

(* status-request: the lengths of the queues of the agent's keys, expired    *)
(* messages included.                                                        *)
MessageCount(d) == Cardinality(UNION {{k} \X DOMAIN queue[k] : k \in ListKeys(d)})

HandleStatusRequest(c) ==
    LET d == conn[c].did
    IN /\ Asked(c, "status")
       /\ conn' = SendTo(Handled(c), d, Reply("status", <<>>, MessageCount(d)))
       /\ UNCHANGED <<sessions, keylist, reverse, queue, seen, forward, expired,
                      received, discarded, restarts>>

(* batch-pickup, first half: the messages are removed from the queues.  An   *)
(* agent has at most one key, so there is at most one queue to empty.        *)
DequeueBatch(c) ==
    LET d == conn[c].did
        keys == ListKeys(d)
        limit == Head(conn[c].inbox).n
    IN /\ Asked(c, "batch")
       /\ \E k \in QueueNames :
            /\ IF keys = {} THEN k = Key(d) ELSE k \in keys
            /\ LET msgs == IF keys = {} THEN <<>> ELSE Taken(queue[k], expired, limit)
               IN conn' = [Handled(c) EXCEPT ![c].picking = TRUE, ![c].picked = msgs]
            /\ queue' = IF keys = {} THEN queue
                        ELSE [queue EXCEPT ![k] = Left(@, expired, limit)]
            /\ discarded' = IF keys = {} THEN discarded
                            ELSE discarded \cup ((Range(queue[k]) \cap expired) \ Range(queue'[k]))
       /\ UNCHANGED <<sessions, keylist, reverse, seen, forward, expired,
                      received, restarts>>

(* batch-pickup, second half: the batch is sent to the DID's session, and    *)
(* dropped when it has none or a closed one.                                 *)
SendBatch(c) ==
    LET d == conn[c].did
        rest == [conn EXCEPT ![c].picking = FALSE, ![c].picked = <<>>]
    IN /\ conn[c].picking
       /\ conn' = SendTo(rest, d, Reply("batch", conn[c].picked, 0))
       /\ discarded' = IF CanSendTo(d) THEN discarded
                       ELSE discarded \cup Range(conn[c].picked)
       /\ UNCHANGED <<sessions, keylist, reverse, queue, seen, forward, expired,
                      received, restarts>>

-----------------------------------------------------------------------------
(* The agent's side: connect_and_run.                                        *)
Oldest(c) == Head(conn[c].out)
Goes(c, phase, asks) ==
    [conn EXCEPT ![c].out = Tail(@), ![c].phase = phase, ![c].inbox = @ \o asks]

(* A message that is read where another one was expected is only logged.     *)
Ignored(item) == discarded' = discarded \cup Range(item.msgs) /\ UNCHANGED received

(* handle_incoming_message of each message.                                  *)
Processed(c, item) ==
    /\ received' = [received EXCEPT ![conn[c].did] = @ \o item.msgs]
    /\ UNCHANGED discarded

(* The two answers that the agent waits for without a timeout: any message   *)
(* will do.                                                                  *)
ReadGrant(c) ==
    /\ conn[c].phase = "grant"
    /\ conn' = Goes(c, "keylist", <<Ask("keylist", 0)>>)
    /\ Ignored(Oldest(c))

ReadKeylistResponse(c) ==
    /\ conn[c].phase = "keylist"
    /\ conn' = Goes(c, "status", <<Ask("status", 0)>>)
    /\ Ignored(Oldest(c))

(* A status with messages asks for the batch; anything else ends the pickup. *)
ReadStatus(c) ==
    /\ conn[c].phase = "status"
    /\ conn' = IF Oldest(c).kind = "status" /\ Oldest(c).n > 0
                 THEN Goes(c, "batch", <<Ask("batch", Oldest(c).n)>>)
                 ELSE Goes(c, "loop", <<>>)
    /\ Ignored(Oldest(c))

ReadBatch(c) ==
    /\ conn[c].phase = "batch"
    /\ conn' = Goes(c, "loop", <<>>)
    /\ IF Oldest(c).kind = "batch" THEN Processed(c, Oldest(c)) ELSE Ignored(Oldest(c))

(* The bidirectional loop handles forwarded messages; a late answer is not   *)
(* one, and the messages inside a late batch are lost with it.               *)
ReadInLoop(c) ==
    /\ conn[c].phase = "loop"
    /\ conn' = Goes(c, "loop", <<>>)
    /\ IF Oldest(c).kind = "forward" THEN Processed(c, Oldest(c)) ELSE Ignored(Oldest(c))

AgentReads(c) ==
    /\ conn[c].up /\ conn[c].out # <<>>
    /\ ReadGrant(c) \/ ReadKeylistResponse(c) \/ ReadStatus(c) \/ ReadBatch(c)
         \/ ReadInLoop(c)
    /\ UNCHANGED <<sessions, keylist, reverse, queue, seen, forward, expired, restarts>>

(* The status and the batch are waited for with a timeout.                   *)
AgentTimesOut(c) ==
    /\ conn[c].up /\ conn[c].phase \in {"status", "batch"}
    /\ conn' = [conn EXCEPT ![c].phase = "loop"]
    /\ UNCHANGED <<sessions, keylist, reverse, queue, seen, forward, expired,
                   received, discarded, restarts>>

(* An agent that stops routing through this mediator.                        *)
AgentRemovesKey(c) ==
    /\ conn[c].up /\ conn[c].phase = "loop" /\ conn[c].did \in Removers
    /\ conn[c].inbox = <<>> /\ reverse[conn[c].did] # None
    /\ conn' = [conn EXCEPT ![c].inbox = <<Ask("remove", 0)>>]
    /\ UNCHANGED <<sessions, keylist, reverse, queue, seen, forward, expired,
                   received, discarded, restarts>>

-----------------------------------------------------------------------------
(* Forward requests: route_message and handle_forward, one access at a time. *)
At(r, pc)   == forward[r].pc = pc
Goto(r, pc) == forward' = [forward EXCEPT ![r].pc = pc]

(* Replay protection: the id is looked up, and inserted by a second access.  *)
CheckSeen(r) ==
    /\ At(r, "new")
    /\ Goto(r, IF IdOf[r] \in seen THEN "refused" ELSE "mark")
    /\ UNCHANGED <<sessions, conn, keylist, reverse, queue, seen, expired,
                   received, discarded, restarts>>

MarkSeen(r) ==
    /\ At(r, "mark")
    /\ seen' = seen \cup {IdOf[r]}
    /\ Goto(r, "resolve")
    /\ UNCHANGED <<sessions, conn, keylist, reverse, queue, expired, received,
                   discarded, restarts>>

(* Fault: the key that matched is taken for the session that registered it.  *)
ResolveToKey(r) ==
    /\ At(r, "resolve")
    /\ forward' = [forward EXCEPT ![r].owner = Key(RecipientOf[r]), ![r].pc = "online"]
    /\ UNCHANGED <<sessions, conn, keylist, reverse, queue, seen, expired,
                   received, discarded, restarts>>

(* `next` is a DID without fragment: the exact lookup fails and the prefix   *)
(* scan finds the session that registered the DID's key.                     *)
Resolve(r) ==
    /\ At(r, "resolve")
    /\ forward' = [forward EXCEPT ![r].owner = SessionOf(RecipientOf[r]),
                                  ![r].pc = "online"]
    /\ UNCHANGED <<sessions, conn, keylist, reverse, queue, seen, expired,
                   received, discarded, restarts>>

CheckOnline(r) ==
    LET owner == forward[r].owner
    IN /\ At(r, "online")
       /\ Goto(r, IF owner # None /\ IsOnline(owner) THEN "send" ELSE "keys")
       /\ UNCHANGED <<sessions, conn, keylist, reverse, queue, seen, expired,
                      received, discarded, restarts>>

(* Fault: the result of the push is ignored.                                 *)
PushUnchecked(r) ==
    /\ At(r, "send")
    /\ conn' = SendTo(conn, forward[r].owner, Reply("forward", <<r>>, 0))
    /\ Goto(r, "ok")
    /\ UNCHANGED <<sessions, keylist, reverse, queue, seen, expired, received,
                   discarded, restarts>>

(* Pushed to the owner's session; when that fails, the message is queued.    *)
PushToOwner(r) ==
    LET owner == forward[r].owner
    IN /\ At(r, "send")
       /\ conn' = SendTo(conn, owner, Reply("forward", <<r>>, 0))
       /\ Goto(r, IF CanSendTo(owner) THEN "ok" ELSE "keys")
       /\ UNCHANGED <<sessions, keylist, reverse, queue, seen, expired, received,
                      discarded, restarts>>

(* The queues to store under: those of all keys of the owner, or the DID.    *)
StorageKeys(r) ==
    LET owner == forward[r].owner
    IN /\ At(r, "keys")
       /\ forward' = [forward EXCEPT
            ![r].left = IF owner = None THEN {Did(RecipientOf[r])} ELSE ListKeys(owner),
            ![r].pc = IF RecipientOf[r] \in WebsocketUsers THEN "push" ELSE "store"]
       /\ UNCHANGED <<sessions, conn, keylist, reverse, queue, seen, expired,
                      received, discarded, restarts>>

(* Push channel "websocket": pushed to the recipient itself, and queued too. *)
PushToUser(r) ==
    /\ At(r, "push")
    /\ conn' = SendTo(conn, RecipientOf[r], Reply("forward", <<r>>, 0))
    /\ Goto(r, "store")
    /\ UNCHANGED <<sessions, keylist, reverse, queue, seen, expired, received,
                   discarded, restarts>>

Store(r) ==
    /\ At(r, "store") /\ forward[r].left # {}
    /\ \E k \in forward[r].left :
         \E q \in StoreForUser(queue[k], r) :
            /\ queue' = [queue EXCEPT ![k] = q]
            /\ discarded' = discarded \cup ((Range(queue[k]) \cup {r}) \ Range(q))
            /\ forward' = [forward EXCEPT ![r].left = @ \ {k}]
    /\ UNCHANGED <<sessions, conn, keylist, reverse, seen, expired, received, restarts>>

(* Every key is done: the request is answered (after an FCM signal, if any). *)
Answer(r) ==
    /\ At(r, "store") /\ forward[r].left = {}
    /\ Goto(r, "ok")
    /\ UNCHANGED <<sessions, conn, keylist, reverse, queue, seen, expired,
                   received, discarded, restarts>>

HandleForward(r) ==
    \/ CheckSeen(r) \/ MarkSeen(r) \/ Resolve(r) \/ CheckOnline(r) \/ PushToOwner(r)
    \/ StorageKeys(r) \/ PushToUser(r) \/ Store(r) \/ Answer(r)

-----------------------------------------------------------------------------
(* A queued message grows older than max_message_age.                        *)
Expire(r) ==
    /\ r \in Expirable \ expired
    /\ \E k \in QueueNames : r \in Range(queue[k])
    /\ expired' = expired \cup {r}
    /\ UNCHANGED <<sessions, conn, keylist, reverse, queue, seen, forward,
                   received, discarded, restarts>>

(* The router restarts: connections and requests in progress fail; the       *)
(* queues and the keylist survive in sled only.                              *)
Restart ==
    /\ restarts < MaxRestarts
    /\ restarts' = restarts + 1
    /\ sessions' = [d \in Dids |-> None]
    /\ conn' = [c \in Conns |->
            IF conn[c].phase = "unused" THEN conn[c]
            ELSE [conn[c] EXCEPT !.up = FALSE, !.open = FALSE, !.phase = "gone",
                                 !.inbox = <<>>, !.picking = FALSE, !.picked = <<>>]]
    /\ seen' = {}
    /\ forward' = [r \in Requests |->
            IF forward[r].pc \in {"new", "ok", "refused"} THEN forward[r]
            ELSE [forward[r] EXCEPT !.pc = "failed", !.left = {}]]
    /\ discarded' = discarded \cup (UNION {Range(conn[c].picked) : c \in Conns})
         \cup (IF Persistent THEN {} ELSE UNION {Range(queue[k]) : k \in QueueNames})
    /\ IF Persistent THEN UNCHANGED <<keylist, reverse, queue>>
       ELSE /\ keylist' = [d \in Dids |-> {}]
            /\ reverse' = [d \in Dids |-> None]
            /\ queue' = [k \in QueueNames |-> <<>>]
    /\ UNCHANGED <<expired, received>>

MediatorStep(c) ==
    \/ HandleMediateRequest(c) \/ HandleKeylistAdd(c) \/ HandleKeylistRemove(c)
    \/ HandleStatusRequest(c) \/ DequeueBatch(c) \/ SendBatch(c)

ConnectionEnds(c) == ReceiveEnds(c) \/ SendFails(c)

Next ==
    \/ \E c \in Conns, d \in Dids : Connect(c, d)
    \/ \E c \in Conns :
         \/ Break(c) \/ ConnectionEnds(c) \/ MediatorStep(c)
         \/ AgentReads(c) \/ AgentTimesOut(c) \/ AgentRemovesKey(c)
    \/ \E r \in Requests : HandleForward(r) \/ Expire(r)
    \/ Restart

Spec == Init /\ [][Next]_vars

(* The runtime keeps running the tasks of the mediator, notices the end of a *)
(* broken connection in the end, and agents keep reading.                    *)
Fairness ==
    /\ \A c \in Conns :
         /\ WF_vars(MediatorStep(c)) /\ WF_vars(AgentReads(c))
         /\ WF_vars(ConnectionEnds(c)) /\ WF_vars(AgentTimesOut(c))
    /\ \A r \in Requests : WF_vars(HandleForward(r))

FairSpec == Spec /\ Fairness

-----------------------------------------------------------------------------
(* What the mediator should guarantee.                                       *)

(* The maps of RouterState and the connections keep their shapes.            *)
TypeOK ==
    /\ sessions \in [Dids -> Conns \cup {None}]
    /\ conn \in [Conns -> Connection]
    /\ keylist \in [Dids -> SUBSET Dids]
    /\ reverse \in [Dids -> Dids \cup {None}]
    /\ queue \in [QueueNames -> Seq(Requests)]
    /\ seen \subseteq Range(IdOf)
    /\ forward \in [Requests -> Forward]
    /\ expired \subseteq Requests
    /\ received \in [Dids -> Seq(Requests)]
    /\ discarded \subseteq Requests
    /\ restarts \in Nat

Accepted(r)  == forward[r].pc = "ok"
Queued       == UNION {Range(queue[k]) : k \in QueueNames}
Sent(cs)     == UNION {Range(item.msgs) : item \in UNION {Range(conn[c].out) : c \in cs}}
InFlight     == Sent({c \in Conns : conn[c].up})
LostOnWire   == Sent({c \in Conns : ~conn[c].up})
PickedUp     == UNION {Range(conn[c].picked) : c \in Conns}
Received     == UNION {Range(received[d]) : d \in Dids}

(* A message whose request was answered with success is in a queue, on its   *)
(* way to an agent, or processed by one, unless it went down with the        *)
(* connection it was written to or one of the places that drop messages on   *)
(* purpose dropped it: handle_forward never forgets it between two maps,     *)
(* whichever sessions come and go while it runs.  (A recipient that removes  *)
(* its key between two look-ups leaves no queue to put the message in.)      *)
AcceptedIsAccountedFor ==
    \A r \in Requests : Accepted(r) /\ RecipientOf[r] \notin Removers =>
        r \in Queued \cup InFlight \cup PickedUp \cup Received
               \cup LostOnWire \cup discarded

(* An agent processes no forwarded message twice: handle_forward does not    *)
(* both push and queue it, no batch is picked up twice, and nothing that was *)
(* picked up is still in a queue.  (For the push channel "websocket" the     *)
(* router does both, and says so.)                                           *)
ReceivedOnce ==
    /\ \A d \in Dids \ WebsocketUsers : IsInjective(received[d])
    /\ \A r \in Received \cup PickedUp :
         RecipientOf[r] \in WebsocketUsers \/ r \notin Queued

(* Messages are only handed to the agent they are addressed to.              *)
AddressedOnly ==
    \A d \in Dids : \A i \in DOMAIN received[d] : RecipientOf[received[d][i]] = d

(* An agent that authenticated gets through the handshake, or loses its      *)
(* connection: it never waits for ever for an answer of the mediator.        *)
HandshakeCompletes ==
    \A c \in Conns :
        (conn[c].phase \in {"grant", "keylist", "status", "batch"}) ~>
            (conn[c].phase \in {"loop", "gone"})

-----------------------------------------------------------------------------
(* Statements of the documents that the router does not keep.                *)

(* SessionManager::is_online: "Check if a DID is currently connected."       *)
ConnectedIsOnline == \A c \in Conns : conn[c].up => IsOnline(conn[c].did)

(* Messages are deduplicated by their id.                                    *)
DeduplicatedById ==
    \A r, s \in Requests :
        Accepted(r) /\ Accepted(s) /\ IdOf[r] = IdOf[s] => r = s

(* A message is delivered in real time, or else it is queued.                *)
NothingDiscarded == discarded = {}
=============================================================================
