----------------------------- MODULE PhoneSync -----------------------------
(***************************************************************************)
(* How a phone without a WebSocket catches up: agents deposit messages in  *)
(* the phone's queue at the mediator (store_for_user), each one makes the  *)
(* mediator send a signal, and each signal makes the app pull the messages *)
(* after its cursor and process them one at a time.                        *)
(*                                                                         *)
(* Nothing keeps a second signal from starting a pull while another one    *)
(* waits for its answer or decrypts a message, so that several pulls share *)
(* the cursor.  Listing a message does not remove it from the queue.       *)
(***************************************************************************)
EXTENDS MessageStore, FiniteSets, SequencesExt

CONSTANTS
    Messages,       \* messages that agents may send to the phone
    Pulls,          \* pulls that may run at the same time
    PageLimit,      \* messages asked for by one pull (50 in the app)
    MaxRestarts,    \* bound: restarts of the app and of the router
    None

PhoneSyncAssumption ==
    /\ MessageStoreAssumption
    /\ PageLimit \in Nat \ {0}
    /\ MaxRestarts \in Nat
    /\ None \notin Messages

VARIABLES
    queue,      \* the phone's queue at the mediator
    cursor,     \* _lastPulledId
    pull,       \* pull -> Pull
    processed,  \* history: messages the app has processed, in order
    deposited,  \* history: messages the mediator has stored, in order
    restarts    \* history: restarts so far

vars == <<queue, cursor, pull, processed, deposited, restarts>>

Pull == [pc : {"idle", "asked", "processing"},
         after : Messages \cup {None}, page : Seq(Messages)]

Idle == [pc |-> "idle", after |-> None, page |-> <<>>]

Init ==
    /\ queue = <<>>
    /\ cursor = None
    /\ pull = [p \in Pulls |-> Idle]
    /\ processed = <<>>
    /\ deposited = <<>>
    /\ restarts = 0

(* An agent's message for the phone is stored.                               *)
Deposit(m) ==
    /\ m \notin ToSet(deposited)
    /\ queue' \in StoreForUser(queue, m)
    /\ deposited' = Append(deposited, m)
    /\ UNCHANGED <<cursor, pull, processed, restarts>>

(* A signal arrives: the app asks for what follows its cursor.               *)
StartPull(p) ==
    /\ pull[p].pc = "idle"
    /\ pull' = [pull EXCEPT ![p] = [Idle EXCEPT !.pc = "asked", !.after = cursor]]
    /\ UNCHANGED <<queue, cursor, processed, deposited, restarts>>

(* The messages that GET /v1/sync/list returns.                              *)
Listed(after) ==
    IF after = None THEN SubSeq(queue, 1, IF PageLimit < Len(queue) THEN PageLimit ELSE Len(queue))
    ELSE ListMessages(queue, after, PageLimit)

(* Fault: the cursor moves to the end of the page as soon as it is there.    *)
AnswerPullAndMove(p) ==
    /\ pull[p].pc = "asked"
    /\ pull' = [pull EXCEPT ![p].pc = "processing", ![p].page = Listed(pull[p].after)]
    /\ cursor' = IF Listed(pull[p].after) = <<>> THEN cursor ELSE Last(Listed(pull[p].after))
    /\ UNCHANGED <<queue, processed, deposited, restarts>>

AnswerPull(p) ==
    /\ pull[p].pc = "asked"
    /\ pull' = [pull EXCEPT ![p].pc = "processing", ![p].page = Listed(pull[p].after)]
    /\ UNCHANGED <<queue, cursor, processed, deposited, restarts>>

(* Fault: a pull that failed does not end.                                   *)
PullFailsForGood(p) ==
    /\ pull[p].pc = "asked"
    /\ pull' = [pull EXCEPT ![p].pc = "failed"]
    /\ UNCHANGED <<queue, cursor, processed, deposited, restarts>>

(* The request fails: the pull ends, and the cursor stays.                   *)
PullFails(p) ==
    /\ pull[p].pc = "asked"
    /\ pull' = [pull EXCEPT ![p] = Idle]
    /\ UNCHANGED <<queue, cursor, processed, deposited, restarts>>

(* The next message of the page is decrypted and processed, and the cursor   *)
(* moves to it, also when it could not be decrypted.                         *)
ProcessMessage(p) ==
    LET page == pull[p].page
    IN /\ pull[p].pc = "processing" /\ page # <<>>
       /\ processed' = Append(processed, Head(page))
       /\ cursor' = Head(page)
       /\ pull' = [pull EXCEPT ![p].page = Tail(page)]
       /\ UNCHANGED <<queue, deposited, restarts>>

EndPull(p) ==
    /\ pull[p].pc = "processing" /\ pull[p].page = <<>>
    /\ pull' = [pull EXCEPT ![p] = Idle]
    /\ UNCHANGED <<queue, cursor, processed, deposited, restarts>>

(* The router restarts: a queue in memory is lost, a queue in sled is not.   *)
RouterRestart ==
    /\ restarts < MaxRestarts
    /\ restarts' = restarts + 1
    /\ queue' = IF Persistent THEN queue ELSE <<>>
    /\ UNCHANGED <<cursor, pull, processed, deposited>>

(* The app restarts: the cursor is a field of the service and starts over.   *)
AppRestart ==
    /\ restarts < MaxRestarts
    /\ restarts' = restarts + 1
    /\ cursor' = None
    /\ pull' = [p \in Pulls |-> Idle]
    /\ UNCHANGED <<queue, processed, deposited>>

Next ==
    \/ \E m \in Messages : Deposit(m)
    \/ \E p \in Pulls :
         StartPull(p) \/ AnswerPull(p) \/ PullFails(p) \/ ProcessMessage(p) \/ EndPull(p)
    \/ RouterRestart
    \/ AppRestart

Spec == Init /\ [][Next]_vars

-----------------------------------------------------------------------------
(* What the synchronisation should guarantee.                               *)

(* The queue, the cursor and the pulls keep their shapes.                    *)
TypeOK ==
    /\ queue \in Seq(Messages)
    /\ cursor \in Messages \cup {None}
    /\ pull \in [Pulls -> Pull]
    /\ processed \in Seq(Messages)
    /\ deposited \in Seq(Messages)
    /\ restarts \in 0 .. MaxRestarts

Unread == ToSet(queue) \ ToSet(processed)

(* What a pull that starts now would be shown if its page had no end.        *)
AfterCursor ==
    IF cursor = None THEN queue ELSE ListMessages(queue, cursor, Len(queue))

(* The cursor never passes a message that was not processed, whichever pulls *)
(* move it and whatever is evicted meanwhile: every unread message is among  *)
(* those that the next pull may be shown.                                    *)
UnreadIsListed == Unread \subseteq ToSet(AfterCursor)

(* A full queue loses its oldest messages: what it holds was deposited after *)
(* everything it has lost.                                                   *)
OldestEvicted ==
    \A i, j \in DOMAIN deposited :
        deposited[i] \in ToSet(queue) /\ deposited[j] \notin ToSet(queue) => j < i

(* While one pull runs at a time and the app is not restarted, no message is *)
(* processed a second time, even if the one under the cursor was evicted.    *)
ProcessedOnce == IsInjective(processed)
=============================================================================
