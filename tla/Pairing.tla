------------------------------ MODULE Pairing ------------------------------
(***************************************************************************)
(* The pairing of a phone with an MCP server, over the mediators of both.  *)
(* The phone scans the server's invitation and posts a connection-request  *)
(* to the server's mediator; the server answers to the mediator the        *)
(* request names; the phone lists the server and confirms.  A server pairs *)
(* once, and keeps the phone's DID, DID document and mediator in sled.     *)
(*                                                                         *)
(* The merchant's server has the same handlers, with two differences: it   *)
(* writes the phone's DID at the confirmation and never its DID document.  *)
(* The merchant's app leaves its mediator and its DID document out of the  *)
(* request, so it gets no answer; what it does with one has no step here.  *)
(*                                                                         *)
(* No phone tells its server of a new mediator: the agent it packs the     *)
(* mediator-update with is a new one, which has no key of the server, and  *)
(* packing fails.  The handler of that message has no step either.  All    *)
(* phones sign with their own key, so that signatures verify.              *)
(***************************************************************************)
EXTENDS Integers, Sequences

CONSTANTS
    Phones,        \* the phones, or the merchant's apps
    Unsteady,      \* those that change mediator and whose posts may fail
    Urls,          \* the mediators
    Mcp,           \* the server
    None,
    CutShort,      \* those whose request a stop of the server may cut short
    MaxScans,      \* bound on the invitations scanned
    MaxStarts      \* bound on the restarts of the server

Kinds == {"buyer", "merchant"}

ASSUME PairingAssumption ==
    /\ Unsteady \subseteq Phones /\ CutShort \subseteq Phones
    /\ Mcp \notin Phones /\ None \notin Phones /\ None \notin Urls
    /\ MaxScans \in Nat /\ MaxStarts \in Nat

VARIABLES
    kind,     \* which of the two servers it is
    up,       \* is the server running, and connected to its mediator?
    at,       \* its mediator
    paired,   \* paired_phone
    pending,  \* pending_phone
    url,      \* phone_mediator_http_url
    keys,     \* per DID of a phone, whose keys the agent has under it
    db,       \* the three entries in sled
    seat,     \* per phone, its mediator
    list,     \* per phone, the mediator of the server it lists, or None
    mail,     \* per mediator and addressee, what waits there
    scans, starts,
    asked,    \* history: the mediators a phone has named in its requests
    confirmed \* history: the phones whose confirmation the server took

memory == <<paired, pending, url, keys>>
server == <<up, at, memory, db, starts, confirmed>>
phones == <<seat, list, scans, asked>>
vars == <<kind, server, phones, mail>>

NoKeys == [p \in Phones |-> None]
Addressees == Phones \cup {Mcp}

Init ==
    /\ kind \in Kinds
    /\ up = TRUE /\ at \in Urls
    /\ paired = None /\ pending = None /\ url = None /\ keys = NoKeys
    /\ db = [paired |-> None, doc |-> None, url |-> None]
    /\ seat \in [Phones -> Urls]
    /\ list = [p \in Phones |-> None]
    /\ mail = [box \in Urls \X Addressees |-> <<>>]
    /\ scans = 0 /\ starts = 0
    /\ asked = [p \in Phones |-> {}] /\ confirmed = {}

-----------------------------------------------------------------------------
(* Mail.                                                                   *)

Put(boxes, box, m) == [boxes EXCEPT ![box] = Append(boxes[box], m)]

\* A post to a phone's mediator, or one of the phone: for an unsteady phone it may fail.
Post(boxes, box, p, m) ==
    \/ mail' = Put(boxes, box, m)
    \/ p \in Unsteady /\ mail' = boxes

Taken(box) == [mail EXCEPT ![box] = Tail(mail[box])]

Waiting(box, type) == mail[box] # <<>> /\ Head(mail[box]).type = type

Request(p, u) == [type |-> "request", from |-> p, url |-> u]
Response(ok) == [type |-> "response", ok |-> ok, at |-> at]
Confirm(p) == [type |-> "confirm", from |-> p]
Update(p, here) == [type |-> "update", for |-> p, at |-> here]

-----------------------------------------------------------------------------
(* The server.                                                             *)

Inbox == <<at, Mcp>>

\* send_conn_response: there is one only when the request names a mediator.
Answer(p, u, ok) ==
    IF u = None THEN mail' = Taken(Inbox)
    ELSE Post(Taken(Inbox), <<u, p>>, p, Response(ok))

\* A paired server takes no other request.
Refuse ==
    /\ up /\ Waiting(Inbox, "request") /\ paired # None
    /\ LET m == Head(mail[Inbox]) IN Answer(m.from, m.url, FALSE)
    /\ UNCHANGED <<kind, server, phones>>

\* Fault: the document of the first request is kept.
WrittenOnce(p, u, n) ==
    [doc |-> IF db.doc = None THEN p ELSE db.doc, paired |-> p,
     url |-> IF u = None THEN db.url ELSE u]

\* What an accepted request leaves in sled after its first n writes.
Written(p, u, n) ==
    LET saves == kind = "buyer"
    IN  [doc |-> IF saves /\ n >= 1 THEN p ELSE db.doc,
         paired |-> IF saves /\ n >= 2 THEN p ELSE db.paired,
         url |-> IF u # None /\ n >= 3 THEN u ELSE db.url]

\* Fault: the request is taken in although a phone is paired.
AcceptingPaired == up /\ Waiting(Inbox, "request")

Accepting == up /\ Waiting(Inbox, "request") /\ paired = None

\* The server notes what the request says of the phone: its keys and its mediator.
Note(p, u) ==
    /\ keys' = IF u = None THEN keys ELSE [keys EXCEPT ![p] = p]
    /\ url' = IF u = None THEN url ELSE u

\* The request of a phone, in place of whichever was pending.
Accept ==
    /\ Accepting
    /\ LET m == Head(mail[Inbox])
       IN  /\ pending' = m.from
           /\ Note(m.from, m.url)
           /\ db' = Written(m.from, m.url, 3)
           /\ Answer(m.from, m.url, TRUE)
    /\ UNCHANGED <<kind, up, at, paired, starts, confirmed, phones>>

Forget == paired' = None /\ pending' = None /\ url' = None /\ keys' = NoKeys

\* The server stops while it takes a request in, between two of its writes.
AcceptCut ==
    /\ Accepting /\ Head(mail[Inbox]).from \in CutShort
    /\ LET m == Head(mail[Inbox])
       IN  \E n \in 0..3 : db' = Written(m.from, m.url, n)
    /\ mail' = Taken(Inbox)
    /\ up' = FALSE /\ Forget
    /\ UNCHANGED <<kind, at, starts, confirmed, phones>>

\* The pending phone is paired, in memory and in sled.
Pair(p) ==
    /\ paired' = p /\ pending' = None
    /\ db' = [db EXCEPT !.paired = p]
    /\ confirmed' = confirmed \cup {p}

\* The confirmation counts only for the pending phone.
TakeConfirm ==
    /\ up /\ Waiting(Inbox, "confirm")
    /\ mail' = Taken(Inbox)
    /\ LET p == Head(mail[Inbox]).from
       IN  IF pending = p
           THEN Pair(p)
           ELSE UNCHANGED <<paired, pending, db, confirmed>>
    /\ UNCHANGED <<kind, up, at, url, keys, starts, phones>>

Crash ==
    /\ up /\ up' = FALSE /\ Forget
    /\ UNCHANGED <<kind, at, db, starts, confirmed, phones, mail>>

\* The agent gets the saved document back under the saved DID.
RestoredKeys ==
    IF kind = "buyer" /\ db.paired # None THEN [NoKeys EXCEPT ![db.paired] = db.doc]
    ELSE NoKeys


\* send_mediator_update_to_phone after the handshake: packed for the phone's keys.
Notify(p, u, agent, here) ==
    IF p = None \/ u = None THEN UNCHANGED mail
    ELSE IF agent[p] = None THEN UNCHANGED mail
    ELSE Post(mail, <<u, p>>, p, Update(agent[p], here))

\* The server starts, with the mediator of its configuration, and connects.
Start ==
    /\ ~up /\ starts < MaxStarts
    /\ \E u \in Urls : at' = u /\ Notify(db.paired, db.url, RestoredKeys, u)
    /\ up' = TRUE /\ starts' = starts + 1
    /\ paired' = db.paired /\ pending' = None /\ url' = db.url /\ keys' = RestoredKeys
    /\ UNCHANGED <<kind, db, confirmed, phones>>

-----------------------------------------------------------------------------
(* The phones.                                                             *)

\* parseInvitationAndConnect; the merchant's app leaves its mediator out.
Named(p) == IF kind = "buyer" THEN seat[p] ELSE None

\* send_connection_request: posted to the mediator that the invitation names.
SendRequest(p) == mail' = Put(mail, Inbox, Request(p, Named(p)))

Scan(p) ==
    /\ up /\ scans < MaxScans
    /\ SendRequest(p)
    /\ scans' = scans + 1
    /\ asked' = [asked EXCEPT ![p] = asked[p] \cup {Named(p)}]
    /\ UNCHANGED <<kind, server, seat, list>>

Outbox(p) == <<seat[p], p>>

\* An accepted answer lists the server, anew if need be, and is confirmed.
ReadResponse(p) ==
    /\ Waiting(Outbox(p), "response")
    /\ LET m == Head(mail[Outbox(p)])
       IN  IF m.ok
           THEN /\ list' = [list EXCEPT ![p] = m.at]
                /\ Post(Taken(Outbox(p)), <<m.at, Mcp>>, p, Confirm(p))
           ELSE mail' = Taken(Outbox(p)) /\ UNCHANGED list
    /\ UNCHANGED <<kind, server, seat, scans, asked>>

\* A mediator-update the phone can read moves the server in its list.
ReadUpdate(p) ==
    /\ Waiting(Outbox(p), "update")
    /\ LET m == Head(mail[Outbox(p)])
       IN  list' = IF list[p] # None /\ m.for = p THEN [list EXCEPT ![p] = m.at] ELSE list
    /\ mail' = Taken(Outbox(p))
    /\ UNCHANGED <<kind, server, seat, scans, asked>>

\* connectToMediator with another URL; the update it tries to send never leaves.
Move(p) ==
    /\ p \in Unsteady
    /\ \E u \in Urls \ {seat[p]} : seat' = [seat EXCEPT ![p] = u]
    /\ UNCHANGED <<kind, server, list, scans, asked, mail>>

\* removePairedMcp: the server is not told.
Remove(p) ==
    /\ list[p] # None /\ list' = [list EXCEPT ![p] = None]
    /\ UNCHANGED <<kind, server, seat, scans, asked, mail>>

Reads(p) == ReadResponse(p) \/ ReadUpdate(p)

Handles == Refuse \/ Accept \/ TakeConfirm

Next ==
    \/ Handles \/ AcceptCut \/ Crash \/ Start
    \/ \E p \in Phones : Scan(p) \/ Reads(p) \/ Move(p) \/ Remove(p)

Spec == Init /\ [][Next]_vars

-----------------------------------------------------------------------------
(* What the pairing of a phone with an MCP server is for.                    *)

\* The values each variable can have; Waiting, Accept and Start of the server
\* and the phones' handlers only ever read and write such values.
TypeOK ==
    /\ kind \in Kinds /\ up \in BOOLEAN /\ at \in Urls
    /\ paired \in Phones \cup {None} /\ pending \in Phones \cup {None}
    /\ url \in Urls \cup {None}
    /\ keys \in [Phones -> Phones \cup {None}]
    /\ db \in [doc : Phones \cup {None}, paired : Phones \cup {None}, url : Urls \cup {None}]
    /\ seat \in [Phones -> Urls] /\ list \in [Phones -> Urls \cup {None}]
    /\ confirmed \subseteq Phones
    /\ asked \in [Phones -> SUBSET (Urls \cup {None})]
    /\ scans \in Nat /\ starts \in Nat

KeepsPhone ==
    \/ paired' = paired
    \/ paired' = None /\ ~up' /\ db'.paired = paired

\* "only first-time pairing is allowed" (mediator.rs 1225): while the server runs,
\* nothing, neither another phone's request nor a late confirmation, takes the
\* paired phone's place, and a restart comes back with the same phone.
PairingIsForLife == [][paired # None => KeepsPhone]_vars

\* What is written for the paired phone, in memory now or from sled after a restart,
\* can be read by it and goes to a mediator it has named: the DID, the document and
\* the mediator, three separate writes, are of one request.
PairedCanBeWrittenTo ==
    (kind = "buyer" /\ up /\ paired # None) =>
        keys[paired] = paired /\ url \in asked[paired]

\* The entries in sled are of one request.  A stop between two writes of another
\* phone's request may leave a mixture.
OfOneRequest == db.paired # None => db.doc = db.paired /\ db.url \in asked[db.paired]

\* What waits for a phone at its mediator and tells it where the server is.
News(p) ==
    SelectSeq(mail[Outbox(p)],
              LAMBDA m : \/ m.type = "response" /\ m.ok
                         \/ m.type = "update" /\ m.for = p)


-----------------------------------------------------------------------------
(* Checked to fail: what the code does not keep.                           *)

\* The phone of a restarted server is one that has confirmed.  The buyer's server
\* writes its DID at the request (mediator.rs 1263).
PairedHasConfirmed == (up /\ paired # None) => paired \in confirmed

\* No two phones list the server: a request replaces a pending one whose phone has
\* listed the server already and is not told.
OnePhoneListsServer ==
    \A p, q \in Phones : (list[p] # None /\ list[q] # None) => p = q

\* A phone that removed the server, or was set up again with the same DID, "can
\* re-scan the QR code to pair again" (connection_screen.dart 550).
OwnPhoneIsNotRefused ==
    \A p \in Phones : \A i \in DOMAIN mail[Outbox(p)] :
        LET m == mail[Outbox(p)][i] IN (m.type = "response" /\ ~m.ok) => paired # p

\* The server writes to where its phone is.
PhoneIsReached == (up /\ paired # None) => url = seat[paired]
=============================================================================
