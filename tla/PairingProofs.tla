---------------------------- MODULE PairingProofs ----------------------------
(***************************************************************************)
(* Proofs about the pairing, for any phones, mediators and bounds.         *)
(***************************************************************************)
EXTENDS Pairing, TLAPS

\* A request that waits somewhere names a mediator its phone has named.
Fits(m) == m.type = "request" => /\ m.url \in asked[m.from]
                                 /\ kind = "buyer" => m.url # None

Msg == [type : {"request"}, from : Phones, url : Urls \cup {None}]
         \cup [type : {"response"}, ok : BOOLEAN, at : Urls]
         \cup [type : {"confirm"}, from : Phones]
         \cup [type : {"update"}, for : Phones \cup {None}, at : Urls]
FitMsg == {m \in Msg : Fits(m)}

Saved == [doc : Phones \cup {None}, paired : Phones \cup {None}, url : Urls \cup {None}]

Typed ==
    /\ kind \in Kinds /\ at \in Urls
    /\ paired \in Phones \cup {None} /\ pending \in Phones \cup {None}
    /\ url \in Urls \cup {None}
    /\ keys \in [Phones -> Phones \cup {None}]
    /\ db \in Saved
    /\ seat \in [Phones -> Urls]
    /\ asked \in [Phones -> SUBSET (Urls \cup {None})]
    /\ mail \in [Urls \X Addressees -> Seq(FitMsg)]

\* The three entries in sled are of one request, which is the pending one or the
\* paired phone's.
OneRequest ==
    kind = "buyer" =>
        /\ db.paired # None => db.doc = db.paired /\ db.url \in asked[db.paired]
        /\ pending # None => db.paired = pending /\ keys[pending] = pending /\ url = db.url
        /\ paired # None => keys[paired] = paired /\ url = db.url

\* A paired server takes no request in, and finds its phone again when it restarts;
\* one that is down has nothing in memory.  A crash between two writes leaves it alone.
PairSaved ==
    /\ ~up => paired = None /\ pending = None
    /\ paired # None => pending = None /\ db.paired = paired

-----------------------------------------------------------------------------
LEMMA SeqGrows == ASSUME NEW S, NEW T, S \subseteq T PROVE Seq(S) \subseteq Seq(T)
<1> SUFFICES ASSUME NEW s \in Seq(S) PROVE s \in Seq(T)
  OBVIOUS
<1>1. s \in [1..Len(s) -> T] /\ Len(s) \in Nat
  OBVIOUS
<1> QED
  BY <1>1

\* Messages are only added to a mailbox and taken from its head.
LEMMA Boxes ==
    ASSUME Typed, NEW box \in Urls \X Addressees
    PROVE  /\ mail[box] # <<>> =>
                /\ Head(mail[box]) \in FitMsg
                /\ Taken(box) \in [Urls \X Addressees -> Seq(FitMsg)]
           /\ \A bs \in [Urls \X Addressees -> Seq(FitMsg)], m \in FitMsg :
                 Put(bs, box, m) \in [Urls \X Addressees -> Seq(FitMsg)]
<1>1. mail[box] \in Seq(FitMsg)
  BY DEF Typed
<1>2. ASSUME mail[box] # <<>>
      PROVE  Head(mail[box]) \in FitMsg /\ Tail(mail[box]) \in Seq(FitMsg)
  BY <1>1, <1>2
<1>3. ASSUME mail[box] # <<>> PROVE Taken(box) \in [Urls \X Addressees -> Seq(FitMsg)]
  BY <1>2, <1>3 DEF Taken, Typed
<1>4. ASSUME NEW bs \in [Urls \X Addressees -> Seq(FitMsg)], NEW m \in FitMsg
      PROVE  Put(bs, box, m) \in [Urls \X Addressees -> Seq(FitMsg)]
  <2>1. Append(bs[box], m) \in Seq(FitMsg)
    OBVIOUS
  <2> QED
    BY <2>1 DEF Put
<1> QED
  BY <1>2, <1>3, <1>4

LEMMA Posted ==
    ASSUME Typed, NEW box \in Urls \X Addressees, NEW p, NEW m \in FitMsg,
           NEW bs \in [Urls \X Addressees -> Seq(FitMsg)], Post(bs, box, p, m)
    PROVE  mail' \in [Urls \X Addressees -> Seq(FitMsg)]
<1>1. CASE mail' = bs
  BY <1>1
<1>2. CASE mail' = Put(bs, box, m)
  <2>1. Put(bs, box, m) \in [Urls \X Addressees -> Seq(FitMsg)]
    BY Boxes
  <2> QED
    BY <1>2, <2>1
<1> QED
  BY <1>1, <1>2 DEF Post

\* Unless a phone asks, the messages that fit stay the same.
LEMMA FitStays ==
    ASSUME UNCHANGED <<kind, asked>> PROVE FitMsg' = FitMsg
BY DEF FitMsg, Fits, Msg

LEMMA Mailboxes == ASSUME Typed PROVE
    /\ Inbox \in Urls \X Addressees
    /\ \A p \in Phones : Outbox(p) \in Urls \X Addressees
    /\ \A u \in Urls, p \in Phones : <<u, p>> \in Urls \X Addressees
    /\ \A u \in Urls : <<u, Mcp>> \in Urls \X Addressees
BY DEF Typed, Inbox, Outbox, Addressees

LEMMA RequestIs ==
    ASSUME Typed, Waiting(Inbox, "request")
    PROVE  LET m == Head(mail[Inbox])
           IN  /\ mail[Inbox] # <<>> /\ m \in FitMsg
               /\ m.from \in Phones /\ m.url \in Urls \cup {None}
               /\ m.url \in asked[m.from]
               /\ kind = "buyer" => m.url # None
<1>1. mail[Inbox] # <<>> /\ Head(mail[Inbox]) \in FitMsg
  BY Mailboxes, Boxes DEF Waiting
<1>2. Head(mail[Inbox]).type = "request"
  BY DEF Waiting
<1> QED
  BY <1>1, <1>2 DEF FitMsg, Fits, Msg

LEMMA ConfirmIs ==
    ASSUME Typed, Waiting(Inbox, "confirm")
    PROVE  mail[Inbox] # <<>> /\ Head(mail[Inbox]).from \in Phones
<1>1. mail[Inbox] # <<>> /\ Head(mail[Inbox]) \in FitMsg
  BY Mailboxes, Boxes DEF Waiting
<1>2. Head(mail[Inbox]).type = "confirm"
  BY DEF Waiting
<1> QED
  BY <1>1, <1>2 DEF FitMsg, Msg

LEMMA Answered ==
    ASSUME Typed, Waiting(Inbox, "request"), NEW ok \in BOOLEAN,
           Answer(Head(mail[Inbox]).from, Head(mail[Inbox]).url, ok)
    PROVE  mail' \in [Urls \X Addressees -> Seq(FitMsg)]
<1> DEFINE m == Head(mail[Inbox])
<1>1. Taken(Inbox) \in [Urls \X Addressees -> Seq(FitMsg)]
  BY RequestIs, Mailboxes, Boxes
<1>2. Response(ok) \in FitMsg
  BY DEF Response, FitMsg, Fits, Msg, Typed
<1>3. CASE m.url = None
  BY <1>1, <1>3 DEF Answer
<1>4. CASE m.url # None
  <2>1. m.from \in Phones /\ m.url \in Urls
    BY <1>4, RequestIs
  <2>2. <<m.url, m.from>> \in Urls \X Addressees
    BY <2>1, Mailboxes
  <2>3. Post(Taken(Inbox), <<m.url, m.from>>, m.from, Response(ok))
    BY <1>4 DEF Answer
  <2> QED
    BY <1>1, <1>2, <2>2, <2>3, Posted
<1> QED
  BY <1>3, <1>4
-----------------------------------------------------------------------------
LEMMA InitTyped == Init => Typed
<1> SUFFICES ASSUME Init PROVE Typed
  OBVIOUS
<1>1. <<>> \in Seq(FitMsg)
  OBVIOUS
<1>2. mail \in [Urls \X Addressees -> Seq(FitMsg)]
  BY <1>1 DEF Init
<1>3. keys \in [Phones -> Phones \cup {None}]
  BY DEF Init, NoKeys
<1>4. asked \in [Phones -> SUBSET (Urls \cup {None})]
  BY DEF Init
<1>5. db \in Saved
  BY DEF Init, Saved
<1> QED
  BY <1>2, <1>3, <1>4, <1>5 DEF Init, Typed

\* The parts of Typed that a step of the server sets.
LEMMA WrittenSaved ==
    ASSUME Typed, NEW p \in Phones, NEW u \in Urls \cup {None}, NEW n \in 0..3
    PROVE  Written(p, u, n) \in Saved
BY DEF Typed, Written, Saved

LEMMA TypedStep == ASSUME Typed, [Next]_vars PROVE Typed'
<1> USE PairingAssumption
<1>0. CASE UNCHANGED vars
  <2>1. FitMsg' = FitMsg
    BY <1>0, FitStays DEF vars, phones
  <2> QED
    BY <1>0, <2>1 DEF Typed, vars, server, memory, phones
<1>1. CASE Refuse
  <2>1. mail' \in [Urls \X Addressees -> Seq(FitMsg)]
    BY <1>1, Answered DEF Refuse
  <2>2. FitMsg' = FitMsg
    BY <1>1, FitStays DEF Refuse, phones
  <2> QED
    BY <1>1, <2>1, <2>2 DEF Refuse, Typed, server, memory, phones
<1>2. CASE Accept
  <2>1. mail' \in [Urls \X Addressees -> Seq(FitMsg)]
    BY <1>2, Answered DEF Accept, Note, Accepting
  <2>2. FitMsg' = FitMsg
    BY <1>2, FitStays DEF Accept, Note, phones
  <2>3. db' \in Saved
    BY <1>2, RequestIs, WrittenSaved DEF Accept, Note, Accepting
  <2>4. /\ Head(mail[Inbox]).from \in Phones /\ Head(mail[Inbox]).url \in Urls \cup {None}
    BY <1>2, RequestIs DEF Accept, Note, Accepting
  <2>5. keys' \in [Phones -> Phones \cup {None}]
    BY <1>2, <2>4 DEF Accept, Note, Typed
  <2> QED
    BY <1>2, <2>1, <2>2, <2>3, <2>4, <2>5 DEF Accept, Note, Typed, phones
<1>3. CASE AcceptCut
  <2>1. mail' \in [Urls \X Addressees -> Seq(FitMsg)]
    BY <1>3, RequestIs, Mailboxes, Boxes DEF AcceptCut, Accepting
  <2>2. FitMsg' = FitMsg
    BY <1>3, FitStays DEF AcceptCut, phones
  <2>3. db' \in Saved
    BY <1>3, RequestIs, WrittenSaved DEF AcceptCut, Accepting
  <2> QED
    BY <1>3, <2>1, <2>2, <2>3 DEF AcceptCut, Forget, NoKeys, Typed, phones
<1>4. CASE TakeConfirm
  <2>1. mail' \in [Urls \X Addressees -> Seq(FitMsg)]
    BY <1>4, ConfirmIs, Mailboxes, Boxes DEF TakeConfirm, Pair
  <2>2. FitMsg' = FitMsg
    BY <1>4, FitStays DEF TakeConfirm, Pair, phones
  <2>3. db' \in Saved /\ paired' \in Phones \cup {None} /\ pending' \in Phones \cup {None}
    BY <1>4, ConfirmIs DEF TakeConfirm, Pair, Typed, Saved
  <2> QED
    BY <1>4, <2>1, <2>2, <2>3 DEF TakeConfirm, Pair, Typed, phones
<1>5. CASE Crash
  <2>1. FitMsg' = FitMsg
    BY <1>5, FitStays DEF Crash, phones
  <2> QED
    BY <1>5, <2>1 DEF Crash, Forget, NoKeys, Typed, phones
<1>6. CASE Start
  <2>1. PICK u \in Urls : at' = u /\ Notify(db.paired, db.url, RestoredKeys, u)
    BY <1>6 DEF Start
  <2>2. db.paired \in Phones \cup {None} /\ db.doc \in Phones \cup {None}
          /\ db.url \in Urls \cup {None}
    BY DEF Typed, Saved
  <2>3. RestoredKeys \in [Phones -> Phones \cup {None}]
    BY <2>2 DEF RestoredKeys, NoKeys
  <2>4. FitMsg' = FitMsg
    BY <1>6, FitStays DEF Start, phones
  <2>5. mail' \in [Urls \X Addressees -> Seq(FitMsg)]
    <3>1. CASE UNCHANGED mail
      BY <3>1 DEF Typed
    <3>2. CASE db.paired # None /\ db.url # None
               /\ Post(mail, <<db.url, db.paired>>, db.paired,
                       [type |-> "update", for |-> RestoredKeys[db.paired], at |-> u])
      <4>1. <<db.url, db.paired>> \in Urls \X Addressees
        BY <3>2, <2>2, Mailboxes
      <4>2. [type |-> "update", for |-> RestoredKeys[db.paired], at |-> u] \in FitMsg
        BY <3>2, <2>2, <2>3 DEF FitMsg, Fits, Msg
      <4>3. mail \in [Urls \X Addressees -> Seq(FitMsg)]
        BY DEF Typed
      <4> QED
        BY <3>2, <4>1, <4>2, <4>3, Posted
    <3> QED
      BY <2>1, <3>1, <3>2 DEF Notify, Update
  <2> QED
    BY <1>6, <2>1, <2>2, <2>3, <2>4, <2>5 DEF Start, Typed, phones
<1>7. ASSUME NEW p \in Phones, Scan(p) PROVE Typed'
  <2>1. Named(p) \in Urls \cup {None} /\ (kind = "buyer" => Named(p) # None)
    BY DEF Named, Typed
  <2>2. asked' \in [Phones -> SUBSET (Urls \cup {None})]
          /\ Named(p) \in asked'[p] /\ \A q \in Phones : asked[q] \subseteq asked'[q]
    BY <1>7, <2>1 DEF Scan, SendRequest, Typed
  <2>3. kind' = kind
    BY <1>7 DEF Scan, SendRequest
  <2>4. FitMsg \subseteq FitMsg'
    BY <2>2, <2>3 DEF FitMsg, Fits, Msg
  <2>5. Request(p, Named(p)) \in FitMsg'
    BY <2>1, <2>2, <2>3 DEF Request, FitMsg, Fits, Msg
  <2>6. mail \in [Urls \X Addressees -> Seq(FitMsg')]
    <3>1. Seq(FitMsg) \subseteq Seq(FitMsg')
      BY <2>4, SeqGrows
    <3> QED
      BY <3>1 DEF Typed
  <2>7. Append(mail[Inbox], Request(p, Named(p))) \in Seq(FitMsg')
    <3>1. mail[Inbox] \in Seq(FitMsg')
      BY <2>6, Mailboxes
    <3> QED
      BY <3>1, <2>5
  <2>8. mail' \in [Urls \X Addressees -> Seq(FitMsg')]
    BY <1>7, <2>6, <2>7 DEF Scan, SendRequest, Put
  <2> QED
    BY <1>7, <2>2, <2>8 DEF Scan, SendRequest, Typed, server, memory
<1>8. ASSUME NEW p \in Phones, Reads(p) PROVE Typed'
  <2>1. Outbox(p) \in Urls \X Addressees
    BY Mailboxes
  <2>2. mail[Outbox(p)] # <<>>
    BY <1>8 DEF Reads, ReadResponse, ReadUpdate, Waiting
  <2>3. Head(mail[Outbox(p)]) \in FitMsg
          /\ Taken(Outbox(p)) \in [Urls \X Addressees -> Seq(FitMsg)]
    BY <2>1, <2>2, Boxes
  <2>4. FitMsg' = FitMsg
    BY <1>8, FitStays DEF Reads, ReadResponse, ReadUpdate
  <2>5. CASE ReadUpdate(p)
    BY <2>3, <2>4, <2>5 DEF ReadUpdate, Typed, server, memory
  <2>6. CASE ReadResponse(p)
    <3> DEFINE m == Head(mail[Outbox(p)])
    <3>1. m.at \in Urls
      BY <2>3, <2>6 DEF ReadResponse, Waiting, FitMsg, Msg
    <3>2. <<m.at, Mcp>> \in Urls \X Addressees /\ Confirm(p) \in FitMsg
      BY <3>1, Mailboxes DEF Confirm, FitMsg, Fits, Msg
    <3>3. mail' = Taken(Outbox(p)) \/ Post(Taken(Outbox(p)), <<m.at, Mcp>>, p, Confirm(p))
      BY <2>6 DEF ReadResponse
    <3>4. mail' \in [Urls \X Addressees -> Seq(FitMsg)]
      BY <2>3, <3>2, <3>3, Posted
    <3> QED
      BY <2>4, <2>6, <3>4 DEF ReadResponse, Typed, server, memory
  <2> QED
    BY <1>8, <2>5, <2>6 DEF Reads
<1>9. ASSUME NEW p \in Phones, Move(p) \/ Remove(p) PROVE Typed'
  <2>1. FitMsg' = FitMsg
    BY <1>9, FitStays DEF Move, Remove
  <2>2. seat' \in [Phones -> Urls]
    BY <1>9 DEF Move, Remove, Typed
  <2> QED
    BY <1>9, <2>1, <2>2 DEF Move, Remove, Typed, server, memory
<1> QED
  BY <1>0, <1>1, <1>2, <1>3, <1>4, <1>5, <1>6, <1>7, <1>8, <1>9 DEF Next, Handles

-----------------------------------------------------------------------------
\* What every step does to the pair.
LEMMA PairStep ==
    ASSUME Typed, PairSaved, [Next]_vars
    PROVE  /\ PairSaved'
           /\ paired # None => KeepsPhone
<1> USE PairingAssumption
<1>0. ASSUME UNCHANGED <<up, paired, pending, db>>
      PROVE  PairSaved' /\ KeepsPhone
  BY <1>0 DEF PairSaved, KeepsPhone
<1>1. CASE UNCHANGED vars
  BY <1>0, <1>1 DEF vars, server, memory
<1>2. CASE Refuse
  BY <1>0, <1>2 DEF Refuse, server, memory
<1>3. CASE Accept
  BY <1>3 DEF Accept, Note, Accepting, PairSaved, KeepsPhone
<1>4. CASE AcceptCut
  BY <1>4 DEF AcceptCut, Accepting, Forget, PairSaved, KeepsPhone
<1>5. CASE TakeConfirm
  <2> DEFINE p == Head(mail[Inbox]).from
  <2>1. p \in Phones
    BY <1>5, ConfirmIs DEF TakeConfirm, Pair
  <2>2. CASE pending = p
    <3>1. paired' = p /\ pending' = None /\ db' = [db EXCEPT !.paired = p] /\ up' = up /\ up
      BY <1>5, <2>2 DEF TakeConfirm, Pair
    <3>2. db'.paired = p
      BY <3>1 DEF Typed, Saved
    <3>3. paired = None
      BY <2>1, <2>2 DEF PairSaved, KeepsPhone
    <3> QED
      BY <3>1, <3>2, <3>3 DEF PairSaved, KeepsPhone
  <2>3. CASE pending # p
    BY <1>0, <1>5, <2>3 DEF TakeConfirm, Pair
  <2> QED
    BY <2>2, <2>3
<1>6. CASE Crash
  BY <1>6 DEF Crash, Forget, PairSaved, KeepsPhone
<1>7. CASE Start
  BY <1>7 DEF Start, PairSaved, KeepsPhone
<1>8. ASSUME NEW p \in Phones, Scan(p) \/ Reads(p) \/ Move(p) \/ Remove(p)
      PROVE  PairSaved' /\ KeepsPhone
  BY <1>0, <1>8 DEF Scan, SendRequest, Reads, ReadResponse, ReadUpdate, Move, Remove, server, memory
<1> QED
  BY <1>0, <1>1, <1>2, <1>3, <1>4, <1>5, <1>6, <1>7, <1>8 DEF Next, Handles

\* The phone a server is paired with stays the one, through other phones' requests and
\* confirmations, crashes between any two writes, and restarts (mediator.rs 1225-1290).
THEOREM PairedForLife == Spec => PairingIsForLife
<1>1. Init => Typed /\ PairSaved
  BY InitTyped DEF Init, PairSaved, KeepsPhone
<1>2. Typed /\ PairSaved /\ [Next]_vars => (Typed /\ PairSaved)'
  BY TypedStep, PairStep
<1>3. Typed /\ PairSaved /\ [Next]_vars =>
         [paired # None => KeepsPhone]_vars
  BY PairStep
<1> QED
  BY <1>1, <1>2, <1>3, PTL DEF Spec, PairingIsForLife

-----------------------------------------------------------------------------
LEMMA OneRequestStep ==
    ASSUME Typed, PairSaved, OneRequest, CutShort = {}, [Next]_vars
    PROVE  OneRequest'
<1> USE PairingAssumption
<1>0. ASSUME UNCHANGED <<kind, paired, pending, url, keys, db>>,
             \A q \in Phones : asked[q] \subseteq asked'[q]
      PROVE  OneRequest'
  BY <1>0 DEF OneRequest, Typed, Saved
<1>1. CASE UNCHANGED vars
  BY <1>0, <1>1 DEF vars, server, memory, phones
<1>2. CASE Refuse
  BY <1>0, <1>2 DEF Refuse, server, memory, phones
<1>3. CASE Accept
  <2> DEFINE m == Head(mail[Inbox])
  <2>1. /\ m.from \in Phones /\ m.url \in Urls \cup {None} /\ m.url \in asked[m.from]
        /\ kind = "buyer" => m.url # None
    BY <1>3, RequestIs DEF Accept, Note, Accepting
  <2>2. /\ pending' = m.from /\ paired' = None /\ kind' = kind /\ asked' = asked
        /\ db' = Written(m.from, m.url, 3)
    BY <1>3 DEF Accept, Note, Accepting, phones
  <2>3. kind = "buyer" => db' = [doc |-> m.from, paired |-> m.from, url |-> m.url]
    BY <2>1, <2>2 DEF Written
  <2>4. kind = "buyer" => url' = m.url /\ keys' = [keys EXCEPT ![m.from] = m.from]
    BY <1>3, <2>1 DEF Accept, Note
  <2>5. kind = "buyer" => keys'[m.from] = m.from
    BY <2>1, <2>4 DEF Typed
  <2> QED
    BY <2>1, <2>2, <2>3, <2>4, <2>5 DEF OneRequest
<1>4. CASE AcceptCut
  BY <1>4 DEF AcceptCut
<1>5. CASE TakeConfirm
  <2> DEFINE p == Head(mail[Inbox]).from
  <2>1. p \in Phones
    BY <1>5, ConfirmIs DEF TakeConfirm, Pair
  <2>2. UNCHANGED <<kind, url, keys, asked>>
    BY <1>5 DEF TakeConfirm, Pair, phones
  <2>3. CASE pending = p
    <3>1. paired' = p /\ pending' = None /\ db' = [db EXCEPT !.paired = p]
      BY <1>5, <2>3 DEF TakeConfirm, Pair
    <3>2. kind = "buyer" => db.paired = p /\ keys[p] = p /\ url = db.url
      BY <2>1, <2>3 DEF OneRequest
    <3>3. kind = "buyer" => db' = db
      BY <3>1, <3>2 DEF Typed, Saved
    <3> QED
      BY <2>2, <3>1, <3>2, <3>3 DEF OneRequest
  <2>4. CASE pending # p
    BY <1>0, <1>5, <2>2, <2>4 DEF TakeConfirm, Pair
  <2> QED
    BY <2>3, <2>4
<1>6. CASE Crash
  BY <1>6 DEF Crash, Forget, phones, OneRequest
<1>7. CASE Start
  <2>1. /\ UNCHANGED <<kind, db, asked>> /\ pending' = None
        /\ paired' = db.paired /\ url' = db.url /\ keys' = RestoredKeys
    BY <1>7 DEF Start, phones
  <2>2. ASSUME kind = "buyer", db.paired # None PROVE RestoredKeys[db.paired] = db.doc
    BY <2>2 DEF RestoredKeys, NoKeys, Typed, Saved
  <2> QED
    BY <2>1, <2>2 DEF OneRequest
<1>8. ASSUME NEW p \in Phones, Scan(p) PROVE OneRequest'
  <2>1. \A q \in Phones : asked[q] \subseteq asked'[q]
    BY <1>8 DEF Scan, SendRequest, Typed
  <2> QED
    BY <1>0, <1>8, <2>1 DEF Scan, SendRequest, server, memory
<1>9. ASSUME NEW p \in Phones, Reads(p) \/ Move(p) \/ Remove(p) PROVE OneRequest'
  <2>1. UNCHANGED <<kind, paired, pending, url, keys, db, asked>>
    BY <1>9 DEF Reads, ReadResponse, ReadUpdate, Move, Remove, server, memory
  <2> QED
    BY <1>0, <2>1
<1> QED
  BY <1>1, <1>2, <1>3, <1>4, <1>5, <1>6, <1>7, <1>8, <1>9 DEF Next, Handles

\* If the server never stops between two writes of a handler, what it holds about its
\* phone is of one request of that phone: the phone can read what is packed for it,
\* and it goes to a mediator the phone has named.
THEOREM PairedIsWritable == ASSUME CutShort = {} PROVE Spec => []PairedCanBeWrittenTo
<1> DEFINE Inv == Typed /\ PairSaved /\ OneRequest
<1>1. Init => Inv
  <2> SUFFICES ASSUME Init PROVE PairSaved /\ OneRequest
    BY InitTyped
  <2> QED
    BY DEF Init, PairSaved, OneRequest
<1>2. Inv /\ [Next]_vars => Inv'
  BY TypedStep, PairStep, OneRequestStep
<1>3. Inv => PairedCanBeWrittenTo
  BY DEF PairSaved, OneRequest, PairedCanBeWrittenTo
<1> QED
  BY <1>1, <1>2, <1>3, PTL DEF Spec
=============================================================================
