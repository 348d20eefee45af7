-------------------------- MODULE CopyServiceProofs --------------------------
(***************************************************************************)
(* What holds of the copy service for every set of offers, every number of *)
(* requests, and however folders fail, listeners re-enter and dialogs run  *)
(* the event loop: nothing here depends on the constants that restrain the *)
(* environment.                                                            *)
(*                                                                         *)
(* The second part, from Restrained on, is what holds when its             *)
(* surroundings keep to some rules: one copy at a time for a destination,  *)
(* each listener told what its folder said, nothing forgotten and no       *)
(* wakeup lost.  CopyQueue.cfg checks the same on a small instance; each   *)
(* rule is needed for one of them.  There the array and its flags are seen *)
(* as a set of cards, which never change, and the set Going of the         *)
(* requests under way.  The invariant says which folder, or which call on  *)
(* the stack, answers for each of those, and counts the calls that will    *)
(* come to DoNextCopy: there are as many as there are destinations with a  *)
(* copy to start.                                                          *)
(***************************************************************************)
EXTENDS CopyService, SeqLemmas, FiniteSetTheorems


-----------------------------------------------------------------------------
(* Type correctness.                                                       *)

LEMMA OfferTypes ==
    ASSUME NEW o \in Offers, NEW id \in Ids
    PROVE  NewRequest(id, o) \in RequestType
<1>1. OfferType(o)
  BY CopyAssumption
<1>2. o.type \in Types /\ o.src \in Srcs /\ o.dst \in Dsts /\ o.name \in Names
  BY <1>1 DEF OfferType, Srcs, Dsts, Names
<1>3. o.from \in Seq(Srcs) /\ DOMAIN o.from = 1..Len(o.from) /\ Len(o.from) \in Nat
  BY <1>1 DEF OfferType
<1> DEFINE sources == [k \in DOMAIN o.from |->
                         [folder |-> o.from[k], processed |-> o.from[k] = o.dst]]
<1>4. \A k \in 1..Len(o.from) : sources[k] \in SourceType
  BY <1>3 DEF SourceType
<1>5. sources \in Seq(SourceType)
  <2>1. sources \in [1..Len(o.from) -> SourceType]
    BY <1>3, <1>4
  <2>. QED  BY <1>3, <2>1, FunctionIsSeq
<1>6. o.type # "file" => sources # <<>>
  BY <1>1, <1>3 DEF OfferType, Types
<1>. QED  BY <1>2, <1>5, <1>6 DEF NewRequest, RequestType

\* FindRequest yields a position of the queue, or 0.
LEMMA FindRequestRange ==
    ASSUME NEW q \in Seq(RequestType), NEW src, NEW place
    PROVE  FindRequest(q, src, place) \in 0..Len(q)
<1> DEFINE hits == {i \in DOMAIN q : Matches(q[i], src, place)}
<1>1. hits \subseteq 1..Len(q) /\ hits \in SUBSET Nat /\ Len(q) \in Nat
  OBVIOUS
<1>2. CASE hits # {}
  <2>1. Min(hits) \in hits
    BY <1>1, <1>2, MinNat
  <2>. QED  BY <1>1, <1>2, <2>1 DEF FindRequest
<1>3. CASE hits = {}
  BY <1>1, <1>3 DEF FindRequest
<1>. QED  BY <1>2, <1>3

LEMMA FoundRange ==
    ASSUME NEW q \in Seq(RequestType), \E i \in DOMAIN q : Startable(q, i)
    PROVE  /\ Found(q) \in 1..Len(q)
           /\ Startable(q, Found(q))
           /\ \A j \in 1..(Found(q) - 1) : ~ Startable(q, j)
<1> DEFINE T == {i \in DOMAIN q : Startable(q, i)}
<1>1. T \in SUBSET Nat /\ T # {} /\ T \subseteq 1..Len(q)
  OBVIOUS
<1>2. Min(T) \in T /\ \A y \in T : Min(T) <= y
  BY <1>1, MinNat
<1>3. Found(q) = Min(T)
  BY DEF Found
<1>4. Found(q) \in T /\ \A y \in T : Found(q) <= y
  BY <1>2, <1>3
<1>5. Found(q) \in 1..Len(q) /\ Startable(q, Found(q))
  BY <1>4
<1>6. ASSUME NEW j \in 1..(Found(q) - 1), Startable(q, j)
      PROVE  FALSE
  <2>1. j \in DOMAIN q /\ j < Found(q)
    BY <1>5
  <2>. QED  BY <1>4, <1>5, <1>6, <2>1
<1>. QED  BY <1>5, <1>6

LEMMA FirstSourceRange ==
    ASSUME NEW r \in RequestType, r.sources # <<>>, ~ AllSourcesProcessed(r)
    PROVE  FirstSource(r) \in 1..Len(r.sources)
<1> DEFINE T == {k \in DOMAIN r.sources : ~ r.sources[k].processed}
<1>1. r.sources \in Seq(SourceType)
  BY DEF RequestType
<1>2. T \in SUBSET Nat /\ T # {} /\ T \subseteq 1..Len(r.sources)
  BY <1>1 DEF AllSourcesProcessed
<1>3. Min(T) \in T
  BY <1>2, MinNat
<1>. QED  BY <1>2, <1>3 DEF FirstSource

LEMMA MarkedRequest ==
    ASSUME NEW r \in RequestType, NEW b \in BOOLEAN
    PROVE  /\ [r EXCEPT !.processed = b] \in RequestType
           /\ [r EXCEPT !.processed = b].id = r.id
           /\ [r EXCEPT !.processed = b].dst = r.dst
  BY DEF RequestType

LEMMA MarkedSource ==
    ASSUME NEW r \in RequestType, NEW k \in 1..Len(r.sources)
    PROVE  /\ [r EXCEPT !.sources[k].processed = TRUE] \in RequestType
           /\ [r EXCEPT !.sources[k].processed = TRUE].id = r.id
<1> DEFINE s == [r.sources EXCEPT ![k].processed = TRUE]
<1>1. r.sources \in Seq(SourceType) /\ r.sources[k] \in SourceType
  BY DEF RequestType
<1>2. [r.sources[k] EXCEPT !.processed = TRUE] \in SourceType
  BY <1>1 DEF SourceType
<1>3. s \in Seq(SourceType) /\ Len(s) = Len(r.sources)
  BY <1>1, <1>2, ExceptSeq
<1>4. s # <<>>
  BY <1>3
<1>. QED  BY <1>3, <1>4 DEF RequestType

LEMMA MarkUnderwayType ==
    ASSUME NEW q \in Seq(RequestType), NEW n
    PROVE  /\ MarkUnderway(q, n) \in Seq(RequestType)
           /\ Len(MarkUnderway(q, n)) = Len(q)
           /\ \A i \in 1..Len(q) : /\ MarkUnderway(q, n)[i].id = q[i].id
                                  /\ MarkUnderway(q, n)[i].dst = q[i].dst
<1>1. \A i \in 1..Len(q) : [q[i] EXCEPT !.processed = TRUE] \in RequestType
                           /\ [q[i] EXCEPT !.processed = TRUE].id = q[i].id
                           /\ [q[i] EXCEPT !.processed = TRUE].dst = q[i].dst
  <2>1. \A i \in 1..Len(q) : q[i] \in RequestType
    OBVIOUS
  <2>. QED  BY <2>1, MarkedRequest, Zenon
<1>2. \A i \in 1..Len(q) : MarkUnderway(q, n)[i] \in RequestType
                           /\ MarkUnderway(q, n)[i].id = q[i].id
                           /\ MarkUnderway(q, n)[i].dst = q[i].dst
  BY <1>1 DEF MarkUnderway
<1>3. DOMAIN MarkUnderway(q, n) = 1..Len(q)
  BY DEF MarkUnderway
<1>4. MarkUnderway(q, n) \in [1..Len(q) -> RequestType]
  BY <1>2, <1>3 DEF MarkUnderway
<1>5. MarkUnderway(q, n) \in Seq(RequestType) /\ Len(MarkUnderway(q, n)) = Len(q)
  BY <1>4, FunctionIsSeq
<1>. QED  BY <1>2, <1>5

LEMMA Frames ==
    /\ DoNextCopyCall \in FrameType
    /\ \A id \in Ids : OnStopCopyCall(id) \in FrameType
    /\ \A src \in Srcs, place \in Places, rv \in Results, n \in Nat :
          NotifyCall(src, place, rv, n) \in FrameType
  BY DEF FrameType, DoNextCopyCall, OnStopCopyCall, NotifyCall

\* What the innermost call is when the code looks at it.
LEMMA TopFrame ==
    ASSUME TypeOK, stack # <<>>
    PROVE  /\ Head(stack) \in FrameType
           /\ Tail(stack) \in Seq(FrameType)
  BY DEF TypeOK

LEMMA CopyFrame ==
    ASSUME TypeOK, Running("Copy")
    PROVE  Head(stack) \in [pc : {"Copy"}, id : Ids, type : Types, src : Srcs,
                            dst : Dsts, name : Names]
  BY TopFrame DEF Running, FrameType, DoNextCopyCall, OnStopCopyCall

LEMMA NotifyFrame ==
    ASSUME TypeOK, Running("NotifyCompletion")
    PROVE  Head(stack) \in [pc : {"NotifyCompletion"}, src : Srcs, dst : Places,
                            rv : Results, orig : Nat]
  BY TopFrame DEF Running, FrameType, DoNextCopyCall, OnStopCopyCall

\* The places a folder may report are places NotifyCompletion knows.
LEMMA PlacesKnown ==
    ASSUME NEW c, c.dst \in Dsts, c.name \in Names
    PROVE  LaterPlaces(c) \subseteq Places /\ PlacesAtOnce(c) \subseteq Places
  BY CopyAssumption DEF LaterPlaces, PlacesAtOnce, Places

LEMMA TypeInit == Init => TypeOK
  BY CopyAssumption DEF Init, TypeOK, Ids

LEMMA DoCopyType ==
    ASSUME TypeOK, NEW o \in Offers, DoCopy(o)
    PROVE  TypeOK'
<1>1. NewRequest(nextId, o) \in RequestType
  BY OfferTypes DEF DoCopy
<1>2. m_copyRequests' \in Seq(RequestType)
  BY <1>1 DEF DoCopy, TypeOK
<1>3. stack' \in Seq(FrameType)
  <2>1. stack \in Seq(FrameType) /\ DoNextCopyCall \in FrameType
    BY Frames DEF TypeOK
  <2>2. Cons(DoNextCopyCall, stack) \in Seq(FrameType)
    BY <2>1, ConsProperties
  <2>. QED  BY <2>1, <2>2 DEF DoCopy, Call
<1>4. nextId' \in 1..(MaxRequests + 1)
  BY CopyAssumption DEF DoCopy, TypeOK, Ids
<1>. QED  BY <1>2, <1>3, <1>4 DEF DoCopy, TypeOK

LEMMA DoNextCopyStartsType ==
    ASSUME TypeOK, DoNextCopyStarts
    PROVE  TypeOK'
<1> DEFINE q == m_copyRequests
           i == Found(q)
           r == q[i]
           k == FirstSource(r)
           marked == IF r.sources # <<>>
                       THEN [r EXCEPT !.sources[k].processed = TRUE] ELSE r
           last == [marked EXCEPT !.processed = (r.type = "file")]
           src == IF r.type = "file" THEN r.src ELSE r.sources[k].folder
<1>1. q \in Seq(RequestType) /\ stack # <<>> /\ \E j \in DOMAIN q : Startable(q, j)
  BY DEF TypeOK, DoNextCopyStarts, Running
<1>2. i \in 1..Len(q) /\ Startable(q, i)
  BY <1>1, FoundRange
<1>3. r \in RequestType /\ (r.sources # <<>> => ~ AllSourcesProcessed(r))
  BY <1>1, <1>2 DEF Startable, Underway
<1>4. r.sources # <<>> => k \in 1..Len(r.sources)
  BY <1>3, FirstSourceRange
<1>5. marked \in RequestType /\ marked.id = r.id
  BY <1>3, <1>4, MarkedSource
<1>6. last \in RequestType /\ last.id = r.id
  BY <1>5, MarkedRequest
<1>7. src \in Srcs /\ CopyCall(r, src) \in FrameType
  <2>1. src \in Srcs
    <3>1. CASE r.type = "file"
      BY <1>3, <3>1 DEF RequestType
    <3>2. CASE r.type # "file"
      <4>1. r.sources \in Seq(SourceType) /\ r.sources # <<>>
        BY <1>3, <3>2 DEF RequestType
      <4>2. r.sources[k] \in SourceType
        BY <1>4, <4>1
      <4>. QED  BY <3>2, <4>2 DEF SourceType
    <3>. QED  BY <3>1, <3>2
  <2>. QED  BY <1>3, <2>1 DEF CopyCall, FrameType, RequestType
<1>8. m_copyRequests' = [MarkUnderway(q, i) EXCEPT ![i] = last]
  BY DEF DoNextCopyStarts
<1>9. m_copyRequests' \in Seq(RequestType)
  <2>1. MarkUnderway(q, i) \in Seq(RequestType)
    BY <1>1, MarkUnderwayType
  <2>2. Len(MarkUnderway(q, i)) = Len(q)
    BY <1>1, MarkUnderwayType
  <2> HIDE DEF q, i, last
  <2>. QED  BY <1>2, <1>6, <1>8, <2>1, <2>2, ExceptSeq
<1>10. stack' \in Seq(FrameType)
  <2>1. Tail(stack) \in Seq(FrameType)
    BY <1>1, TopFrame
  <2>2. stack' = Cons(CopyCall(r, src), Tail(stack))
    BY DEF DoNextCopyStarts, ReturnAndCall
  <2>. QED  BY <1>7, <2>1, <2>2, ConsProperties
<1>11. starts' \in [Ids -> Nat]
  <2>1. starts' = [starts EXCEPT ![r.id] = @ + 1]
    BY DEF DoNextCopyStarts
  <2>2. r.id \in Ids
    BY <1>3 DEF RequestType
  <2>3. starts \in [Ids -> Nat]
    BY DEF TypeOK
  <2> HIDE DEF r
  <2>. QED  BY <2>1, <2>2, <2>3
<1>. QED  BY <1>9, <1>10, <1>11 DEF DoNextCopyStarts, TypeOK

LEMMA FolderType ==
    ASSUME TypeOK, Folder
    PROVE  TypeOK'
<1>1. CASE FolderAccepts
  <2>1. Head(stack) \in [pc : {"Copy"}, id : Ids, type : Types, src : Srcs,
                         dst : Dsts, name : Names]
    BY <1>1, CopyFrame DEF FolderAccepts
  <2>2. LaterPlaces(Head(stack)) \subseteq Places
    BY <2>1, PlacesKnown
  <2>3. running' \subseteq CopyType
    BY <1>1, <2>1, <2>2 DEF FolderAccepts, TypeOK, CopyType
  <2>4. stack' \in Seq(FrameType)
    BY <1>1, TopFrame DEF FolderAccepts, Running, Return
  <2>. QED  BY <1>1, <2>3, <2>4 DEF FolderAccepts, TypeOK
<1>2. CASE FolderCompletesAtOnce
  <2>1. Head(stack) \in [pc : {"Copy"}, id : Ids, type : Types, src : Srcs,
                         dst : Dsts, name : Names]
    BY <1>2, CopyFrame DEF FolderCompletesAtOnce
  <2>2. PICK p \in PlacesAtOnce(Head(stack)), rv \in Outcomes :
          /\ verdict' = [verdict EXCEPT ![Head(stack).id] = rv]
          /\ ReturnAndCall(NotifyCall(Head(stack).src, p, rv, Len(m_copyRequests)))
    BY <1>2 DEF FolderCompletesAtOnce
  <2>3. p \in Places /\ rv \in Results /\ Len(m_copyRequests) \in Nat
    BY <2>1, PlacesKnown DEF Outcomes, Results, TypeOK
  <2>4. NotifyCall(Head(stack).src, p, rv, Len(m_copyRequests)) \in FrameType
    BY <2>1, <2>3, Frames
  <2>5. Tail(stack) \in Seq(FrameType)
    BY <1>2, TopFrame DEF FolderCompletesAtOnce, Running
  <2>6. stack' \in Seq(FrameType)
    BY <2>2, <2>4, <2>5, ConsProperties DEF ReturnAndCall
  <2>7. verdict' \in [Ids -> Results \cup {"none"}]
    BY <2>1, <2>2, <2>3 DEF TypeOK
  <2>. QED  BY <1>2, <2>6, <2>7 DEF FolderCompletesAtOnce, TypeOK
<1>3. CASE FolderRefuses
  <2> DEFINE id == Head(stack).id
  <2>1. id \in Ids
    BY <1>3, CopyFrame DEF FolderRefuses
  <2>2. /\ \E i \in DOMAIN m_copyRequests :
             /\ m_copyRequests' = RemoveAt(m_copyRequests, i)
             /\ stopped' = [stopped EXCEPT ![id] = "failed"]
        /\ verdict' = [verdict EXCEPT ![id] = "failed"]
        /\ ReturnAndCall(OnStopCopyCall(id))
    BY <1>3 DEF FolderRefuses, ClearRequest
  <2>3. m_copyRequests' \in Seq(RequestType)
    BY <2>2, RemoveAtProperties DEF TypeOK
  <2>4. stack' \in Seq(FrameType)
    <3>1. Tail(stack) \in Seq(FrameType)
      BY <1>3, TopFrame DEF FolderRefuses, Running
    <3>2. OnStopCopyCall(id) \in FrameType
      BY <2>1, Frames
    <3>. QED  BY <2>2, <3>1, <3>2, ConsProperties DEF ReturnAndCall
  <2>5. /\ stopped' \in [Ids -> Results \cup {"none"}]
        /\ verdict' \in [Ids -> Results \cup {"none"}]
    BY <2>1, <2>2 DEF TypeOK, Results
  <2>. QED  BY <1>3, <2>3, <2>4, <2>5 DEF FolderRefuses, TypeOK
<1>. QED  BY <1>1, <1>2, <1>3 DEF Folder

LEMMA FolderCompletesType ==
    ASSUME TypeOK, NEW c \in running, FolderCompletes(c)
    PROVE  TypeOK'
<1>1. c \in CopyType
  BY DEF TypeOK
<1>2. PICK rv \in Outcomes :
        /\ verdict' = [verdict EXCEPT ![c.id] = rv]
        /\ Call(NotifyCall(c.src, c.place, rv, Len(m_copyRequests)))
  BY DEF FolderCompletes
<1>3. rv \in Results /\ Len(m_copyRequests) \in Nat
  BY DEF Outcomes, Results, TypeOK
<1>4. NotifyCall(c.src, c.place, rv, Len(m_copyRequests)) \in FrameType
  BY <1>1, <1>3, Frames DEF CopyType
<1>5. stack' \in Seq(FrameType)
  <2>1. stack \in Seq(FrameType)
    BY DEF TypeOK
  <2>. QED  BY <1>2, <1>4, <2>1, ConsProperties DEF Call
<1>6. verdict' \in [Ids -> Results \cup {"none"}]
  BY <1>1, <1>2, <1>3 DEF TypeOK, CopyType
<1>. QED  BY <1>5, <1>6 DEF FolderCompletes, TypeOK

\* What NotifyCompletion clears is a request of the queue within the count it
\* took when it was called.
LEMMA HitInQueue ==
    ASSUME TypeOK, Running("NotifyCompletion"), Clears(Head(stack))
    PROVE  /\ Hit(Head(stack)) \in 1..Len(m_copyRequests)
           /\ Head(stack).orig - 1 \in Nat
<1>1. Hit(Head(stack)) \in 0..Len(m_copyRequests)
  BY FindRequestRange DEF Hit, TypeOK
<1>2. Head(stack).orig \in Nat
  BY NotifyFrame
<1>3. Hit(Head(stack)) # 0 /\ Hit(Head(stack)) <= Head(stack).orig
  BY DEF Clears, Considered
<1>4. Len(m_copyRequests) \in Nat
  BY DEF TypeOK
<1>. QED  BY <1>1, <1>2, <1>3, <1>4

LEMMA NotifyClearsType ==
    ASSUME TypeOK, NotifyClears
    PROVE  TypeOK'
<1> DEFINE f == Head(stack)
           r == m_copyRequests[Hit(f)]
           g == [f EXCEPT !.orig = @ - 1]
<1>1. Running("NotifyCompletion") /\ Clears(f)
  BY DEF NotifyClears
<1>2. f \in [pc : {"NotifyCompletion"}, src : Srcs, dst : Places, rv : Results,
             orig : Nat]
  BY <1>1, NotifyFrame
<1>3. Hit(f) \in 1..Len(m_copyRequests) /\ f.orig - 1 \in Nat
  BY <1>1, HitInQueue
<1>4. r \in RequestType
  BY <1>3 DEF TypeOK
<1>5. m_copyRequests' \in Seq(RequestType)
  BY <1>3, RemoveAtProperties DEF NotifyClears, ClearRequest, TypeOK
<1>6. stopped' \in [Ids -> Results \cup {"none"}]
  <2>1. stopped' = [stopped EXCEPT ![r.id] = f.rv]
    BY DEF NotifyClears, ClearRequest
  <2>2. f.rv \in Results /\ r.id \in Ids
    BY <1>2, <1>4 DEF RequestType
  <2> HIDE DEF f, r
  <2>. QED  BY <2>1, <2>2 DEF TypeOK
<1>7. stack' \in Seq(FrameType)
  <2>1. g \in FrameType
    BY <1>2, <1>3 DEF FrameType
  <2>2. OnStopCopyCall(r.id) \in FrameType
    BY <1>4, Frames DEF RequestType
  <2>3. Tail(stack) \in Seq(FrameType)
    BY <1>1, TopFrame DEF Running
  <2>4. stack' = Cons(OnStopCopyCall(r.id), Cons(g, Tail(stack)))
    BY DEF NotifyClears
  <2> HIDE DEF g, r
  <2>5. Cons(g, Tail(stack)) \in Seq(FrameType)
    BY <2>1, <2>3, ConsProperties
  <2>. QED  BY <2>2, <2>4, <2>5, ConsProperties
<1>. QED  BY <1>5, <1>6, <1>7 DEF NotifyClears, TypeOK

LEMMA ReturnType ==
    ASSUME TypeOK, ListenerReturns \/ DoNextCopyIdle \/ NotifyEnds
    PROVE  TypeOK'
<1>1. stack # <<>>
  BY DEF ListenerReturns, DoNextCopyIdle, NotifyEnds, Running
<1>2. Tail(stack) \in Seq(FrameType)
  BY <1>1, TopFrame
<1>3. CASE ListenerReturns
  BY <1>2, <1>3 DEF ListenerReturns, Return, TypeOK
<1>4. CASE DoNextCopyIdle
  <2>1. m_copyRequests' \in Seq(RequestType)
    BY <1>4, MarkUnderwayType DEF DoNextCopyIdle, TypeOK
  <2>. QED  BY <1>2, <1>4, <2>1 DEF DoNextCopyIdle, Return, TypeOK
<1>5. CASE NotifyEnds
  <2>1. Cons(DoNextCopyCall, Tail(stack)) \in Seq(FrameType)
    BY <1>2, Frames, ConsProperties
  <2>. QED  BY <1>5, <2>1 DEF NotifyEnds, ReturnAndCall, TypeOK
<1>. QED  BY <1>3, <1>4, <1>5

LEMMA TypeNext == TypeOK /\ [Next]_vars => TypeOK'
<1> SUFFICES ASSUME TypeOK, [Next]_vars PROVE TypeOK'
  OBVIOUS
<1>1. ASSUME NEW o \in Offers, ClientCopies(o) \/ ListenerCopies(o) PROVE TypeOK'
  BY <1>1, DoCopyType DEF ClientCopies, ListenerCopies
<1>2. CASE Code
  BY <1>2, ReturnType, DoNextCopyStartsType, NotifyClearsType DEF Code
<1>3. CASE Folder
  BY <1>3, FolderType
<1>4. ASSUME NEW c \in running, FolderCompletes(c) PROVE TypeOK'
  BY <1>4, FolderCompletesType
<1>5. CASE UNCHANGED vars
  BY <1>5 DEF vars, TypeOK
<1>. QED  BY <1>1, <1>2, <1>3, <1>4, <1>5 DEF Next

\* Every variable keeps the shape the class declarations give it.
THEOREM TypeCorrect == Spec => []TypeOK
<1>. QED  BY TypeInit, TypeNext, PTL DEF Spec

-----------------------------------------------------------------------------
(* The queue and the listeners.  StoppedIffGone is not inductive by itself: *)
(* removing one request must leave no other one with its number, and the    *)
(* next request must not have been answered already.                        *)

Untouched == \A id \in Ids : id >= nextId => stopped[id] = "none"

QueueInv == QueueInOrder /\ StoppedIffGone /\ Untouched

\* Every number in the queue is that of an accepted request.
LEMMA QueuedAccepted ==
    ASSUME TypeOK, QueueInOrder
    PROVE  /\ Queued \subseteq Accepted
           /\ Accepted \subseteq Ids
<1>1. \A i \in DOMAIN m_copyRequests : m_copyRequests[i].id \in Ids
  BY DEF TypeOK, RequestType
<1>2. nextId \in 1..(MaxRequests + 1) /\ MaxRequests \in Nat
  BY CopyAssumption DEF TypeOK
<1>3. Accepted \subseteq Ids
  BY <1>2 DEF Accepted, Ids
<1>4. ASSUME NEW i \in DOMAIN m_copyRequests PROVE m_copyRequests[i].id \in Accepted
  <2>1. m_copyRequests[i].id < nextId /\ m_copyRequests[i].id \in 1..MaxRequests
    BY <1>1 DEF QueueInOrder, Ids
  <2>. QED  BY <1>2, <2>1 DEF Accepted
<1>. QED  BY <1>3, <1>4 DEF Queued

LEMMA UntouchedQueue ==
    ASSUME TypeOK, QueueInv, m_copyRequests' \in Seq(RequestType),
           Len(m_copyRequests') = Len(m_copyRequests),
           \A i \in 1..Len(m_copyRequests) : m_copyRequests'[i].id = m_copyRequests[i].id,
           nextId' = nextId, stopped' = stopped
    PROVE  QueueInv'
<1>1. DOMAIN m_copyRequests' = DOMAIN m_copyRequests
  BY DEF TypeOK
<1>2. \A i \in DOMAIN m_copyRequests : m_copyRequests'[i].id = m_copyRequests[i].id
  BY DEF TypeOK
<1>3. QueueInOrder'
  BY <1>1, <1>2 DEF QueueInv, QueueInOrder
<1>4. Queued' = Queued
  BY <1>1, <1>2 DEF Queued
<1>. QED  BY <1>3, <1>4 DEF QueueInv, StoppedIffGone, Accepted, Untouched

LEMMA AppendKeepsQueueInv ==
    ASSUME TypeOK, QueueInv, NEW r \in RequestType, r.id = nextId,
           m_copyRequests' = Append(m_copyRequests, r),
           nextId' = nextId + 1, stopped' = stopped
    PROVE  QueueInv'
<1> DEFINE q == m_copyRequests
           n == Len(q)
<1>1. q \in Seq(RequestType) /\ n \in Nat /\ DOMAIN q = 1..n
  BY DEF TypeOK
<1>2. /\ DOMAIN m_copyRequests' = 1..(n + 1)
      /\ m_copyRequests'[n + 1] = r
      /\ \A i \in 1..n : m_copyRequests'[i] = q[i]
  BY <1>1
<1>3. nextId \in Ids /\ nextId \in Nat
  BY DEF RequestType, Ids
<1>4. \A i \in 1..n : q[i].id < nextId /\ q[i].id \in Nat
  <2>1. \A i \in 1..n : q[i] \in RequestType
    BY <1>1
  <2>2. \A i \in 1..n : q[i].id \in Nat
    BY <2>1 DEF RequestType, Ids
  <2>3. \A i \in 1..n : q[i].id < nextId
    BY <1>1 DEF QueueInv, QueueInOrder
  <2>. QED  BY <2>2, <2>3
<1>5. QueueInOrder'
  <2> HIDE DEF q, n
  <2>1. \A i \in 1..(n + 1) : m_copyRequests'[i].id < nextId + 1
    BY <1>1, <1>2, <1>3, <1>4
  <2>2. \A i, j \in 1..(n + 1) : i < j => m_copyRequests'[i].id < m_copyRequests'[j].id
    <3>1. \A i, j \in 1..n : i < j => q[i].id < q[j].id
      BY <1>1 DEF QueueInv, QueueInOrder, q
    <3>2. ASSUME NEW i \in 1..(n + 1), NEW j \in 1..(n + 1), i < j
          PROVE  m_copyRequests'[i].id < m_copyRequests'[j].id
      <4>1. i \in 1..n
        BY <1>1, <3>2
      <4>2. CASE j = n + 1
        BY <1>2, <1>4, <4>1, <4>2
      <4>3. CASE j # n + 1
        <5>1. j \in 1..n
          BY <1>1, <4>3
        <5>. QED  BY <1>2, <3>1, <3>2, <4>1, <5>1
      <4>. QED  BY <4>2, <4>3
    <3>. QED  BY <3>2
  <2>. QED  BY <1>2, <2>1, <2>2 DEF QueueInOrder
<1>6. Queued' = Queued \cup {nextId}
  <2>1. Queued = {q[i].id : i \in 1..n}
    BY <1>1 DEF Queued
  <2>2. Queued' = {m_copyRequests'[i].id : i \in 1..(n + 1)}
    BY <1>2 DEF Queued
  <2> HIDE DEF q, n
  <2>3. 1..(n + 1) = 1..n \cup {n + 1}
    BY <1>1
  <2>. QED  BY <1>2, <2>1, <2>2, <2>3
<1>7. Accepted' = Accepted \cup {nextId}
  BY <1>3 DEF Accepted, Ids
<1>8. stopped[nextId] = "none" /\ nextId \notin Accepted
  BY <1>3 DEF QueueInv, Untouched, Accepted
<1>9. StoppedIffGone'
  BY <1>6, <1>7, <1>8 DEF QueueInv, StoppedIffGone
<1>10. Untouched'
  BY <1>3 DEF QueueInv, Untouched, Ids
<1>. QED  BY <1>5, <1>9, <1>10 DEF QueueInv

LEMMA RemoveKeepsQueueInv ==
    ASSUME TypeOK, QueueInv, NEW i \in DOMAIN m_copyRequests, NEW rv \in Results,
           m_copyRequests' = RemoveAt(m_copyRequests, i),
           nextId' = nextId,
           stopped' = [stopped EXCEPT ![m_copyRequests[i].id] = rv]
    PROVE  QueueInv'
<1> DEFINE q == m_copyRequests
           n == Len(q)
           id == q[i].id
<1>1. q \in Seq(RequestType) /\ n \in Nat /\ DOMAIN q = 1..n /\ i \in 1..n
  BY DEF TypeOK
<1>2. /\ DOMAIN m_copyRequests' = 1..(n - 1)
      /\ \A j \in 1..(n - 1) :
            m_copyRequests'[j] = IF j < i THEN q[j] ELSE q[j + 1]
  <2>1. RemoveAt(q, i) \in Seq(RequestType) /\ Len(RemoveAt(q, i)) = n - 1
    BY <1>1, RemoveAtProperties
  <2>2. \A j \in 1..(n - 1) : RemoveAt(q, i)[j] = IF j < i THEN q[j] ELSE q[j + 1]
    BY <1>1, RemoveAtProperties
  <2>. QED  BY <2>1, <2>2
<1>3. \A j \in 1..n : q[j].id \in Nat /\ q[j].id < nextId
  BY <1>1 DEF QueueInv, QueueInOrder, RequestType, Ids
<1>4. \A j, k \in 1..n : j < k => q[j].id < q[k].id
  BY <1>1 DEF QueueInv, QueueInOrder
<1>5. QueueInOrder'
  <2> HIDE DEF q, n, id
  <2>1. \A j \in 1..(n - 1) : m_copyRequests'[j].id < nextId
    BY <1>1, <1>2, <1>3
  <2>2. \A j, k \in 1..(n - 1) : j < k => m_copyRequests'[j].id < m_copyRequests'[k].id
    BY <1>1, <1>2, <1>4
  <2>. QED  BY <1>2, <2>1, <2>2 DEF QueueInOrder
<1>6. Queued' = Queued \ {id}
  <2>1. Queued = {q[j].id : j \in 1..n}
    BY <1>1 DEF Queued
  <2>2. Queued' = {m_copyRequests'[j].id : j \in 1..(n - 1)}
    BY <1>2 DEF Queued
  <2>3. \A j \in 1..n : j # i => q[j].id # id
    <3> HIDE DEF q, n
    <3>. QED  BY <1>1, <1>3, <1>4
  <2> HIDE DEF q, n, id
  <2>4. ASSUME NEW j \in 1..(n - 1)
        PROVE  \E k \in 1..n : k # i /\ m_copyRequests'[j].id = q[k].id
    <3>1. CASE j < i
      <4>1. j \in 1..n /\ j # i /\ m_copyRequests'[j] = q[j]
        BY <1>1, <1>2, <3>1
      <4>. QED  BY <4>1
    <3>2. CASE ~ (j < i)
      <4>1. j + 1 \in 1..n /\ j + 1 # i /\ m_copyRequests'[j] = q[j + 1]
        BY <1>1, <1>2, <3>2
      <4>. QED  BY <4>1
    <3>. QED  BY <3>1, <3>2
  <2>5. ASSUME NEW k \in 1..n, k # i
        PROVE  \E j \in 1..(n - 1) : m_copyRequests'[j].id = q[k].id
    <3>1. CASE k < i
      <4>1. k \in 1..(n - 1)
        BY <1>1, <3>1
      <4>. QED  BY <1>2, <3>1, <4>1
    <3>2. CASE k > i
      <4>1. k - 1 \in 1..(n - 1) /\ ~ (k - 1 < i) /\ (k - 1) + 1 = k
        BY <1>1, <3>2
      <4>2. m_copyRequests'[k - 1] = q[k]
        BY <1>2, <4>1
      <4>. QED  BY <4>1, <4>2
    <3>. QED  BY <1>1, <2>5, <3>1, <3>2
  <2>6. ASSUME NEW x \in Queued' PROVE x \in Queued \ {id}
    BY <2>1, <2>2, <2>3, <2>4
  <2>7. ASSUME NEW x \in Queued \ {id} PROVE x \in Queued'
    <3>1. PICK k \in 1..n : x = q[k].id
      BY <2>1
    <3>2. k # i
      BY <3>1 DEF id
    <3>. QED  BY <2>2, <2>5, <3>1, <3>2
  <2>. QED  BY <2>6, <2>7
<1>7. id \in Ids /\ id \in Accepted
  BY <1>1, QueuedAccepted DEF QueueInv, Queued
<1>8. stopped' = [stopped EXCEPT ![id] = rv] /\ stopped \in [Ids -> Results \cup {"none"}]
  BY DEF TypeOK
<1>9. rv # "none" /\ Accepted' = Accepted
  BY DEF Results, Accepted
<1>10. StoppedIffGone'
  <2>1. Accepted \subseteq Ids
    BY QueuedAccepted DEF QueueInv
  <2> HIDE DEF id
  <2>. QED  BY <1>6, <1>7, <1>8, <1>9, <2>1 DEF QueueInv, StoppedIffGone
<1>11. Untouched'
  <2>1. id < nextId /\ id \in Nat /\ nextId \in Nat
    BY <1>1, <1>3 DEF TypeOK
  <2>2. \A k \in Ids : k >= nextId => k # id
    BY <2>1 DEF Ids
  <2> HIDE DEF id
  <2>. QED  BY <1>7, <1>8, <2>2 DEF QueueInv, Untouched
<1>. QED  BY <1>5, <1>10, <1>11 DEF QueueInv

\* DoNextCopy changes no number in the queue.
LEMMA DoNextCopyKeepsIds ==
    ASSUME TypeOK, DoNextCopyStarts
    PROVE  /\ Found(m_copyRequests) \in 1..Len(m_copyRequests)
           /\ Len(m_copyRequests') = Len(m_copyRequests)
           /\ \A i \in 1..Len(m_copyRequests) :
                 m_copyRequests'[i].id = m_copyRequests[i].id
           /\ starts' = [starts EXCEPT ![m_copyRequests[Found(m_copyRequests)].id] = @ + 1]
<1> DEFINE q == m_copyRequests
           i == Found(q)
           r == q[i]
           k == FirstSource(r)
           marked == IF r.sources # <<>>
                       THEN [r EXCEPT !.sources[k].processed = TRUE] ELSE r
           last == [marked EXCEPT !.processed = (r.type = "file")]
           m == MarkUnderway(q, i)
<1>1. q \in Seq(RequestType) /\ \E j \in DOMAIN q : Startable(q, j)
  BY DEF TypeOK, DoNextCopyStarts
<1>2. i \in 1..Len(q)
  BY <1>1, FoundRange
<1>3. last.id = r.id
  BY <1>1, <1>2 DEF RequestType
<1>4. m_copyRequests' = [m EXCEPT ![i] = last]
  BY DEF DoNextCopyStarts
<1>5. m \in Seq(RequestType) /\ Len(m) = Len(q)
  BY <1>1, MarkUnderwayType
<1>6. \A j \in 1..Len(q) : m[j].id = q[j].id
  BY <1>1, MarkUnderwayType
<1>7. starts' = [starts EXCEPT ![r.id] = @ + 1]
  BY DEF DoNextCopyStarts
<1>8. Len(m_copyRequests') = Len(q) /\ \A j \in 1..Len(q) : m_copyRequests'[j].id = q[j].id
  <2> HIDE DEF m, i, last, q
  <2>1. Len(m_copyRequests') = Len(m) /\ DOMAIN m = 1..Len(q)
    BY <1>4, <1>5
  <2>2. \A j \in 1..Len(q) : m_copyRequests'[j] = IF j = i THEN last ELSE m[j]
    BY <1>4, <2>1
  <2>. QED  BY <1>3, <1>5, <1>6, <2>1, <2>2 DEF r
<1>. QED  BY <1>2, <1>7, <1>8

LEMMA QueueInvInit == Init => QueueInv
  BY DEF Init, QueueInv, QueueInOrder, StoppedIffGone, Untouched, Queued, Accepted, Ids

LEMMA QueueInvNext == TypeOK /\ QueueInv /\ [Next]_vars => QueueInv'
<1> SUFFICES ASSUME TypeOK, QueueInv, [Next]_vars PROVE QueueInv'
  OBVIOUS
<1>1. ASSUME NEW o \in Offers, ClientCopies(o) \/ ListenerCopies(o) PROVE QueueInv'
  <2>1. DoCopy(o)
    BY <1>1 DEF ClientCopies, ListenerCopies
  <2>2. NewRequest(nextId, o) \in RequestType /\ NewRequest(nextId, o).id = nextId
    BY <2>1, OfferTypes DEF DoCopy, NewRequest
  <2>3. /\ m_copyRequests' = Append(m_copyRequests, NewRequest(nextId, o))
        /\ nextId' = nextId + 1 /\ stopped' = stopped
    BY <2>1 DEF DoCopy
  <2>. QED  BY <2>2, <2>3, AppendKeepsQueueInv
<1>2. TypeOK'
  BY TypeNext
<1>3. ASSUME m_copyRequests' = m_copyRequests, nextId' = nextId, stopped' = stopped
      PROVE  QueueInv'
  BY <1>2, <1>3, UntouchedQueue DEF TypeOK
<1>4. CASE ListenerReturns \/ NotifyEnds \/ FolderAccepts \/ FolderCompletesAtOnce
  BY <1>3, <1>4 DEF ListenerReturns, NotifyEnds, FolderAccepts, FolderCompletesAtOnce
<1>5. CASE DoNextCopyStarts
  BY <1>2, <1>5, DoNextCopyKeepsIds, UntouchedQueue DEF TypeOK, DoNextCopyStarts
<1>6. CASE DoNextCopyIdle
  <2>1. /\ m_copyRequests' = MarkUnderway(m_copyRequests, Len(m_copyRequests))
        /\ nextId' = nextId /\ stopped' = stopped
    BY <1>6 DEF DoNextCopyIdle
  <2>2. m_copyRequests \in Seq(RequestType) /\ m_copyRequests' \in Seq(RequestType)
    BY <1>2 DEF TypeOK
  <2>. QED  BY <2>1, <2>2, MarkUnderwayType, UntouchedQueue
<1>7. CASE FolderRefuses
  <2>1. PICK i \in DOMAIN m_copyRequests :
          /\ m_copyRequests' = RemoveAt(m_copyRequests, i)
          /\ stopped' = [stopped EXCEPT ![m_copyRequests[i].id] = "failed"]
    BY <1>7 DEF FolderRefuses, ClearRequest
  <2>2. nextId' = nextId /\ "failed" \in Results
    BY <1>7 DEF FolderRefuses, Results
  <2>. QED  BY <2>1, <2>2, RemoveKeepsQueueInv
<1>8. CASE NotifyClears
  <2>1. Hit(Head(stack)) \in DOMAIN m_copyRequests
    BY <1>8, HitInQueue DEF NotifyClears, TypeOK
  <2>2. Head(stack).rv \in Results
    BY <1>8, NotifyFrame DEF NotifyClears
  <2>3. /\ m_copyRequests' = RemoveAt(m_copyRequests, Hit(Head(stack)))
        /\ stopped' = [stopped EXCEPT ![m_copyRequests[Hit(Head(stack))].id] = Head(stack).rv]
        /\ nextId' = nextId
    BY <1>8 DEF NotifyClears, ClearRequest
  <2>. QED  BY <2>1, <2>2, <2>3, RemoveKeepsQueueInv
<1>9. ASSUME NEW c \in running, FolderCompletes(c) PROVE QueueInv'
  BY <1>3, <1>9 DEF FolderCompletes
<1>10. CASE UNCHANGED vars
  BY <1>3, <1>10 DEF vars
<1>. QED  BY <1>1, <1>4, <1>5, <1>6, <1>7, <1>8, <1>9, <1>10 DEF Next, Code, Folder

LEMMA QueueInvAlways == Spec => [](TypeOK /\ QueueInv)
<1>1. Init => TypeOK /\ QueueInv
  BY TypeInit, QueueInvInit
<1>2. TypeOK /\ QueueInv /\ [Next]_vars => (TypeOK /\ QueueInv)'
  BY TypeNext, QueueInvNext
<1>. QED  BY <1>1, <1>2, PTL DEF Spec

\* The queue is in the order the requests were made, without repetition.
THEOREM QueueOrdered == Spec => []QueueInOrder
<1>1. TypeOK /\ QueueInv => QueueInOrder
  BY DEF QueueInv
<1>. QED  BY <1>1, QueueInvAlways, PTL

\* ClearRequest is the only way out of the queue, and it tells the listener:
\* no request is lost without OnStopCopy and none is told while it waits.
THEOREM AnsweredIffGone == Spec => []StoppedIffGone
<1>1. TypeOK /\ QueueInv => StoppedIffGone
  BY DEF QueueInv
<1>. QED  BY <1>1, QueueInvAlways, PTL

-----------------------------------------------------------------------------
(* What a step may never do.                                               *)

\* A request of the queue has not been answered.
LEMMA QueuedUnanswered ==
    ASSUME TypeOK, QueueInv, NEW i \in DOMAIN m_copyRequests
    PROVE  stopped[m_copyRequests[i].id] = "none"
  BY QueuedAccepted DEF QueueInv, StoppedIffGone, Queued

LEMMA StopIsFinalStep ==
    ASSUME TypeOK, QueueInv, [Next]_vars, NEW id \in Ids, stopped[id] # "none"
    PROVE  stopped'[id] = stopped[id] /\ starts'[id] = starts[id]
<1>1. ASSUME stopped' = stopped, starts' = starts
      PROVE  stopped'[id] = stopped[id] /\ starts'[id] = starts[id]
  BY <1>1
<1>2. CASE DoNextCopyStarts
  <2> DEFINE x == m_copyRequests[Found(m_copyRequests)].id
  <2>1. starts' = [starts EXCEPT ![x] = @ + 1] /\ stopped' = stopped
    BY <1>2, DoNextCopyKeepsIds DEF DoNextCopyStarts
  <2>2. Found(m_copyRequests) \in DOMAIN m_copyRequests
    BY <1>2, DoNextCopyKeepsIds DEF TypeOK
  <2>3. stopped[x] = "none"
    BY <2>2, QueuedUnanswered
  <2> HIDE DEF x
  <2>. QED  BY <2>1, <2>3 DEF TypeOK
<1>3. CASE FolderRefuses
  <2>1. PICK i \in DOMAIN m_copyRequests :
          /\ m_copyRequests[i].id = Head(stack).id
          /\ stopped' = [stopped EXCEPT ![Head(stack).id] = "failed"]
    BY <1>3 DEF FolderRefuses, ClearRequest
  <2>2. stopped[Head(stack).id] = "none"
    BY <2>1, QueuedUnanswered
  <2>. QED  BY <1>3, <2>1, <2>2 DEF FolderRefuses, TypeOK
<1>4. CASE NotifyClears
  <2> DEFINE x == m_copyRequests[Hit(Head(stack))].id
  <2>1. Hit(Head(stack)) \in DOMAIN m_copyRequests
    BY <1>4, HitInQueue DEF NotifyClears, TypeOK
  <2>2. stopped[x] = "none"
    BY <2>1, QueuedUnanswered
  <2>3. stopped' = [stopped EXCEPT ![x] = Head(stack).rv] /\ starts' = starts
    BY <1>4 DEF NotifyClears, ClearRequest
  <2> HIDE DEF x
  <2>. QED  BY <2>2, <2>3 DEF TypeOK
<1>5. CASE ListenerReturns \/ DoNextCopyIdle \/ NotifyEnds \/ FolderAccepts
           \/ FolderCompletesAtOnce
  BY <1>1, <1>5 DEF ListenerReturns, DoNextCopyIdle, NotifyEnds, FolderAccepts,
                    FolderCompletesAtOnce
<1>6. ASSUME NEW o \in Offers, ClientCopies(o) \/ ListenerCopies(o)
      PROVE  stopped' = stopped /\ starts' = starts
  BY <1>6 DEF ClientCopies, ListenerCopies, DoCopy
<1>7. ASSUME NEW c \in running, FolderCompletes(c)
      PROVE  stopped' = stopped /\ starts' = starts
  BY <1>7 DEF FolderCompletes
<1>8. CASE UNCHANGED vars
  BY <1>1, <1>8 DEF vars
<1>. QED  BY <1>1, <1>2, <1>3, <1>4, <1>5, <1>6, <1>7, <1>8 DEF Next, Code, Folder

\* A listener is told once: no step tells it again, or starts its copy again,
\* whatever runs inside NotifyCompletion.
THEOREM StopOnce == Spec => StopIsFinal
<1>1. TypeOK /\ QueueInv /\ [Next]_vars =>
        [\A id \in Ids : stopped[id] # "none" =>
            stopped'[id] = stopped[id] /\ starts'[id] = starts[id]]_vars
  BY StopIsFinalStep
<1>. QED  BY <1>1, QueueInvAlways, PTL DEF Spec, StopIsFinal

\* The scan of DoNextCopy: a request it passes over has its destination in
\* activeTargets when the scan goes on, so no younger one overtakes it.
LEMMA FoundIsOldest ==
    ASSUME NEW q \in Seq(RequestType), \E i \in DOMAIN q : Startable(q, i)
    PROVE  \A j \in 1..(Found(q) - 1) : q[j].dst # q[Found(q)].dst
<1> DEFINE i == Found(q)
<1>1. i \in 1..Len(q) /\ Startable(q, i)
  BY FoundRange
<1>2. \A j \in 1..(i - 1) : ~ Startable(q, j)
  BY FoundRange
<1> SUFFICES ASSUME NEW j \in 1..(i - 1), q[j].dst = q[i].dst PROVE FALSE
  OBVIOUS
<1> HIDE DEF i
<1>3. CASE Underway(q[j])
  <2>1. q[j].dst \in ActiveTargets(q, i)
    BY <1>3 DEF ActiveTargets
  <2>. QED  BY <1>1, <2>1 DEF Startable
<1>4. CASE ~ Underway(q[j])
  <2>1. q[j].dst \in ActiveTargets(q, j)
    BY <1>2, <1>4 DEF Startable
  <2>2. PICK k \in 1..(j - 1) : Underway(q[k]) /\ q[k].dst = q[j].dst
    BY <2>1 DEF ActiveTargets
  <2>3. k \in 1..(i - 1)
    BY <1>1, <2>2
  <2>4. q[i].dst \in ActiveTargets(q, i)
    BY <2>2, <2>3 DEF ActiveTargets
  <2>. QED  BY <1>1, <2>4 DEF Startable
<1>. QED  BY <1>3, <1>4

LEMMA FIFOStep ==
    ASSUME TypeOK, QueueInv, [Next]_vars,
           NEW i \in DOMAIN m_copyRequests,
           starts'[m_copyRequests[i].id] > starts[m_copyRequests[i].id],
           NEW j \in 1..(i - 1)
    PROVE  m_copyRequests[j].dst # m_copyRequests[i].dst
<1> DEFINE q == m_copyRequests
<1>1. q \in Seq(RequestType) /\ q[i].id \in Ids /\ DOMAIN q = 1..Len(q)
  BY DEF TypeOK, RequestType
<1>2. starts[q[i].id] \in Nat
  BY <1>1 DEF TypeOK
<1>3. starts' # starts
  BY <1>2
<1>4. DoNextCopyStarts
  BY <1>3 DEF Next, Code, Folder, vars, ListenerReturns, DoNextCopyIdle, NotifyEnds,
              NotifyClears, FolderAccepts, FolderCompletesAtOnce, FolderRefuses,
              FolderCompletes, ClientCopies, ListenerCopies, DoCopy
<1>5. /\ Found(q) \in 1..Len(q)
      /\ starts' = [starts EXCEPT ![q[Found(q)].id] = @ + 1]
  BY <1>4, DoNextCopyKeepsIds
<1>6. \E k \in DOMAIN q : Startable(q, k)
  BY <1>4 DEF DoNextCopyStarts
<1>7. q[i].id = q[Found(q)].id
  <2>1. CASE q[i].id # q[Found(q)].id
    <3>1. starts \in [Ids -> Nat]
      BY DEF TypeOK
    <3>2. starts'[q[i].id] = starts[q[i].id]
      BY <1>1, <1>5, <2>1, <3>1
    <3>. QED  BY <1>2, <3>2
  <2>. QED  BY <2>1
<1>8. i = Found(q)
  <2>1. \A k, l \in 1..Len(q) : k < l => q[k].id < q[l].id
    BY <1>1 DEF QueueInv, QueueInOrder
  <2>2. q[i].id \in Nat
    BY <1>1 DEF Ids
  <2>3. i \in 1..Len(q) /\ Found(q) \in 1..Len(q) /\ Len(q) \in Nat
    BY <1>1, <1>5
  <2> DEFINE f == Found(q)
  <2>4. ~ (i < f)
    BY <1>7, <2>1, <2>2, <2>3
  <2>5. ~ (f < i)
    BY <1>7, <2>1, <2>2, <2>3
  <2> HIDE DEF f
  <2>. QED  BY <2>3, <2>4, <2>5 DEF f
<1>. QED  BY <1>1, <1>6, <1>8, FoundIsOldest

\* "always FIFO": what starts is the oldest request for its destination.
THEOREM OldestFirst == Spec => FIFOPerDestination
<1>1. TypeOK /\ QueueInv /\ [Next]_vars =>
        [\A i \in DOMAIN m_copyRequests :
            LET r == m_copyRequests[i]
            IN  starts'[r.id] > starts[r.id] =>
                  \A j \in 1..(i - 1) : m_copyRequests[j].dst # r.dst]_vars
  BY FIFOStep
<1>. QED  BY <1>1, QueueInvAlways, PTL DEF Spec, FIFOPerDestination

-----------------------------------------------------------------------------
(* The service keeps the promise of CopyLine.  Its steps on the array map   *)
(* to steps on the line; the calls in between map to stuttering.            *)

EntryType == [id : Ids, dst : Dsts]

LEMMA LineType ==
    ASSUME NEW q \in Seq(RequestType)
    PROVE  /\ LineOf(q) \in Seq(EntryType)
           /\ Len(LineOf(q)) = Len(q)
           /\ DOMAIN LineOf(q) = 1..Len(q)
           /\ \A i \in 1..Len(q) : LineOf(q)[i] = [id |-> q[i].id, dst |-> q[i].dst]
<1>1. \A i \in 1..Len(q) : [id |-> q[i].id, dst |-> q[i].dst] \in EntryType
  <2>1. \A i \in 1..Len(q) : q[i] \in RequestType
    OBVIOUS
  <2>. QED  BY <2>1 DEF RequestType, EntryType
<1>2. DOMAIN q = 1..Len(q) /\ Len(q) \in Nat
  OBVIOUS
<1>3. LineOf(q) \in [1..Len(q) -> EntryType]
  BY <1>1, <1>2 DEF LineOf
<1>. QED  BY <1>2, <1>3, FunctionIsSeq DEF LineOf

\* Two arrays with the same numbers and destinations are the same line.
LEMMA SameLine ==
    ASSUME NEW q \in Seq(RequestType), NEW p \in Seq(RequestType), Len(p) = Len(q),
           \A i \in 1..Len(q) : p[i].id = q[i].id /\ p[i].dst = q[i].dst
    PROVE  LineOf(p) = LineOf(q)
<1>1. DOMAIN p = DOMAIN q /\ DOMAIN q = 1..Len(q)
  OBVIOUS
<1>. QED  BY <1>1 DEF LineOf

LEMMA AppendLine ==
    ASSUME NEW q \in Seq(RequestType), NEW r \in RequestType
    PROVE  LineOf(Append(q, r)) = Append(LineOf(q), [id |-> r.id, dst |-> r.dst])
<1> DEFINE p == Append(q, r)
           e == [id |-> r.id, dst |-> r.dst]
<1>1. p \in Seq(RequestType) /\ Len(p) = Len(q) + 1 /\ Len(q) \in Nat /\ p[Len(q) + 1] = r
      /\ \A i \in 1..Len(q) : p[i] = q[i]
  OBVIOUS
<1>2. e \in EntryType
  BY DEF RequestType, EntryType
<1>3. /\ LineOf(q) \in Seq(EntryType) /\ Len(LineOf(q)) = Len(q)
      /\ \A i \in 1..Len(q) : LineOf(q)[i] = [id |-> q[i].id, dst |-> q[i].dst]
  BY LineType
<1>4. /\ LineOf(p) \in Seq(EntryType) /\ Len(LineOf(p)) = Len(q) + 1
      /\ \A i \in 1..(Len(q) + 1) : LineOf(p)[i] = [id |-> p[i].id, dst |-> p[i].dst]
  BY <1>1, LineType
<1>5. /\ Append(LineOf(q), e) \in Seq(EntryType) /\ Len(Append(LineOf(q), e)) = Len(q) + 1
      /\ Append(LineOf(q), e)[Len(q) + 1] = e
      /\ \A i \in 1..Len(q) : Append(LineOf(q), e)[i] = LineOf(q)[i]
  BY <1>2, <1>3
<1>6. \A i \in 1..(Len(q) + 1) : LineOf(p)[i] = Append(LineOf(q), e)[i]
  <2>1. \A i \in 1..(Len(q) + 1) : i = Len(q) + 1 \/ i \in 1..Len(q)
    BY <1>1
  <2> HIDE DEF p, e
  <2>. QED  BY <1>1, <1>3, <1>4, <1>5, <2>1 DEF e
<1> HIDE DEF p, e
<1>. QED  BY <1>4, <1>5, <1>6, SeqEqual DEF p, e

LEMMA RemoveLine ==
    ASSUME NEW q \in Seq(RequestType), NEW i \in 1..Len(q)
    PROVE  LineOf(RemoveAt(q, i)) = RemoveAt(LineOf(q), i)
<1> DEFINE p == RemoveAt(q, i)
           l == LineOf(q)
           m == RemoveAt(l, i)
<1>1. /\ p \in Seq(RequestType) /\ Len(p) = Len(q) - 1 /\ Len(q) \in Nat
      /\ \A j \in 1..(Len(q) - 1) : p[j] = IF j < i THEN q[j] ELSE q[j + 1]
  BY RemoveAtProperties
<1>2. /\ l \in Seq(EntryType) /\ Len(l) = Len(q)
      /\ \A j \in 1..Len(q) : l[j] = [id |-> q[j].id, dst |-> q[j].dst]
  BY LineType
<1>3. /\ m \in Seq(EntryType) /\ Len(m) = Len(q) - 1
      /\ \A j \in 1..(Len(q) - 1) : m[j] = IF j < i THEN l[j] ELSE l[j + 1]
  <2> HIDE DEF l, p
  <2>1. i \in 1..Len(l)
    BY <1>2
  <2>. QED  BY <1>2, <2>1, RemoveAtProperties
<1>4. /\ LineOf(p) \in Seq(EntryType) /\ Len(LineOf(p)) = Len(q) - 1
      /\ \A j \in 1..(Len(q) - 1) : LineOf(p)[j] = [id |-> p[j].id, dst |-> p[j].dst]
  <2> HIDE DEF p
  <2>. QED  BY <1>1, LineType
<1>5. \A j \in 1..(Len(q) - 1) : LineOf(p)[j] = m[j]
  <2> HIDE DEF p, l, m
  <2>1. \A j \in 1..(Len(q) - 1) : j \in 1..Len(q) /\ j + 1 \in 1..Len(q)
    BY <1>1
  <2>. QED  BY <1>1, <1>2, <1>3, <1>4, <2>1
<1> HIDE DEF p, l, m
<1>. QED  BY <1>3, <1>4, <1>5, SeqEqual DEF p, l, m

\* Nothing has been started for a request that was not made yet.
Unstarted == \A id \in Ids : id >= nextId => starts[id] = 0

\* The scan's flags are no part of the line.
LEMMA DoNextCopyKeepsLine ==
    ASSUME TypeOK, TypeOK', DoNextCopyStarts
    PROVE  LineOf(m_copyRequests') = LineOf(m_copyRequests)
<1> DEFINE q == m_copyRequests
           i == Found(q)
           r == q[i]
           k == FirstSource(r)
           marked == IF r.sources # <<>>
                       THEN [r EXCEPT !.sources[k].processed = TRUE] ELSE r
           last == [marked EXCEPT !.processed = (r.type = "file")]
           m == MarkUnderway(q, i)
<1>1. q \in Seq(RequestType) /\ m_copyRequests' \in Seq(RequestType)
  BY DEF TypeOK
<1>2. i \in 1..Len(q) /\ Len(m_copyRequests') = Len(q)
  BY DoNextCopyKeepsIds
<1>3. \A j \in 1..Len(q) : m_copyRequests'[j].id = q[j].id
  BY DoNextCopyKeepsIds
<1>4. m_copyRequests' = [m EXCEPT ![i] = last]
  BY DEF DoNextCopyStarts
<1>5. last.dst = r.dst
  BY <1>1, <1>2 DEF RequestType
<1>6. DOMAIN m = 1..Len(q) /\ \A j \in 1..Len(q) : m[j].dst = q[j].dst
  <2>1. DOMAIN m = 1..Len(q)
    BY <1>1 DEF MarkUnderway
  <2>2. \A j \in 1..Len(q) : m[j].dst = q[j].dst
    BY <1>1, MarkUnderwayType
  <2>. QED  BY <2>1, <2>2
<1>7. \A j \in 1..Len(q) : m_copyRequests'[j].dst = q[j].dst
  <2> HIDE DEF m, i, last, q
  <2>1. \A j \in 1..Len(q) : m_copyRequests'[j] = IF j = i THEN last ELSE m[j]
    BY <1>4, <1>6
  <2>. QED  BY <1>5, <1>6, <2>1 DEF r
<1>. QED  BY <1>1, <1>2, <1>3, <1>7, SameLine

LEMMA IdleKeepsLine ==
    ASSUME TypeOK, TypeOK', DoNextCopyIdle
    PROVE  LineOf(m_copyRequests') = LineOf(m_copyRequests)
<1> DEFINE q == m_copyRequests
           m == MarkUnderway(q, Len(q))
<1>1. q \in Seq(RequestType) /\ m_copyRequests' = m /\ m \in Seq(RequestType)
  BY DEF TypeOK, DoNextCopyIdle
<1>2. Len(m) = Len(q) /\ \A j \in 1..Len(q) : m[j].id = q[j].id /\ m[j].dst = q[j].dst
  BY <1>1, MarkUnderwayType
<1>. QED  BY <1>1, <1>2, SameLine

\* A request joins the line.
LEMMA DoCopyJoins ==
    ASSUME TypeOK, TypeOK', QueueInv, Unstarted, NEW o \in Offers, DoCopy(o)
    PROVE  Line!Next /\ Unstarted'
<1> DEFINE r == NewRequest(nextId, o)
<1>1. nextId \in Ids /\ r \in RequestType /\ r.id = nextId
  BY OfferTypes DEF DoCopy, NewRequest
<1>2. /\ m_copyRequests \in Seq(RequestType)
      /\ m_copyRequests' = Append(m_copyRequests, r)
      /\ starts' = starts /\ stopped' = stopped /\ nextId' = nextId + 1
      /\ starts \in [Ids -> Nat]
  BY DEF DoCopy, TypeOK
<1> HIDE DEF r
<1>3. LineOf(m_copyRequests') = Append(LineOf(m_copyRequests), [id |-> nextId, dst |-> r.dst])
  BY <1>1, <1>2, AppendLine
<1>4. r.dst \in Dsts
  BY <1>1 DEF RequestType
<1>5. nextId \notin Begun /\ stopped[nextId] = "none"
  <2>1. nextId >= nextId
    BY <1>1 DEF Ids
  <2>. QED  BY <1>1, <2>1 DEF Unstarted, QueueInv, Untouched, Begun
<1>6. \A k \in DOMAIN LineOf(m_copyRequests) : LineOf(m_copyRequests)[k].id < nextId
  <2>1. \A k \in DOMAIN m_copyRequests : m_copyRequests[k].id < nextId
    BY DEF QueueInv, QueueInOrder
  <2>2. DOMAIN m_copyRequests = 1..Len(m_copyRequests)
    BY <1>2
  <2>3. /\ DOMAIN LineOf(m_copyRequests) = 1..Len(m_copyRequests)
        /\ \A k \in 1..Len(m_copyRequests) :
              LineOf(m_copyRequests)[k] = [id |-> m_copyRequests[k].id,
                                           dst |-> m_copyRequests[k].dst]
    BY <1>2, LineType
  <2>. QED  BY <2>1, <2>2, <2>3
<1>7. Begun' = Begun
  BY <1>2 DEF Begun
<1>8. Line!Join(nextId, r.dst)
  BY <1>2, <1>3, <1>5, <1>6, <1>7 DEF Line!Join
<1>9. Unstarted'
  BY <1>1, <1>2 DEF Unstarted, Ids
<1>. QED  BY <1>1, <1>4, <1>8, <1>9 DEF Line!Next

\* The copy of the oldest request for its destination begins, or goes on with
\* its next source.
LEMMA DoNextCopyBegins ==
    ASSUME TypeOK, TypeOK', QueueInv, Unstarted, DoNextCopyStarts
    PROVE  Line!Next /\ Unstarted'
<1> DEFINE q == m_copyRequests
<1>1. PICK i \in 1..Len(q) : i = Found(q)
  BY DoNextCopyKeepsIds
<1>2. \A j \in 1..(i - 1) : q[j].dst # q[i].dst
  <2>1. q \in Seq(RequestType) /\ \E j \in DOMAIN q : Startable(q, j)
    BY DEF TypeOK, DoNextCopyStarts
  <2>. QED  BY <1>1, <2>1, FoundIsOldest
<1>3. starts' = [starts EXCEPT ![q[i].id] = @ + 1] /\ starts \in [Ids -> Nat]
  BY <1>1, DoNextCopyKeepsIds DEF TypeOK
<1>4. q \in Seq(RequestType) /\ q[i].id \in Ids /\ q[i].id < nextId
  BY DEF TypeOK, RequestType, QueueInv, QueueInOrder
<1>5. LineOf(q') = LineOf(q) /\ stopped' = stopped /\ nextId' = nextId
  BY DoNextCopyKeepsLine DEF DoNextCopyStarts
<1>6. /\ DOMAIN LineOf(q) = 1..Len(q)
      /\ \A j \in 1..Len(q) : LineOf(q)[j] = [id |-> q[j].id, dst |-> q[j].dst]
  BY <1>4, LineType
<1> HIDE DEF q
<1>7. Begun' = Begun \cup {LineOf(q)[i].id}
  <2>1. \A id \in Ids : starts'[id] = IF id = q[i].id THEN starts[id] + 1 ELSE starts[id]
    BY <1>3, <1>4
  <2>. QED  BY <1>3, <1>4, <1>6, <2>1 DEF Begun
<1>8. \A j \in 1..(i - 1) : LineOf(q)[j].dst # LineOf(q)[i].dst
  <2>1. \A j \in 1..(i - 1) : j \in 1..Len(q)
    BY <1>1, <1>4
  <2>. QED  BY <1>2, <1>6, <2>1
<1>9. Line!Begin(i)
  BY <1>5, <1>7, <1>8 DEF Line!Begin, Line!Foremost, q
<1>10. Unstarted'
  <2>1. \A id \in Ids : id >= nextId => id # q[i].id
    BY <1>4 DEF Ids, TypeOK
  <2>. QED  BY <1>3, <1>5, <2>1 DEF Unstarted
<1>. QED  BY <1>6, <1>9, <1>10 DEF Line!Next, q

\* A request leaves the line and its listener is told.
LEMMA ClearRequestTells ==
    ASSUME TypeOK, NEW i \in 1..Len(m_copyRequests), NEW rv \in Results,
           ClearRequest(i, rv), starts' = starts
    PROVE  Line!Next
<1>1. m_copyRequests \in Seq(RequestType)
  BY DEF TypeOK
<1>2. LineOf(m_copyRequests') = RemoveAt(LineOf(m_copyRequests), i)
  BY <1>1, RemoveLine DEF ClearRequest
<1>3. /\ i \in DOMAIN LineOf(m_copyRequests)
      /\ LineOf(m_copyRequests)[i].id = m_copyRequests[i].id
  <2>1. /\ DOMAIN LineOf(m_copyRequests) = 1..Len(m_copyRequests)
        /\ \A k \in 1..Len(m_copyRequests) :
              LineOf(m_copyRequests)[k] = [id |-> m_copyRequests[k].id,
                                           dst |-> m_copyRequests[k].dst]
    BY <1>1, LineType
  <2>. QED  BY <2>1
<1>4. stopped' = [stopped EXCEPT ![LineOf(m_copyRequests)[i].id] = rv] /\ Begun' = Begun
  BY <1>3 DEF ClearRequest, Begun
<1>5. Line!Tell(i, rv)
  BY <1>2, <1>4 DEF Line!Tell, Line!RemoveAt, RemoveAt
<1>. QED  BY <1>3, <1>5 DEF Line!Next

LEMMA StepInLine ==
    ASSUME TypeOK, TypeOK', QueueInv, Unstarted, [Next]_vars
    PROVE  [Line!Next]_(Line!lineVars) /\ Unstarted'
<1>1. ASSUME m_copyRequests' = m_copyRequests, starts' = starts, stopped' = stopped,
             nextId' = nextId
      PROVE  UNCHANGED Line!lineVars /\ Unstarted'
  BY <1>1 DEF Line!lineVars, LineOf, Begun, Unstarted
<1>2. ASSUME NEW o \in Offers, ClientCopies(o) \/ ListenerCopies(o)
      PROVE  Line!Next /\ Unstarted'
  BY <1>2, DoCopyJoins DEF ClientCopies, ListenerCopies
<1>3. CASE DoNextCopyStarts
  BY <1>3, DoNextCopyBegins
<1>4. CASE DoNextCopyIdle
  <2>1. starts' = starts /\ stopped' = stopped /\ nextId' = nextId
    BY <1>4 DEF DoNextCopyIdle
  <2>. QED  BY <1>4, <2>1, IdleKeepsLine DEF Line!lineVars, Begun, Unstarted
<1>5. CASE ListenerReturns \/ NotifyEnds \/ FolderAccepts \/ FolderCompletesAtOnce
  BY <1>1, <1>5 DEF ListenerReturns, NotifyEnds, FolderAccepts, FolderCompletesAtOnce
<1>6. CASE FolderRefuses
  <2>1. PICK i \in 1..Len(m_copyRequests) : ClearRequest(i, "failed")
    BY <1>6 DEF FolderRefuses, TypeOK
  <2>2. starts' = starts /\ nextId' = nextId
    BY <1>6 DEF FolderRefuses
  <2>. QED  BY <2>1, <2>2, ClearRequestTells DEF Results, Unstarted
<1>7. CASE NotifyClears
  <2>1. PICK i \in 1..Len(m_copyRequests) : i = Hit(Head(stack))
    BY <1>7, HitInQueue DEF NotifyClears, TypeOK
  <2>2. Head(stack).rv \in Results
    BY <1>7, NotifyFrame DEF NotifyClears
  <2>3. ClearRequest(i, Head(stack).rv) /\ starts' = starts /\ nextId' = nextId
    BY <1>7, <2>1 DEF NotifyClears
  <2>. QED  BY <2>2, <2>3, ClearRequestTells DEF Unstarted
<1>8. ASSUME NEW c \in running, FolderCompletes(c)
      PROVE  UNCHANGED Line!lineVars /\ Unstarted'
  BY <1>1, <1>8 DEF FolderCompletes
<1>9. CASE UNCHANGED vars
  BY <1>1, <1>9 DEF vars
<1>. QED  BY <1>2, <1>3, <1>4, <1>5, <1>6, <1>7, <1>8, <1>9, <1>1 DEF Next, Code, Folder

\* The service implements CopyLine: whatever clients, listeners and folders
\* do, the array scanned by flags behaves as a line served in order.
THEOREM ImplementsLine == Spec => KeepsLine
<1>1. Init => Line!Init /\ Unstarted
  BY DEF Init, Line!Init, LineOf, Begun, Unstarted
<1>2. TypeOK /\ TypeOK' /\ QueueInv /\ Unstarted /\ [Next]_vars
        => [Line!Next]_(Line!lineVars) /\ Unstarted'
  BY StepInLine
<1>. QED  BY <1>1, <1>2, QueueInvAlways, PTL DEF Spec, KeepsLine, Line!Spec

-----------------------------------------------------------------------------
(* Surroundings that keep to some rules.                                     *)

\* One source per request, which is not its destination; folders keep their
\* names and never refuse; no dialog is shown while a copy is started; the same
\* copy is not asked for twice at a time; and a listener does not ask for copies
\* to a folder that may be done before it returns.
Restrained ==
    /\ UniquePairs /\ ~ Dialogs /\ ~ CanRefuse
    /\ \A n \in Names : NewNames[n] = {n}
    /\ \A o \in Offers : /\ o.type # "file" => o.from = <<o.src>>
                         /\ Len(o.from) <= 1
                         /\ \A k \in DOMAIN o.from : o.from[k] # o.dst
    /\ \A o \in Reenter : o.dst \notin AtOnce
    /\ Dsts \cap (Dsts \X Names) = {}

-----------------------------------------------------------------------------
(* The queue as cards.                                                       *)

Card(r) == [id |-> r.id, type |-> r.type, src |-> r.src, dst |-> r.dst, name |-> r.name]
CardType == [id : Ids, type : Types, src : Srcs, dst : Dsts, name : Names]

Cards == {Card(m_copyRequests[i]) : i \in DOMAIN m_copyRequests}
Going == {m_copyRequests[i].id : i \in {j \in DOMAIN m_copyRequests :
                                           Underway(m_copyRequests[j])}}

\* The destinations with a copy that can be started.
Ready == {d \in Dsts : /\ \E c \in Cards : c.dst = d
                       /\ \A c \in Cards : c.dst = d => c.id \notin Going}

\* A request has one source at most; it is under way once it has been started.
Plain(r) == /\ Len(r.sources) <= 1
            /\ r.type # "file" => Len(r.sources) = 1 /\ r.sources[1].folder = r.src
Requests ==
    /\ \A i \in DOMAIN m_copyRequests :
         /\ Plain(m_copyRequests[i])
         /\ starts[m_copyRequests[i].id] > 0 <=> Underway(m_copyRequests[i])
    /\ \A id \in Ids : id >= nextId => starts[id] = 0

\* Cards differ in their numbers and in their pairs of folders; the one under way
\* is the oldest for its destination.
CardsApart ==
    /\ \A c, d \in Cards : c.id = d.id => c = d
    /\ \A c, d \in Cards : c.src = d.src /\ c.dst = d.dst => c = d
    /\ \A c, d \in Cards : c.id \in Going /\ c.dst = d.dst => c.id <= d.id

-----------------------------------------------------------------------------
(* The call stack.                                                           *)

\* The destination a completion is about.
Home(place) == IF place \in Dsts THEN place ELSE place[1]
IsAbout(f, c) == c.src = f.src /\ c.dst = Home(f.dst)
InPlace(place, c) == \/ place = c.dst
                     \/ c.type = "folder" /\ place = <<c.dst, c.name>>

\* Listeners are told by NotifyCompletion, and only they call on.
Shape(s) ==
    \A i \in DOMAIN s :
       /\ i > 1 => s[i].pc \in {"OnStopCopy", "NotifyCompletion"}
       /\ s[i].pc = "OnStopCopy" => i < Len(s) /\ s[i + 1].pc = "NotifyCompletion"
       /\ s[i].pc # "OnStopCopy" /\ i < Len(s) => s[i + 1].pc = "OnStopCopy"

\* A completion whose request has been cleared: nothing it could clear is queued,
\* or only behind numOrigRequests.
Finished(f, last, q) ==
    IF Home(f.dst) \in AtOnce
      THEN \A j \in DOMAIN q : ~ IsAbout(f, q[j])
      ELSE /\ last
           /\ f.orig <= Len(q)
           /\ \A j \in 1..f.orig : ~ IsAbout(f, q[j])
Settled(s, q) ==
    \A i \in DOMAIN s : s[i].pc = "NotifyCompletion" => Finished(s[i], i = Len(s), q)

\* The innermost call is a completion whose request is still there.
Pending == Running("NotifyCompletion") /\ Clears(Head(stack))
Owed == m_copyRequests[Hit(Head(stack))].id

\* Below a folder that reports later no copy is made at once.
Slow(f) == f.pc = "NotifyCompletion" /\ Home(f.dst) \notin AtOnce
Lone ==
    stack # <<>> /\ Slow(stack[Len(stack)]) =>
      /\ Len(stack) <= 3
      /\ Len(stack) = 3 => Head(stack).pc \in {"DoNextCopy", "Copy"}
      /\ Head(stack).pc = "Copy" => Head(stack).dst \notin AtOnce
      /\ Ready \cap AtOnce = {}

-----------------------------------------------------------------------------
(* Who answers for a request under way.                                      *)

RunningIds == {c.id : c \in running}

Copies ==
    /\ \A c \in running : \E card \in Cards :
         /\ card.id = c.id /\ card.src = c.src /\ card.dst = c.dst
         /\ c.id \in Going /\ InPlace(c.place, card)
    /\ \A c, d \in running : c.id = d.id => c = d
    /\ Running("Copy") => /\ Card(Head(stack)) \in Cards
                          /\ Head(stack).id \in Going /\ Head(stack).id \notin RunningIds
    /\ Pending => /\ Owed \in Going /\ Owed \notin RunningIds
                  /\ verdict[Owed] = Head(stack).rv
                  /\ Head(stack).orig = Len(m_copyRequests)
    /\ \A id \in Going : \/ id \in RunningIds
                         \/ Running("Copy") /\ id = Head(stack).id
                         \/ Pending /\ id = Owed

\* Half the calls wait for a listener, which is why the count is doubled.
Weight == IF stack = <<>> THEN 0
          ELSE IF Running("OnStopCopy") THEN Len(stack)
          ELSE IF Running("Copy") \/ Pending THEN Len(stack) - 1
          ELSE Len(stack) + 1
Enough == IsFiniteSet(Ready) /\ 2 * Cardinality(Ready) <= Weight

Stacked == /\ Shape(stack)
           /\ IF Pending
                THEN /\ Settled(Tail(stack), m_copyRequests)
                     /\ Slow(Head(stack)) => Len(stack) = 1
                ELSE Settled(stack, m_copyRequests)
           /\ Lone

LineInv == Requests /\ CardsApart /\ Stacked /\ Copies /\ Enough /\ StopMatchesVerdict

-----------------------------------------------------------------------------
(* What the service's steps do to the cards.                                 *)

LEMMA CardOf ==
    ASSUME NEW r \in RequestType
    PROVE  /\ Card(r) \in CardType
           /\ Card(r).id = r.id /\ Card(r).type = r.type /\ Card(r).src = r.src
           /\ Card(r).dst = r.dst /\ Card(r).name = r.name
  BY DEF RequestType, Card, CardType

LEMMA QueueCards ==
    ASSUME TypeOK, QueueInOrder
    PROVE  /\ \A i \in DOMAIN m_copyRequests :
                /\ m_copyRequests[i] \in RequestType
                /\ Card(m_copyRequests[i]) \in Cards
                /\ m_copyRequests[i].id \in Going <=> Underway(m_copyRequests[i])
           /\ \A i, j \in DOMAIN m_copyRequests :
                m_copyRequests[i].id = m_copyRequests[j].id => i = j
           /\ \A c \in Cards : \E i \in DOMAIN m_copyRequests : c = Card(m_copyRequests[i])
           /\ Cards \subseteq CardType
           /\ \A id \in Going : \E c \in Cards : c.id = id
<1> DEFINE q == m_copyRequests
<1>1. q \in Seq(RequestType) /\ DOMAIN q = 1..Len(q) /\ Len(q) \in Nat
  BY DEF TypeOK
<1>2. \A i \in DOMAIN q : q[i] \in RequestType
  BY <1>1
<1>3. \A i \in DOMAIN q : q[i].id \in Nat
  BY <1>2 DEF RequestType, Ids
<1>4. \A i, j \in DOMAIN q : q[i].id = q[j].id => i = j
  <2>1. \A i, j \in DOMAIN q : i < j => q[i].id < q[j].id
    BY DEF QueueInOrder
  <2>2. \A i, j \in DOMAIN q : i < j \/ j < i \/ i = j
    BY <1>1
  <2> HIDE DEF q
  <2>. QED  BY <1>3, <2>1, <2>2
<1>5. \A i \in DOMAIN q : Card(q[i]) \in CardType /\ Card(q[i]).id = q[i].id
  BY <1>2, CardOf
<1>6. \A i \in DOMAIN q : q[i].id \in Going <=> Underway(q[i])
  BY <1>4 DEF Going
<1>. QED  BY <1>2, <1>4, <1>5, <1>6 DEF Cards, Going

\* The service changes only flags, except where requests come and go.
LEMMA SameCards ==
    ASSUME TypeOK, QueueInOrder, m_copyRequests' \in Seq(RequestType),
           Len(m_copyRequests') = Len(m_copyRequests),
           NEW T \in SUBSET DOMAIN m_copyRequests,
           \A i \in DOMAIN m_copyRequests :
              /\ Card(m_copyRequests'[i]) = Card(m_copyRequests[i])
              /\ Underway(m_copyRequests'[i]) <=> Underway(m_copyRequests[i]) \/ i \in T
    PROVE  /\ Cards' = Cards
           /\ Going' = Going \cup {m_copyRequests[i].id : i \in T}
<1>1. DOMAIN m_copyRequests' = DOMAIN m_copyRequests
  BY DEF TypeOK
<1>2. \A i \in DOMAIN m_copyRequests : m_copyRequests'[i].id = m_copyRequests[i].id
  <2>1. \A i \in DOMAIN m_copyRequests : /\ m_copyRequests'[i] \in RequestType
                                         /\ m_copyRequests[i] \in RequestType
    BY <1>1 DEF TypeOK
  <2>. QED  BY <2>1, CardOf
<1>3. Cards' = Cards
  BY <1>1 DEF Cards
<1>. QED  BY <1>1, <1>2, <1>3 DEF Going

\* A flag that is set where it says nothing new.
LEMMA MarkKeeps ==
    ASSUME NEW r \in RequestType, NEW s, s = r \/ (s = [r EXCEPT !.processed = TRUE] /\ Underway(r))
    PROVE  /\ Card(s) = Card(r)
           /\ Underway(s) <=> Underway(r)
           /\ Plain(s) <=> Plain(r)
<1>1. CASE s = r
  BY <1>1
<1>2. CASE s = [r EXCEPT !.processed = TRUE] /\ Underway(r)
  <2>1. /\ s.processed = TRUE /\ s.sources = r.sources
        /\ s.id = r.id /\ s.type = r.type /\ s.src = r.src /\ s.dst = r.dst /\ s.name = r.name
    BY <1>2 DEF RequestType
  <2>. QED  BY <1>2, <2>1 DEF Card, Underway, Plain, AllSourcesProcessed
<1>. QED  BY <1>1, <1>2

LEMMA MarkUnderwayKeeps ==
    ASSUME NEW q \in Seq(RequestType), NEW n, NEW i \in DOMAIN q
    PROVE  /\ Card(MarkUnderway(q, n)[i]) = Card(q[i])
           /\ Underway(MarkUnderway(q, n)[i]) <=> Underway(q[i])
           /\ Plain(MarkUnderway(q, n)[i]) <=> Plain(q[i])
<1>1. q[i] \in RequestType
  OBVIOUS
<1>2. \/ MarkUnderway(q, n)[i] = q[i]
      \/ MarkUnderway(q, n)[i] = [q[i] EXCEPT !.processed = TRUE] /\ Underway(q[i])
  BY DEF MarkUnderway
<1>. QED  BY <1>1, <1>2, MarkKeeps

\* DoNextCopy with nothing to start changes nothing but flags.
LEMMA IdleMoves ==
    ASSUME TypeOK, QueueInOrder, Requests, CardsApart, DoNextCopyIdle
    PROVE  /\ Cards' = Cards /\ Going' = Going /\ Requests'
           /\ Len(m_copyRequests') = Len(m_copyRequests)
           /\ \A i \in DOMAIN m_copyRequests : Card(m_copyRequests'[i]) = Card(m_copyRequests[i])
           /\ Ready = {}
<1> DEFINE q == m_copyRequests
<1>1. q \in Seq(RequestType) /\ m_copyRequests' = MarkUnderway(q, Len(q))
      /\ starts' = starts /\ nextId' = nextId
  BY DEF TypeOK, DoNextCopyIdle
<1>2. m_copyRequests' \in Seq(RequestType) /\ Len(m_copyRequests') = Len(q)
  BY <1>1, MarkUnderwayType
<1>3. \A i \in DOMAIN q : /\ Card(m_copyRequests'[i]) = Card(q[i])
                          /\ Underway(m_copyRequests'[i]) <=> Underway(q[i])
                          /\ Plain(m_copyRequests'[i]) <=> Plain(q[i])
  BY <1>1, MarkUnderwayKeeps
<1>4. Cards' = Cards /\ Going' = Going
  <2>1. Cards' = Cards /\ Going' = Going \cup {q[i].id : i \in {}}
    BY <1>2, <1>3, SameCards
  <2>. QED  BY <2>1
<1>5. Requests'
  <2>1. DOMAIN m_copyRequests' = DOMAIN q
    BY <1>1, <1>2
  <2>2. \A i \in DOMAIN q : m_copyRequests'[i].id = q[i].id
    BY <1>1, MarkUnderwayType
  <2>. QED  BY <1>1, <1>3, <2>1, <2>2 DEF Requests
<1>6. Ready = {}
  <2> SUFFICES ASSUME NEW d \in Ready PROVE FALSE
    OBVIOUS
  <2>1. PICK c \in Cards : c.dst = d
    BY DEF Ready
  <2>2. \A e \in Cards : e.dst = d => e.id \notin Going
    BY DEF Ready
  <2>3. PICK i \in DOMAIN q : c = Card(q[i])
    BY QueueCards
  <2>4. q[i].dst = d
    BY <2>1, <2>3, QueueCards, CardOf
  <2>5. \A j \in DOMAIN q : q[j].dst = d => ~ Underway(q[j])
    BY <2>2, QueueCards, CardOf
  <2>6. q[i].dst \notin ActiveTargets(q, i)
    BY <1>1, <2>4, <2>5 DEF ActiveTargets
  <2>. QED  BY <2>4, <2>5, <2>6 DEF DoNextCopyIdle, Startable
<1>. QED  BY <1>2, <1>3, <1>4, <1>5, <1>6

\* The request that DoNextCopy starts, with its flags set.
LEMMA StartedRequest ==
    ASSUME NEW r \in RequestType, Plain(r), ~ Underway(r),
           NEW marked,
           marked = IF r.sources # <<>> THEN [r EXCEPT !.sources[FirstSource(r)].processed = TRUE]
                                        ELSE r,
           NEW last, last = [marked EXCEPT !.processed = (r.type = "file")]
    PROVE  /\ Card(last) = Card(r)
           /\ Underway(last) /\ Plain(last)
           /\ r.type # "file" => r.sources[FirstSource(r)].folder = r.src
<1>1. /\ r.sources \in Seq(SourceType) /\ r.processed \in BOOLEAN
      /\ Len(r.sources) \in Nat
  BY DEF RequestType
<1>2. CASE r.sources = <<>>
  <2>1. r.type = "file"
    BY <1>2 DEF Plain
  <2>2. last.processed = TRUE /\ Card(last) = Card(r) /\ last.sources = r.sources
        /\ last.type = r.type /\ last.src = r.src
    BY <1>2, <2>1 DEF RequestType, Card
  <2>. QED  BY <2>1, <2>2 DEF Underway, Plain
<1>3. CASE r.sources # <<>>
  <2>1. Len(r.sources) = 1 /\ DOMAIN r.sources = {1}
    <3>1. Len(r.sources) # 0 /\ Len(r.sources) <= 1
      BY <1>1, <1>3 DEF Plain
    <3>2. DOMAIN r.sources = 1..Len(r.sources)
      BY <1>1
    <3>3. Len(r.sources) = 1
      <4>1. \A n \in Nat : n # 0 /\ n <= 1 => n = 1
        OBVIOUS
      <4>. QED  BY <1>1, <3>1, <4>1, Zenon
    <3>. QED  BY <3>2, <3>3
  <2>2. ~ AllSourcesProcessed(r)
    BY <1>3 DEF Underway
  <2>3. FirstSource(r) = 1
    <3>1. FirstSource(r) \in 1..Len(r.sources)
      BY <1>3, <2>2, FirstSourceRange
    <3>. QED  BY <2>1, <3>1
  <2> DEFINE s == [r.sources EXCEPT ![1].processed = TRUE]
  <2>4. /\ Len(s) = 1 /\ DOMAIN s = {1} /\ s # <<>>
        /\ s[1].processed = TRUE /\ s[1].folder = r.sources[1].folder
    <3>1. r.sources[1] \in SourceType /\ 1 \in DOMAIN r.sources
      BY <1>1, <2>1
    <3>2. [r.sources[1] EXCEPT !.processed = TRUE] \in SourceType
      BY <3>1 DEF SourceType
    <3>3. s \in Seq(SourceType) /\ Len(s) = Len(r.sources)
      BY <1>1, <3>1, <3>2, ExceptSeq
    <3>. QED  BY <2>1, <3>1, <3>3 DEF SourceType
  <2> HIDE DEF s
  <2>5. /\ last.processed = (r.type = "file") /\ last.sources = s
        /\ last.id = r.id /\ last.type = r.type /\ last.src = r.src
        /\ last.dst = r.dst /\ last.name = r.name
    BY <1>3, <2>3 DEF s, RequestType
  <2>6. AllSourcesProcessed(last)
    BY <2>4, <2>5 DEF AllSourcesProcessed
  <2>. QED  BY <2>1, <2>3, <2>4, <2>5, <2>6 DEF Card, Underway, Plain
<1>. QED  BY <1>2, <1>3

\* DoNextCopy starts the oldest request of a destination that is ready.
LEMMA StartsMoves ==
    ASSUME TypeOK, QueueInOrder, Requests, CardsApart, DoNextCopyStarts
    PROVE  \E c \in Cards :
             /\ c.id \notin Going /\ c.dst \in Ready
             /\ \A d \in Cards : d.dst = c.dst => c.id <= d.id
             /\ Cards' = Cards /\ Going' = Going \cup {c.id} /\ Requests'
             /\ Len(m_copyRequests') = Len(m_copyRequests)
             /\ \A i \in DOMAIN m_copyRequests :
                   Card(m_copyRequests'[i]) = Card(m_copyRequests[i])
             /\ \E f \in FrameType : /\ f.pc = "Copy" /\ Card(f) = c
                                     /\ stack' = Cons(f, Tail(stack))
<1> DEFINE q == m_copyRequests
           i == Found(q)
           r == q[i]
           k == FirstSource(r)
           marked == IF r.sources # <<>> THEN [r EXCEPT !.sources[k].processed = TRUE] ELSE r
           last == [marked EXCEPT !.processed = (r.type = "file")]
           m == MarkUnderway(q, i)
           f == CopyCall(r, IF r.type = "file" THEN r.src ELSE r.sources[k].folder)
<1>1. q \in Seq(RequestType) /\ DOMAIN q = 1..Len(q) /\ Len(q) \in Nat
      /\ \E j \in DOMAIN q : Startable(q, j)
  BY DEF TypeOK, DoNextCopyStarts
<1>2. i \in 1..Len(q) /\ Startable(q, i)
  BY <1>1, FoundRange
<1>3. /\ m_copyRequests' = [m EXCEPT ![i] = last] /\ stack' = Cons(f, Tail(stack))
      /\ starts' = [starts EXCEPT ![r.id] = @ + 1] /\ nextId' = nextId
  BY DEF DoNextCopyStarts, ReturnAndCall
<1>4. r \in RequestType /\ Plain(r) /\ ~ Underway(r)
  BY <1>1, <1>2 DEF Requests, Startable
<1>5. /\ Card(last) = Card(r) /\ Underway(last) /\ Plain(last)
      /\ r.type # "file" => r.sources[k].folder = r.src
  <2> HIDE DEF r
  <2>1. \A a, b : /\ a = IF r.sources # <<>>
                           THEN [r EXCEPT !.sources[FirstSource(r)].processed = TRUE] ELSE r
                  /\ b = [a EXCEPT !.processed = (r.type = "file")]
                  => /\ Card(b) = Card(r) /\ Underway(b) /\ Plain(b)
                     /\ r.type # "file" => r.sources[FirstSource(r)].folder = r.src
    BY <1>4, StartedRequest
  <2>. QED  BY <2>1
<1>6. m_copyRequests' \in Seq(RequestType)
  BY TypeNext DEF Next, Code, TypeOK
<1>7. Len(m_copyRequests') = Len(q) /\ \A j \in 1..Len(q) : m_copyRequests'[j].id = q[j].id
  BY DoNextCopyKeepsIds
<1>8. \A j \in DOMAIN q : m_copyRequests'[j] = IF j = i THEN last ELSE m[j]
  <2>1. DOMAIN m = DOMAIN q
    BY DEF MarkUnderway
  <2> HIDE DEF m, last, i, q
  <2>. QED  BY <1>3, <2>1
<1>9. \A j \in DOMAIN q : /\ Card(m[j]) = Card(q[j])
                          /\ Underway(m[j]) <=> Underway(q[j])
                          /\ Plain(m[j]) <=> Plain(q[j])
  BY <1>1, MarkUnderwayKeeps
<1> HIDE DEF last, m
<1>10. \A j \in DOMAIN q : /\ Card(m_copyRequests'[j]) = Card(q[j])
                           /\ Underway(m_copyRequests'[j]) <=> Underway(q[j]) \/ j \in {i}
                           /\ Plain(q[j]) => Plain(m_copyRequests'[j])
  BY <1>5, <1>8, <1>9
<1>11. Cards' = Cards /\ Going' = Going \cup {r.id}
  <2>1. {i} \in SUBSET DOMAIN q
    BY <1>1, <1>2
  <2>2. Cards' = Cards /\ Going' = Going \cup {q[j].id : j \in {i}}
    BY <1>6, <1>7, <1>10, <2>1, SameCards
  <2>. QED  BY <2>2
<1>12. Requests'
  <2>1. DOMAIN m_copyRequests' = DOMAIN q
    BY <1>1, <1>6, <1>7
  <2>2. ASSUME NEW j \in DOMAIN q
        PROVE  /\ Plain(m_copyRequests'[j])
               /\ starts'[m_copyRequests'[j].id] > 0 <=> Underway(m_copyRequests'[j])
    <3>1. m_copyRequests'[j].id = q[j].id /\ q[j].id \in Ids /\ r.id \in Ids
      BY <1>1, <1>4, <1>7 DEF RequestType
    <3>2. starts \in [Ids -> Nat]
      BY DEF TypeOK
    <3>3. Plain(q[j]) /\ (starts[q[j].id] > 0 <=> Underway(q[j]))
      BY DEF Requests
    <3>4. CASE j = i
      BY <1>3, <1>10, <3>1, <3>2, <3>3, <3>4
    <3>5. CASE j # i
      <4>1. q[j].id # r.id
        BY <1>1, <1>2, <3>5, QueueCards
      <4>. QED  BY <1>3, <1>10, <3>1, <3>2, <3>3, <3>5, <4>1
    <3>. QED  BY <3>4, <3>5
  <2>3. ASSUME NEW id \in Ids, id >= nextId'
        PROVE  starts'[id] = 0
    <3>1. r.id < nextId /\ r.id \in Nat /\ nextId \in Nat
      BY <1>1, <1>2, <1>4 DEF QueueInOrder, RequestType, Ids, TypeOK
    <3>2. id # r.id /\ starts[id] = 0
      BY <1>3, <2>3, <3>1 DEF Requests, Ids
    <3>. QED  BY <1>3, <3>2 DEF TypeOK
  <2>. QED  BY <2>1, <2>2, <2>3 DEF Requests
<1>13. \A d \in Cards : d.dst = r.dst => r.id <= d.id
  <2> SUFFICES ASSUME NEW d \in Cards, d.dst = r.dst PROVE r.id <= d.id
    OBVIOUS
  <2>1. PICK j \in DOMAIN q : d = Card(q[j])
    BY QueueCards
  <2>2. q[j] \in RequestType /\ q[j].dst = r.dst /\ d.id = q[j].id
    BY <1>1, <2>1, CardOf
  <2>3. ~ (j < i)
    BY <1>1, <1>2, <2>2, FoundIsOldest
  <2>4. q[j].id \in Nat /\ r.id \in Nat
    BY <1>4, <2>2 DEF RequestType, Ids
  <2>. QED  BY <1>1, <1>2, <2>2, <2>3, <2>4 DEF QueueInOrder
<1> DEFINE c == Card(r)
<1>14. /\ c \in Cards /\ c.id = r.id /\ c.dst = r.dst /\ c.id \notin Going
       /\ r.dst \in Dsts /\ r.id \in Nat
  BY <1>1, <1>2, <1>4, QueueCards, CardOf DEF RequestType, Ids
<1>15. c.dst \in Ready
  <2> SUFFICES ASSUME NEW d \in Cards, d.dst = r.dst, d.id \in Going PROVE FALSE
    BY <1>14 DEF Ready
  <2>1. d.id <= r.id /\ r.id <= d.id /\ d.id \in Nat
    BY <1>13, <1>14, QueueCards DEF CardsApart, CardType, Ids
  <2>. QED  BY <1>14, <2>1
<1>16. f \in FrameType /\ f.pc = "Copy" /\ Card(f) = c
  BY <1>4, <1>5 DEF FrameType, CopyCall, Card, RequestType
<1>. QED  BY <1>3, <1>7, <1>10, <1>11, <1>12, <1>13, <1>14, <1>15, <1>16

\* A new request is not under way, whatever its kind.
LEMMA NewRequestPlain ==
    ASSUME Restrained, NEW o \in Offers, NEW id \in Ids
    PROVE  Plain(NewRequest(id, o)) /\ ~ Underway(NewRequest(id, o))
<1> DEFINE r == NewRequest(id, o)
           n == Len(o.from)
<1>1. /\ o.type # "file" => o.from = <<o.src>>
      /\ n <= 1 /\ \A k \in DOMAIN o.from : o.from[k] # o.dst
  BY DEF Restrained
<1>2. o.from \in Seq(Srcs) /\ DOMAIN o.from = 1..n /\ n \in Nat
  BY CopyAssumption DEF OfferType
<1>3. /\ r.processed = FALSE /\ r.type = o.type /\ r.src = o.src
      /\ DOMAIN r.sources = 1..n
      /\ \A k \in 1..n : r.sources[k].folder = o.from[k]
                         /\ r.sources[k].processed = (o.from[k] = o.dst)
  BY <1>2 DEF NewRequest
<1>4. r.sources \in Seq(SourceType)
  BY OfferTypes DEF RequestType
<1> HIDE DEF r
<1>5. Len(r.sources) = n
  BY <1>2, <1>3, <1>4
<1>6. Plain(r)
  <2>1. CASE r.type = "file"
    BY <1>1, <1>5, <2>1 DEF Plain
  <2>2. CASE r.type # "file"
    <3>1. o.from = <<o.src>> /\ n = 1
      BY <1>1, <1>3, <2>2
    <3>. QED  BY <1>3, <1>5, <3>1 DEF Plain
  <2>. QED  BY <2>1, <2>2
<1>7. ~ Underway(r)
  <2>1. ASSUME r.sources # <<>> PROVE ~ AllSourcesProcessed(r)
    <3>1. n # 0
      BY <1>4, <1>5, <2>1
    <3>2. 1 \in 1..n
      BY <1>2, <3>1
    <3>. QED  BY <1>1, <1>2, <1>3, <3>2 DEF AllSourcesProcessed
  <2>. QED  BY <1>3, <2>1 DEF Underway
<1>. QED  BY <1>6, <1>7 DEF r

\* A request that is made adds a card.
LEMMA AppendMoves ==
    ASSUME Restrained, TypeOK, QueueInOrder, Requests, CardsApart, NEW o \in Offers, DoCopy(o)
    PROVE  /\ \E r \in RequestType :
                 /\ r.id = nextId /\ r.dst = o.dst
                 /\ m_copyRequests' = Append(m_copyRequests, r)
                 /\ Cards' = Cards \cup {Card(r)}
           /\ Going' = Going /\ Requests' /\ CardsApart'
<1> DEFINE q == m_copyRequests
           r == NewRequest(nextId, o)
           n == Len(q)
<1>1. /\ nextId \in Ids /\ nextId \in Nat /\ nextId' = nextId + 1
      /\ m_copyRequests' = Append(q, r) /\ starts' = starts
      /\ \A i \in DOMAIN q : q[i].src # o.src \/ q[i].dst # o.dst
  BY DEF DoCopy, Ids, Restrained
<1>2. /\ r \in RequestType /\ Plain(r) /\ ~ Underway(r)
      /\ r.id = nextId /\ r.src = o.src /\ r.dst = o.dst
  <2>1. r \in RequestType /\ Plain(r) /\ ~ Underway(r)
    BY <1>1, OfferTypes, NewRequestPlain
  <2>. QED  BY <2>1 DEF NewRequest
<1> HIDE DEF r
<1>3. /\ q \in Seq(RequestType) /\ n \in Nat /\ DOMAIN q = 1..n
      /\ DOMAIN m_copyRequests' = 1..(n + 1)
      /\ \A i \in 1..n : m_copyRequests'[i] = q[i] /\ i \in 1..(n + 1)
      /\ m_copyRequests'[n + 1] = r /\ n + 1 \in 1..(n + 1)
      /\ \A i \in 1..(n + 1) : i \in 1..n \/ i = n + 1
  BY <1>1, <1>2 DEF TypeOK
<1>4. Cards' = Cards \cup {Card(r)}
  <2>1. Cards' = {Card(m_copyRequests'[i]) : i \in 1..(n + 1)}
    BY <1>3 DEF Cards
  <2>2. Cards = {Card(q[i]) : i \in 1..n}
    BY <1>3 DEF Cards
  <2>. QED  BY <1>3, <2>1, <2>2, Zenon
<1>5. Going' = Going
  <2>1. Going' = {m_copyRequests'[i].id : i \in {j \in 1..(n + 1) : Underway(m_copyRequests'[j])}}
    BY <1>3 DEF Going
  <2>2. Going = {q[i].id : i \in {j \in 1..n : Underway(q[j])}}
    BY <1>3 DEF Going
  <2>3. \A i \in {j \in 1..(n + 1) : Underway(m_copyRequests'[j])} :
           i \in 1..n /\ Underway(q[i]) /\ m_copyRequests'[i].id = q[i].id
    BY <1>2, <1>3, Zenon
  <2>. QED  BY <1>3, <2>1, <2>2, <2>3
<1>6. Requests'
  <2>1. \A i \in 1..(n + 1) :
           /\ Plain(m_copyRequests'[i])
           /\ starts[m_copyRequests'[i].id] > 0 <=> Underway(m_copyRequests'[i])
    <3>1. \A i \in 1..n : Plain(q[i]) /\ (starts[q[i].id] > 0 <=> Underway(q[i]))
      BY <1>3 DEF Requests
    <3>2. starts[r.id] = 0
      BY <1>1, <1>2 DEF Requests
    <3>. QED  BY <1>2, <1>3, <3>1, <3>2
  <2>2. \A id \in Ids : id >= nextId + 1 => starts[id] = 0
    BY <1>1 DEF Requests, Ids
  <2>. QED  BY <1>1, <1>3, <2>1, <2>2 DEF Requests
<1>7. \A c \in Cards : /\ c.id \in Nat /\ c.id < nextId
                       /\ c.src # o.src \/ c.dst # o.dst
  <2> SUFFICES ASSUME NEW c \in Cards
               PROVE  c.id \in Nat /\ c.id < nextId /\ (c.src # o.src \/ c.dst # o.dst)
    OBVIOUS
  <2>1. PICK i \in DOMAIN q : c = Card(q[i])
    BY QueueCards
  <2>2. q[i] \in RequestType /\ c.id = q[i].id /\ c.src = q[i].src /\ c.dst = q[i].dst
    BY <2>1, QueueCards, CardOf
  <2>. QED  BY <1>1, <2>2 DEF QueueInOrder, RequestType, Ids
<1>8. CardsApart'
  <2> DEFINE n1 == Card(r)
  <2>1. n1.id = nextId /\ n1.src = o.src /\ n1.dst = o.dst
    BY <1>2, CardOf
  <2>2. n1.id \notin Going
    BY <1>7, <1>1, <2>1, QueueCards
  <2> HIDE DEF n1
  <2>3. \A c, d \in Cards \cup {n1} : c.id = d.id => c = d
    BY <1>1, <1>7, <2>1 DEF CardsApart
  <2>4. \A c, d \in Cards \cup {n1} : c.src = d.src /\ c.dst = d.dst => c = d
    BY <1>7, <2>1 DEF CardsApart
  <2>5. \A c, d \in Cards \cup {n1} : c.id \in Going /\ c.dst = d.dst => c.id <= d.id
    BY <1>1, <1>7, <2>1, <2>2 DEF CardsApart
  <2>. QED  BY <1>4, <1>5, <2>3, <2>4, <2>5 DEF CardsApart, n1
<1>. QED  BY <1>1, <1>2, <1>4, <1>5, <1>6, <1>8

\* A request that is cleared takes its card away.
LEMMA ClearMoves ==
    ASSUME TypeOK, QueueInOrder, Requests, CardsApart, NEW h \in DOMAIN m_copyRequests,
           m_copyRequests' = RemoveAt(m_copyRequests, h), starts' = starts, nextId' = nextId
    PROVE  /\ Cards' = Cards \ {Card(m_copyRequests[h])}
           /\ Going' = Going \ {m_copyRequests[h].id}
           /\ Requests' /\ CardsApart'
           /\ Len(m_copyRequests') = Len(m_copyRequests) - 1
           /\ \A j \in DOMAIN m_copyRequests' :
                \E i \in DOMAIN m_copyRequests \ {h} : m_copyRequests'[j] = m_copyRequests[i]
<1> DEFINE q == m_copyRequests
           n == Len(q)
           Rest == DOMAIN q \ {h}
<1>1. q \in Seq(RequestType) /\ n \in Nat /\ DOMAIN q = 1..n /\ h \in 1..n
  BY DEF TypeOK
<1>2. PICK p : p = m_copyRequests'
  OBVIOUS
<1>3. /\ p \in Seq(RequestType) /\ Len(p) = n - 1 /\ DOMAIN p = 1..(n - 1)
      /\ \A j \in 1..(n - 1) : p[j] = IF j < h THEN q[j] ELSE q[j + 1]
  <2>1. /\ p \in Seq(RequestType) /\ Len(p) = n - 1
        /\ \A j \in 1..(n - 1) : p[j] = IF j < h THEN q[j] ELSE q[j + 1]
    BY <1>1, <1>2, RemoveAtProperties
  <2>. QED  BY <2>1
<1>4. \A j \in DOMAIN p : \E i \in Rest : p[j] = q[i]
  <2> SUFFICES ASSUME NEW j \in DOMAIN p PROVE \E i \in Rest : p[j] = q[i]
    OBVIOUS
  <2>1. CASE j < h
    BY <1>1, <1>3, <2>1
  <2>2. CASE ~ (j < h)
    <3>1. j + 1 \in Rest /\ p[j] = q[j + 1]
      BY <1>1, <1>3, <2>2
    <3>. QED  BY <3>1
  <2>. QED  BY <2>1, <2>2
<1>5. \A i \in Rest : \E j \in DOMAIN p : p[j] = q[i]
  <2> SUFFICES ASSUME NEW i \in Rest PROVE \E j \in DOMAIN p : p[j] = q[i]
    OBVIOUS
  <2>1. CASE i < h
    <3>1. i \in DOMAIN p /\ p[i] = q[i]
      BY <1>1, <1>3, <2>1
    <3>. QED  BY <3>1
  <2>2. CASE ~ (i < h)
    <3>1. i - 1 \in DOMAIN p /\ p[i - 1] = q[i]
      BY <1>1, <1>3, <2>2
    <3>. QED  BY <3>1
  <2>. QED  BY <2>1, <2>2
<1>6. \A i \in DOMAIN q : /\ Card(q[i]).id = q[i].id
                          /\ q[i].id = q[h].id => i = h
  BY QueueCards, CardOf
<1> HIDE DEF n
<1>7. Cards' = Cards \ {Card(q[h])}
  <2>1. Cards' = {Card(p[j]) : j \in DOMAIN p}
    BY <1>2 DEF Cards
  <2>2. Cards = {Card(q[i]) : i \in DOMAIN q}
    BY DEF Cards
  <2>3. h \in DOMAIN q /\ \A i \in Rest : Card(q[i]) # Card(q[h])
    BY <1>6, Zenon
  <2> HIDE DEF q
  <2>4. {Card(p[j]) : j \in DOMAIN p} = {Card(q[i]) : i \in Rest}
    BY <1>4, <1>5, Zenon
  <2>5. {Card(q[i]) : i \in Rest} = {Card(q[i]) : i \in DOMAIN q} \ {Card(q[h])}
    BY <2>3
  <2>. QED  BY <2>1, <2>2, <2>4, <2>5
<1>8. Going' = Going \ {q[h].id}
  <2>1. Going' = {p[j].id : j \in {k \in DOMAIN p : Underway(p[k])}}
    BY <1>2 DEF Going
  <2>2. Going = {q[i].id : i \in {k \in DOMAIN q : Underway(q[k])}}
    BY DEF Going
  <2> HIDE DEF q
  <2>3. {p[j].id : j \in {k \in DOMAIN p : Underway(p[k])}}
          \subseteq {q[i].id : i \in {k \in DOMAIN q : Underway(q[k])}} \ {q[h].id}
    BY <1>4, <1>6
  <2>4. {q[i].id : i \in {k \in DOMAIN q : Underway(q[k])}} \ {q[h].id}
          \subseteq {p[j].id : j \in {k \in DOMAIN p : Underway(p[k])}}
    BY <1>5, <1>6
  <2>. QED  BY <2>1, <2>2, <2>3, <2>4
<1>9. Requests'
  <2>1. \A j \in DOMAIN p : Plain(p[j]) /\ (starts[p[j].id] > 0 <=> Underway(p[j]))
    BY <1>4 DEF Requests
  <2>2. \A id \in Ids : id >= nextId => starts[id] = 0
    BY DEF Requests
  <2>. QED  BY <1>2, <2>1, <2>2 DEF Requests
<1>10. CardsApart'
  BY <1>7, <1>8 DEF CardsApart
<1>. QED  BY <1>2, <1>3, <1>4, <1>7, <1>8, <1>9, <1>10 DEF n

\* What FindRequest finds is between the folders the completion names.
LEMMA HitAbout ==
    ASSUME Restrained, NEW q \in Seq(RequestType), NEW src, NEW place,
           FindRequest(q, src, place) # 0
    PROVE  LET h == FindRequest(q, src, place)
           IN  h \in DOMAIN q /\ q[h].src = src /\ q[h].dst = Home(place)
<1> DEFINE hits == {i \in DOMAIN q : Matches(q[i], src, place)}
           h == FindRequest(q, src, place)
<1>1. UNION {NewNames[n] : n \in Names} = Names /\ Dsts \cap (Dsts \X Names) = {}
  BY CopyAssumption DEF Restrained
<1>2. \A i \in DOMAIN q : FolderInPlace(q[i], src, place) => q[i].src = src /\ q[i].dst = Home(place)
  BY <1>1 DEF FolderInPlace, IsChildOf, Home
<1>3. \A i \in DOMAIN q : Matches(q[i], src, place) => q[i].src = src /\ q[i].dst = Home(place)
  BY <1>2 DEF Matches, Home, RequestType
<1>4. hits \subseteq 1..Len(q) /\ hits \in SUBSET Nat /\ Len(q) \in Nat
  OBVIOUS
<1>5. CASE hits # {}
  <2>1. Min(hits) \in hits
    BY <1>4, <1>5, MinNat
  <2>2. h = Min(hits)
    BY <1>5 DEF FindRequest
  <2>. QED  BY <1>3, <2>1, <2>2
<1>6. CASE hits = {}
  <2>1. h = Len(q) /\ q # <<>> /\ FolderInPlace(q[Len(q)], src, place)
    BY <1>6 DEF FindRequest
  <2>2. Len(q) \in DOMAIN q
    BY <2>1
  <2>. QED  BY <1>2, <2>1, <2>2
<1>. QED  BY <1>5, <1>6

\* A completion in the right place is for the request it ends.
LEMMA HitIs ==
    ASSUME Restrained, TypeOK, QueueInOrder, CardsApart, NEW card \in Cards, NEW place \in Places,
           InPlace(place, card)
    PROVE  /\ FindRequest(m_copyRequests, card.src, place) \in DOMAIN m_copyRequests
           /\ Card(m_copyRequests[FindRequest(m_copyRequests, card.src, place)]) = card
           /\ Home(place) = card.dst
<1> DEFINE q == m_copyRequests
           hits == {i \in DOMAIN q : Matches(q[i], card.src, place)}
           h == FindRequest(q, card.src, place)
<1>1. /\ \A n \in Names : NewNames[n] = {n}
      /\ Dsts \cap (Dsts \X Names) = {}
      /\ UNION {NewNames[n] : n \in Names} = Names
  BY CopyAssumption DEF Restrained
<1>2. PICK i \in DOMAIN q : card = Card(q[i])
  BY QueueCards
<1>3. /\ q[i] \in RequestType /\ card.type = q[i].type /\ card.src = q[i].src
      /\ card.dst = q[i].dst /\ card.name = q[i].name
      /\ q[i].dst \in Dsts /\ q[i].name \in Names
  BY <1>2, QueueCards, CardOf DEF RequestType
<1>4. Home(place) = card.dst
  BY <1>1, <1>3 DEF InPlace, Home
<1>5. Matches(q[i], card.src, place)
  <2>1. CASE place = card.dst
    BY <1>3, <2>1 DEF Matches
  <2>2. CASE card.type = "folder" /\ place = <<card.dst, card.name>>
    BY <1>1, <1>3, <2>2 DEF Matches, FolderInPlace, IsChildOf
  <2>. QED  BY <2>1, <2>2 DEF InPlace
<1>6. q \in Seq(RequestType) /\ hits \in SUBSET Nat /\ i \in hits /\ i # 0
      /\ hits \subseteq DOMAIN q
  BY <1>5 DEF TypeOK
<1>7. h \in DOMAIN q
  <2>1. h = Min(hits) /\ Min(hits) \in hits
    BY <1>6, MinNat DEF FindRequest
  <2>. QED  BY <1>6, <2>1
<1>8. h # 0
  BY <1>6, <1>7 DEF TypeOK
<1>9. q[h].src = card.src /\ q[h].dst = card.dst
  BY <1>4, <1>6, <1>8, HitAbout
<1>10. Card(q[h]) = card
  <2>1. Card(q[h]) \in Cards /\ q[h] \in RequestType
    BY <1>7, QueueCards
  <2>2. Card(q[h]).src = card.src /\ Card(q[h]).dst = card.dst
    BY <1>9, <2>1, CardOf
  <2>. QED  BY <2>1, <2>2 DEF CardsApart
<1>. QED  BY <1>4, <1>7, <1>10

-----------------------------------------------------------------------------
(* What they do to the call stack.                                           *)

LEMMA StackOf ==
    ASSUME NEW f \in FrameType, NEW s \in Seq(FrameType)
    PROVE  /\ Cons(f, s) \in Seq(FrameType) /\ Cons(f, s) # <<>>
           /\ Head(Cons(f, s)) = f /\ Tail(Cons(f, s)) = s
           /\ Len(Cons(f, s)) = Len(s) + 1 /\ Len(s) \in Nat
           /\ DOMAIN Cons(f, s) = 1..(Len(s) + 1)
           /\ \A i \in 1..(Len(s) + 1) :
                 Cons(f, s)[i] = IF i = 1 THEN f ELSE s[i - 1]
           /\ Cons(f, s)[Len(Cons(f, s))] = IF s = <<>> THEN f ELSE s[Len(s)]
<1>1. /\ Cons(f, s) \in Seq(FrameType) /\ Cons(f, s) # <<>>
      /\ Head(Cons(f, s)) = f /\ Tail(Cons(f, s)) = s
      /\ Len(Cons(f, s)) = Len(s) + 1
  BY ConsProperties, Zenon
<1> Len(s) \in Nat
  OBVIOUS
<1>2. /\ DOMAIN Cons(f, s) = 1..(Len(s) + 1)
      /\ \A i \in 1..(Len(s) + 1) : Cons(f, s)[i] = IF i = 1 THEN f ELSE s[i - 1]
  BY DEF Cons
<1>3. s # <<>> => Len(s) + 1 # 1
  OBVIOUS
<1>4. s = <<>> => Len(s) + 1 = 1
  OBVIOUS
<1>. QED  BY <1>1, <1>2, <1>3, <1>4

LEMMA StackIs ==
    ASSUME NEW s \in Seq(FrameType), s # <<>>
    PROVE  /\ s = Cons(Head(s), Tail(s))
           /\ Head(s) \in FrameType /\ Tail(s) \in Seq(FrameType)
           /\ Len(s) = Len(Tail(s)) + 1 /\ Len(Tail(s)) \in Nat
           /\ Tail(s) = <<>> <=> Len(Tail(s)) = 0
<1> DEFINE h == Head(s)
           t == Tail(s)
<1>1. /\ h \in FrameType /\ t \in Seq(FrameType)
      /\ Len(s) \in Nat /\ Len(s) # 0 /\ h = s[1]
      /\ Len(t) = Len(s) - 1
      /\ \A i \in 1..Len(t) : t[i] = s[i + 1]
  OBVIOUS
<1> HIDE DEF h, t
<1>2. t = <<>> <=> Len(t) = 0
  BY <1>1
<1>3. /\ Cons(h, t) \in Seq(FrameType) /\ Len(Cons(h, t)) = Len(t) + 1
      /\ \A i \in 1..(Len(t) + 1) : Cons(h, t)[i] = IF i = 1 THEN h ELSE t[i - 1]
  BY <1>1, StackOf
<1>4. \A i \in 1..Len(s) : Cons(h, t)[i] = s[i]
  BY <1>1, <1>3
<1>5. s = Cons(h, t)
  BY <1>1, <1>3, <1>4
<1>. QED  BY <1>1, <1>2, <1>5 DEF h, t

LEMMA ShapeOf ==
    ASSUME NEW f \in FrameType, NEW s \in Seq(FrameType)
    PROVE  Shape(Cons(f, s)) <=>
             /\ Shape(s)
             /\ IF f.pc = "OnStopCopy" THEN s # <<>> /\ Head(s).pc = "NotifyCompletion"
                                       ELSE s # <<>> => Head(s).pc = "OnStopCopy"
<1> DEFINE c == Cons(f, s)
           n == Len(s)
<1>1. /\ c \in Seq(FrameType) /\ Len(c) = n + 1 /\ DOMAIN c = 1..(n + 1)
      /\ n \in Nat /\ DOMAIN s = 1..n /\ c[1] = f
      /\ s = <<>> <=> n = 0
      /\ n # 0 => c[2] = s[1] /\ Head(s) = s[1]
  BY StackOf
<1>2. \A i \in 1..n : i + 1 \in 1..(n + 1) /\ c[i + 1] = s[i]
  <2>1. \A i \in 1..(n + 1) : c[i] = IF i = 1 THEN f ELSE s[i - 1]
    BY StackOf
  <2> HIDE DEF c, n
  <2>. QED  BY <1>1, <2>1
<1> HIDE DEF c, n
<1>3. ASSUME Shape(s), IF f.pc = "OnStopCopy" THEN s # <<>> /\ Head(s).pc = "NotifyCompletion"
                       ELSE s # <<>> => Head(s).pc = "OnStopCopy"
      PROVE  Shape(c)
  <2> SUFFICES ASSUME NEW i \in 1..(n + 1)
               PROVE  /\ i > 1 => c[i].pc \in {"OnStopCopy", "NotifyCompletion"}
                      /\ c[i].pc = "OnStopCopy" => i < n + 1 /\ c[i + 1].pc = "NotifyCompletion"
                      /\ c[i].pc # "OnStopCopy" /\ i < n + 1 => c[i + 1].pc = "OnStopCopy"
    BY <1>1 DEF Shape
  <2>1. CASE i = 1
    BY <1>1, <1>3, <2>1
  <2>2. CASE i = 2
    <3>1. 1 \in DOMAIN s /\ n # 0 /\ c[2] = s[1]
      BY <1>1, <2>2
    <3>2. s[1].pc \in {"OnStopCopy", "NotifyCompletion"}
      BY <1>1, <1>3, <3>1
    <3>3. /\ s[1].pc = "OnStopCopy" => 1 < n /\ s[2].pc = "NotifyCompletion"
          /\ s[1].pc # "OnStopCopy" /\ 1 < n => s[2].pc = "OnStopCopy"
      BY <1>3, <3>1 DEF Shape, n
    <3>4. 1 < n => c[3] = s[2]
      BY <1>1, <1>2
    <3>. QED  BY <1>1, <2>2, <3>1, <3>2, <3>3, <3>4
  <2>3. CASE i > 2
    <3>1. PICK j \in 1..n : i = j + 1 /\ j > 1
      BY <1>1, <2>3
    <3>2. /\ s[j].pc \in {"OnStopCopy", "NotifyCompletion"}
          /\ s[j].pc = "OnStopCopy" => j < n /\ s[j + 1].pc = "NotifyCompletion"
          /\ s[j].pc # "OnStopCopy" /\ j < n => s[j + 1].pc = "OnStopCopy"
      BY <1>1, <1>3, <3>1 DEF Shape, n
    <3>3. c[i] = s[j] /\ (j < n => c[i + 1] = s[j + 1])
      BY <1>1, <1>2, <3>1
    <3>. QED  BY <1>1, <3>1, <3>2, <3>3
  <2>. QED  BY <1>1, <2>1, <2>2, <2>3
<1>4. ASSUME Shape(c)
      PROVE  Shape(s)
  <2> SUFFICES ASSUME NEW j \in 1..n
               PROVE  /\ j > 1 => s[j].pc \in {"OnStopCopy", "NotifyCompletion"}
                      /\ s[j].pc = "OnStopCopy" => j < n /\ s[j + 1].pc = "NotifyCompletion"
                      /\ s[j].pc # "OnStopCopy" /\ j < n => s[j + 1].pc = "OnStopCopy"
    BY <1>1 DEF Shape, n
  <2>1. PICK k \in DOMAIN c : k = j + 1
    BY <1>1
  <2>2. c[k] = s[j] /\ (j < n => c[k + 1] = s[j + 1])
    BY <1>1, <1>2, <2>1
  <2>3. /\ k > 1 => c[k].pc \in {"OnStopCopy", "NotifyCompletion"}
        /\ c[k].pc = "OnStopCopy" => k < n + 1 /\ c[k + 1].pc = "NotifyCompletion"
        /\ c[k].pc # "OnStopCopy" /\ k < n + 1 => c[k + 1].pc = "OnStopCopy"
    BY <1>1, <1>4 DEF Shape
  <2>. QED  BY <1>1, <2>1, <2>2, <2>3
<1>5. ASSUME Shape(c)
      PROVE  IF f.pc = "OnStopCopy" THEN s # <<>> /\ Head(s).pc = "NotifyCompletion"
             ELSE s # <<>> => Head(s).pc = "OnStopCopy"
  <2>1. /\ 1 \in DOMAIN c
        /\ c[1].pc = "OnStopCopy" => 1 < Len(c) /\ c[2].pc = "NotifyCompletion"
        /\ c[1].pc # "OnStopCopy" /\ 1 < Len(c) => c[2].pc = "OnStopCopy"
    <3>1. 1 \in DOMAIN c
      BY <1>1
    <3>2. \A k \in DOMAIN c : \A l : l = k + 1 =>
             /\ c[k].pc = "OnStopCopy" => k < Len(c) /\ c[l].pc = "NotifyCompletion"
             /\ c[k].pc # "OnStopCopy" /\ k < Len(c) => c[l].pc = "OnStopCopy"
      BY <1>5 DEF Shape
    <3>3. 2 = 1 + 1
      OBVIOUS
    <3>. QED  BY <3>1, <3>2, <3>3, Zenon
  <2>2. 1 < n + 1 <=> s # <<>>
    BY <1>1
  <2>. QED  BY <1>1, <2>1, <2>2
<1>. QED  BY <1>3, <1>4, <1>5 DEF c

LEMMA SettledOf ==
    ASSUME NEW f \in FrameType, NEW s \in Seq(FrameType), NEW q
    PROVE  Settled(Cons(f, s), q) <=>
             /\ f.pc = "NotifyCompletion" => Finished(f, s = <<>>, q)
             /\ Settled(s, q)
<1> DEFINE c == Cons(f, s)
           n == Len(s)
<1>1. /\ Len(c) = n + 1 /\ DOMAIN c = 1..(n + 1) /\ n \in Nat /\ DOMAIN s = 1..n
      /\ c[1] = f /\ (s = <<>> <=> n = 0)
      /\ \A i \in 1..(n + 1) : c[i] = IF i = 1 THEN f ELSE s[i - 1]
  BY StackOf
<1> HIDE DEF c, n
<1>2. \A i \in 1..n : i + 1 \in 1..(n + 1) /\ c[i + 1] = s[i] /\ ((i + 1 = n + 1) <=> (i = n))
  BY <1>1
<1>3. \A i \in 1..(n + 1) : i = 1 \/ \E j \in 1..n : i = j + 1
  BY <1>1
<1>4. (1 = n + 1) <=> (s = <<>>)
  BY <1>1
<1> DEFINE At(k, a, e) == k[a].pc = "NotifyCompletion" => Finished(k[a], e, q)
<1>5. Settled(c, q) <=> \A i \in 1..(n + 1) : At(c, i, i = n + 1)
  BY <1>1 DEF Settled
<1>6. Settled(s, q) <=> \A i \in 1..n : At(s, i, i = n)
  BY <1>1 DEF Settled, n
<1>7. \A i \in 1..n : At(c, i + 1, i + 1 = n + 1) <=> At(s, i, i = n)
  BY <1>2
<1>8. At(c, 1, 1 = n + 1) <=> (f.pc = "NotifyCompletion" => Finished(f, s = <<>>, q))
  BY <1>1, <1>4
<1>9. 1 \in 1..(n + 1)
  BY <1>1
<1> HIDE DEF At
<1>10. (\A i \in 1..(n + 1) : At(c, i, i = n + 1)) <=>
         At(c, 1, 1 = n + 1) /\ \A i \in 1..n : At(c, i + 1, i + 1 = n + 1)
  BY <1>2, <1>3, <1>9
<1>. QED  BY <1>5, <1>6, <1>7, <1>8, <1>10 DEF c

\* A completion that is finished clears nothing more.
LEMMA FinishedClearsNothing ==
    ASSUME Restrained, TypeOK, NEW f \in FrameType, f.pc = "NotifyCompletion", NEW last,
           Finished(f, last, m_copyRequests)
    PROVE  ~ Clears(f)
<1> SUFFICES ASSUME Considered(f) PROVE FALSE
  BY DEF Clears
<1> DEFINE q == m_copyRequests
           h == Hit(f)
<1>1. q \in Seq(RequestType) /\ h # 0 /\ h <= f.orig
  BY DEF TypeOK, Considered
<1>2. h \in DOMAIN q /\ IsAbout(f, q[h])
  BY <1>1, HitAbout DEF Hit, IsAbout
<1>3. f.orig \in Nat /\ h \in Nat /\ h >= 1
  BY <1>1, <1>2 DEF FrameType, DoNextCopyCall, OnStopCopyCall
<1>. QED  BY <1>1, <1>2, <1>3 DEF Finished

\* What is finished stays so as flags are set and requests added.
LEMMA SettledKept ==
    ASSUME NEW s \in Seq(FrameType), NEW q \in Seq(RequestType), NEW p \in Seq(RequestType),
           Len(p) >= Len(q),
           \A i \in DOMAIN q : p[i].src = q[i].src /\ p[i].dst = q[i].dst,
           \A i \in DOMAIN p : i \in DOMAIN q \/ p[i].dst \notin AtOnce,
           Settled(s, q)
    PROVE  Settled(s, p)
<1> SUFFICES ASSUME NEW i \in DOMAIN s, s[i].pc = "NotifyCompletion"
             PROVE  Finished(s[i], i = Len(s), p)
  BY DEF Settled
<1> DEFINE f == s[i]
<1>1. Finished(f, i = Len(s), q) /\ f \in FrameType
  BY DEF Settled
<1>2. f.orig \in Nat
  BY <1>1 DEF FrameType, DoNextCopyCall, OnStopCopyCall
<1> HIDE DEF f
<1>3. CASE Home(f.dst) \in AtOnce
  BY <1>1, <1>3 DEF Finished, IsAbout, f
<1>4. CASE Home(f.dst) \notin AtOnce
  <2>1. /\ i = Len(s) /\ f.orig <= Len(q)
        /\ \A j \in 1..f.orig : ~ IsAbout(f, q[j])
    BY <1>1, <1>4 DEF Finished
  <2>2. \A j \in 1..f.orig : j \in DOMAIN q
    BY <1>2, <2>1
  <2>3. f.orig <= Len(p)
    BY <1>2, <2>1
  <2>4. \A j \in 1..f.orig : ~ IsAbout(f, p[j])
    BY <2>1, <2>2 DEF IsAbout
  <2>. QED  BY <1>4, <2>1, <2>3, <2>4 DEF Finished, f
<1>. QED  BY <1>3, <1>4

LEMMA SettledSame ==
    ASSUME TypeOK, m_copyRequests' \in Seq(RequestType),
           Len(m_copyRequests') = Len(m_copyRequests),
           \A i \in DOMAIN m_copyRequests : Card(m_copyRequests'[i]) = Card(m_copyRequests[i]),
           NEW s \in Seq(FrameType), Settled(s, m_copyRequests)
    PROVE  Settled(s, m_copyRequests')
<1> PICK q \in Seq(RequestType) : q = m_copyRequests
  BY DEF TypeOK
<1> PICK p \in Seq(RequestType) : p = m_copyRequests'
  OBVIOUS
<1>1. DOMAIN p = DOMAIN q /\ Len(p) >= Len(q)
  OBVIOUS
<1>2. \A i \in DOMAIN q : p[i].src = q[i].src /\ p[i].dst = q[i].dst
  BY <1>1 DEF Card
<1>. QED  BY <1>1, <1>2, SettledKept

\* Where only completions at once wait, it stays so as requests are cleared.
LEMMA SettledLess ==
    ASSUME NEW s \in Seq(FrameType), NEW q, NEW p,
           \A i \in DOMAIN s : ~ Slow(s[i]),
           \A j \in DOMAIN p : \E i \in DOMAIN q : p[j] = q[i],
           Settled(s, q)
    PROVE  Settled(s, p)
<1> SUFFICES ASSUME NEW i \in DOMAIN s, s[i].pc = "NotifyCompletion"
             PROVE  Finished(s[i], i = Len(s), p)
  BY DEF Settled
<1>1. Finished(s[i], i = Len(s), q) /\ Home(s[i].dst) \in AtOnce
  BY DEF Settled, Slow
<1>. QED  BY <1>1 DEF Finished, IsAbout

\* Only the outermost of the settled calls can be a slow one.
LEMMA SlowIsLast ==
    ASSUME NEW s \in Seq(FrameType), NEW q, Settled(s, q), NEW i \in DOMAIN s, Slow(s[i])
    PROVE  i = Len(s)
  BY DEF Settled, Slow, Finished

\* The innermost call and the ones that wait for it.
LEMMA Calls ==
    ASSUME TypeOK, stack # <<>>, Shape(stack)
    PROVE  LET h == Head(stack)
               t == Tail(stack)
           IN  /\ stack = Cons(h, t) /\ h \in FrameType /\ t \in Seq(FrameType)
               /\ Len(stack) = Len(t) + 1 /\ Len(t) \in Nat /\ (t = <<>> <=> Len(t) = 0)
               /\ Shape(t)
               /\ h.pc = "OnStopCopy" => t # <<>> /\ Head(t).pc = "NotifyCompletion"
               /\ h.pc # "OnStopCopy" /\ t # <<>> => Head(t).pc = "OnStopCopy"
               /\ stack[Len(stack)] = IF t = <<>> THEN h ELSE t[Len(t)]
<1> DEFINE h == Head(stack)
           t == Tail(stack)
<1>1. /\ stack = Cons(h, t) /\ h \in FrameType /\ t \in Seq(FrameType)
      /\ Len(stack) = Len(t) + 1 /\ Len(t) \in Nat /\ (t = <<>> <=> Len(t) = 0)
  BY StackIs DEF TypeOK
<1> HIDE DEF h, t
<1>2. /\ Shape(t)
      /\ h.pc = "OnStopCopy" => t # <<>> /\ Head(t).pc = "NotifyCompletion"
      /\ h.pc # "OnStopCopy" /\ t # <<>> => Head(t).pc = "OnStopCopy"
  <2>1. Shape(Cons(h, t))
    BY <1>1
  <2>2. Shape(Cons(h, t)) <=>
             /\ Shape(t)
             /\ IF h.pc = "OnStopCopy" THEN t # <<>> /\ Head(t).pc = "NotifyCompletion"
                                       ELSE t # <<>> => Head(t).pc = "OnStopCopy"
    BY <1>1, ShapeOf
  <2>. QED  BY <2>1, <2>2
<1>3. stack[Len(stack)] = IF t = <<>> THEN h ELSE t[Len(t)]
  <2>1. Cons(h, t)[Len(Cons(h, t))] = IF t = <<>> THEN h ELSE t[Len(t)]
    BY <1>1, StackOf
  <2>. QED  BY <1>1, <2>1
<1>. QED  BY <1>1, <1>2, <1>3 DEF h, t

\* A call that returns leaves the others as they were.
LEMMA ReturnStacked ==
    ASSUME TypeOK, Stacked, ~ Pending, stack # <<>>, stack' = Tail(stack),
           m_copyRequests' \in Seq(RequestType), Len(m_copyRequests') = Len(m_copyRequests),
           \A i \in DOMAIN m_copyRequests : Card(m_copyRequests'[i]) = Card(m_copyRequests[i]),
           Ready' \subseteq Ready, ~ Pending'
    PROVE  Stacked'
<1> DEFINE h == Head(stack)
           t == Tail(stack)
           q == m_copyRequests
<1>1. Shape(stack)
  BY DEF Stacked
<1>2. /\ stack = Cons(h, t) /\ h \in FrameType /\ t \in Seq(FrameType)
      /\ Len(stack) = Len(t) + 1 /\ Len(t) \in Nat /\ (t = <<>> <=> Len(t) = 0)
      /\ Shape(t)
      /\ h.pc = "OnStopCopy" => t # <<>> /\ Head(t).pc = "NotifyCompletion"
      /\ h.pc # "OnStopCopy" /\ t # <<>> => Head(t).pc = "OnStopCopy"
      /\ stack[Len(stack)] = IF t = <<>> THEN h ELSE t[Len(t)]
  BY <1>1, Calls
<1>3. Settled(t, m_copyRequests')
  <2>1. Settled(stack, q) /\ q \in Seq(RequestType)
    BY DEF Stacked, TypeOK
  <2> HIDE DEF h, t
  <2>2. Settled(t, q)
    <3>1. Settled(Cons(h, t), q) <=>
             /\ h.pc = "NotifyCompletion" => Finished(h, t = <<>>, q)
             /\ Settled(t, q)
      BY <1>2, SettledOf
    <3>. QED  BY <1>2, <2>1, <3>1
  <2>. QED  BY <1>2, <2>2, SettledSame
<1>4. Lone'
  <2> SUFFICES ASSUME t # <<>>, Slow(t[Len(t)])
               PROVE  /\ Len(t) <= 3
                      /\ Len(t) = 3 => Head(t).pc \in {"DoNextCopy", "Copy"}
                      /\ Head(t).pc = "Copy" => Head(t).dst \notin AtOnce
                      /\ Ready' \cap AtOnce = {}
    BY DEF Lone, Slow
  <2>1. Len(stack) <= 3 /\ Ready \cap AtOnce = {}
    BY <1>2 DEF Stacked, Lone
  <2>2. Head(t).pc # "Copy"
    BY <1>2
  <2> HIDE DEF h, t
  <2>3. Len(t) <= 2
    BY <1>2, <2>1
  <2>4. Len(t) <= 3 /\ Len(t) # 3
    <3>1. \A n \in Nat : n <= 2 => n <= 3 /\ n # 3
      OBVIOUS
    <3>. QED  BY <1>2, <2>3, <3>1, Zenon
  <2>. QED  BY <2>1, <2>2, <2>4
<1>. QED  BY <1>2, <1>3, <1>4 DEF Stacked

\* A call gives way to the one it ends with.
LEMMA ReplaceStacked ==
    ASSUME TypeOK, Stacked, ~ Pending, stack # <<>>, Head(stack).pc # "OnStopCopy",
           NEW f \in FrameType, f.pc \in {"DoNextCopy", "Copy"}, stack' = Cons(f, Tail(stack)),
           f.pc = "Copy" => f.dst \in Ready,
           m_copyRequests' \in Seq(RequestType), Len(m_copyRequests') = Len(m_copyRequests),
           \A i \in DOMAIN m_copyRequests : Card(m_copyRequests'[i]) = Card(m_copyRequests[i]),
           Ready' \subseteq Ready
    PROVE  Stacked'
<1> DEFINE h == Head(stack)
           t == Tail(stack)
           q == m_copyRequests
<1>1. Shape(stack)
  BY DEF Stacked
<1>2. /\ stack = Cons(h, t) /\ h \in FrameType /\ t \in Seq(FrameType)
      /\ Len(stack) = Len(t) + 1 /\ Len(t) \in Nat /\ (t = <<>> <=> Len(t) = 0)
      /\ Shape(t)
      /\ h.pc # "OnStopCopy" /\ t # <<>> => Head(t).pc = "OnStopCopy"
      /\ stack[Len(stack)] = IF t = <<>> THEN h ELSE t[Len(t)]
  BY <1>1, Calls
<1> PICK s : s = stack'
  OBVIOUS
<1> HIDE DEF h, t
<1>3. /\ s \in Seq(FrameType) /\ s # <<>> /\ Head(s) = f /\ Len(s) = Len(t) + 1
      /\ s[Len(s)] = IF t = <<>> THEN f ELSE t[Len(t)]
      /\ s = Cons(f, t)
  <2>1. s = Cons(f, t)
    BY DEF t
  <2>2. LET c == Cons(f, t)
        IN  /\ c \in Seq(FrameType) /\ c # <<>> /\ Head(c) = f /\ Len(c) = Len(t) + 1
            /\ c[Len(c)] = IF t = <<>> THEN f ELSE t[Len(t)]
    BY <1>2, StackOf
  <2>. QED  BY <2>1, <2>2
<1>4. Shape(s)
  BY <1>2, <1>3, ShapeOf DEF h
<1>5. Settled(s, m_copyRequests')
  <2>1. Settled(stack, q) /\ q \in Seq(RequestType)
    BY DEF Stacked, TypeOK
  <2>2. Settled(s, q)
    <3>1. Settled(Cons(h, t), q) <=>
             /\ h.pc = "NotifyCompletion" => Finished(h, t = <<>>, q)
             /\ Settled(t, q)
      BY <1>2, SettledOf
    <3>2. Settled(s, q) <=>
             /\ f.pc = "NotifyCompletion" => Finished(f, t = <<>>, q)
             /\ Settled(t, q)
      BY <1>2, <1>3, SettledOf
    <3>. QED  BY <1>2, <2>1, <3>1, <3>2
  <2>. QED  BY <1>3, <2>2, SettledSame
<1>6. Lone'
  <2> SUFFICES ASSUME Slow(s[Len(s)])
               PROVE  /\ Len(s) <= 3
                      /\ Len(s) = 3 => Head(s).pc \in {"DoNextCopy", "Copy"}
                      /\ Head(s).pc = "Copy" => Head(s).dst \notin AtOnce
                      /\ Ready' \cap AtOnce = {}
    BY DEF Lone, Slow
  <2>1. t # <<>> /\ s[Len(s)] = stack[Len(stack)]
    BY <1>2, <1>3 DEF Slow
  <2>2. Len(stack) <= 3 /\ Ready \cap AtOnce = {}
    BY <2>1 DEF Stacked, Lone
  <2>. QED  BY <1>2, <1>3, <2>2
<1>7. ~ Pending'
  BY <1>3 DEF Pending, Running
<1>. QED  BY <1>4, <1>5, <1>6, <1>7 DEF Stacked

-----------------------------------------------------------------------------
(* Counting.                                                                 *)

LEMMA AtMost ==
    ASSUME NEW R, IsFiniteSet(R), NEW S
    PROVE  /\ Cardinality(R) \in Nat
           /\ S \subseteq R => IsFiniteSet(S) /\ Cardinality(S) \in Nat
                               /\ Cardinality(S) <= Cardinality(R)
           /\ \A d : S \subseteq R \cup {d} => IsFiniteSet(S) /\ Cardinality(S) \in Nat
                                               /\ Cardinality(S) <= Cardinality(R) + 1
           /\ \A d \in R : S \subseteq R \ {d} => IsFiniteSet(S) /\ Cardinality(S) \in Nat
                                                  /\ Cardinality(S) <= Cardinality(R) - 1
<1>1. Cardinality(R) \in Nat
  BY FS_CardinalityType
<1>2. \A U : IsFiniteSet(U) /\ S \subseteq U =>
               IsFiniteSet(S) /\ Cardinality(S) \in Nat /\ Cardinality(S) <= Cardinality(U)
  BY FS_Subset, FS_CardinalityType
<1>3. ASSUME NEW d, S \subseteq R \cup {d}
      PROVE  /\ IsFiniteSet(S) /\ Cardinality(S) \in Nat
             /\ Cardinality(S) <= Cardinality(R) + 1
  <2>1. IsFiniteSet(R \cup {d})
        /\ Cardinality(R \cup {d}) = IF d \in R THEN Cardinality(R) ELSE Cardinality(R) + 1
    BY FS_AddElement, Zenon
  <2>. QED  BY <1>1, <1>2, <1>3, <2>1
<1>4. ASSUME NEW d \in R, S \subseteq R \ {d}
      PROVE  /\ IsFiniteSet(S) /\ Cardinality(S) \in Nat
             /\ Cardinality(S) <= Cardinality(R) - 1
  <2>1. IsFiniteSet(R \ {d}) /\ Cardinality(R \ {d}) = Cardinality(R) - 1
    BY FS_RemoveElement
  <2>. QED  BY <1>1, <1>2, <1>4, <2>1
<1>. QED  BY <1>1, <1>2, <1>3, <1>4

\* With no call to come, no destination waits.
LEMMA NothingReady ==
    ASSUME Enough, Weight = 0
    PROVE  Ready = {}
<1>1. Cardinality(Ready) \in Nat /\ IsFiniteSet(Ready)
  BY FS_CardinalityType DEF Enough
<1>2. Cardinality(Ready) = 0
  BY <1>1 DEF Enough
<1>. QED  BY <1>1, <1>2, FS_EmptySet

\* How the destinations with a copy to start change with the cards.
LEMMA ReadyMoves ==
    /\ Cards' = Cards /\ Going' = Going => Ready' = Ready
    /\ \A c \in Cards : Cards' = Cards /\ Going' = Going \cup {c.id} =>
                           Ready' \subseteq Ready \ {c.dst}
    /\ \A c : Cards' = Cards \cup {c} /\ Going' = Going =>
                /\ Ready' \subseteq Ready \cup {c.dst}
                /\ (\E d \in Cards : d.dst = c.dst) => Ready' \subseteq Ready
<1>1. Cards' = Cards /\ Going' = Going => Ready' = Ready
  BY DEF Ready
<1>2. ASSUME NEW c \in Cards, Cards' = Cards, Going' = Going \cup {c.id}
      PROVE  Ready' \subseteq Ready \ {c.dst}
  BY <1>2 DEF Ready
<1>3. ASSUME NEW c, Cards' = Cards \cup {c}, Going' = Going
      PROVE  /\ Ready' \subseteq Ready \cup {c.dst}
             /\ (\E d \in Cards : d.dst = c.dst) => Ready' \subseteq Ready
  BY <1>3 DEF Ready
<1>. QED  BY <1>1, <1>2, <1>3

\* Who answers stays the same while requests are only added.
LEMMA CopiesKept ==
    ASSUME Copies, Cards \subseteq Cards', Going' = Going, running' = running,
           ~ Running("Copy"), ~ Pending, ~ Running("Copy")', ~ Pending'
    PROVE  Copies'
<1>1. RunningIds' = RunningIds
  BY DEF RunningIds
<1>2. \A c \in running : \E card \in Cards' :
         /\ card.id = c.id /\ card.src = c.src /\ card.dst = c.dst
         /\ c.id \in Going /\ InPlace(c.place, card)
  BY DEF Copies
<1>3. \A id \in Going : id \in RunningIds
  BY DEF Copies
<1>. QED  BY <1>1, <1>2, <1>3 DEF Copies

-----------------------------------------------------------------------------
(* One step at a time.                                                       *)

Good == TypeOK /\ QueueInv /\ LineInv

\* A call that has not been counted for a completion.
LEMMA Weights ==
    /\ stack = <<>> => Weight = 0
    /\ Running("OnStopCopy") => Weight = Len(stack)
    /\ Running("Copy") \/ Pending => Weight = Len(stack) - 1
    /\ stack # <<>> /\ ~ Running("OnStopCopy") /\ ~ Running("Copy") /\ ~ Pending =>
         Weight = Len(stack) + 1
  BY DEF Weight, Running, Pending

\* A client asks for a copy between events.
LEMMA ClientCopiesKeeps ==
    ASSUME Restrained, Good, NEW o \in Offers, ClientCopies(o)
    PROVE  Requests' /\ CardsApart' /\ Stacked' /\ Copies' /\ Enough'
<1>1. /\ stack = <<>> /\ DoCopy(o) /\ running' = running
      /\ TypeOK /\ QueueInOrder /\ Requests /\ CardsApart /\ Copies /\ Enough
  BY DEF ClientCopies, EventLoop, Restrained, DoCopy, Good, LineInv, QueueInv
<1>2. PICK r \in RequestType : /\ r.dst = o.dst /\ Cards' = Cards \cup {Card(r)}
                               /\ Going' = Going /\ Requests' /\ CardsApart'
  BY <1>1, AppendMoves
<1>3. Card(r).dst = o.dst
  BY <1>2, CardOf
<1>4. Ready = {}
  BY <1>1, Weights, NothingReady
<1>5. CASE \E i \in DOMAIN m_copyRequests : Clashes(o, m_copyRequests[i])
  <2>1. stack' = <<>>
    BY <1>1, <1>5 DEF DoCopy
  <2>2. Ready' \subseteq Ready
    <3>1. PICK i \in DOMAIN m_copyRequests : m_copyRequests[i].dst = o.dst
      BY <1>5 DEF Clashes
    <3>2. Card(m_copyRequests[i]) \in Cards /\ Card(m_copyRequests[i]).dst = o.dst
      BY <1>1, <3>1, QueueCards, CardOf
    <3>. QED  BY <1>2, <1>3, <3>2, ReadyMoves
  <2>3. Ready' = {}
    BY <1>4, <2>2
  <2>4. ~ Pending' /\ ~ Running("Copy")'
    BY <2>1 DEF Pending, Running
  <2>5. Stacked'
    BY <2>1, <2>4 DEF Stacked, Shape, Settled, Lone
  <2>6. Enough'
    BY <2>1, <2>3, FS_EmptySet DEF Enough, Weight
  <2>7. Copies'
    BY <1>1, <1>2, <2>4, CopiesKept DEF Running, Pending
  <2>. QED  BY <1>2, <2>5, <2>6, <2>7
<1>6. CASE ~ \E i \in DOMAIN m_copyRequests : Clashes(o, m_copyRequests[i])
  <2>1. stack' = Cons(DoNextCopyCall, <<>>)
    BY <1>1, <1>6 DEF DoCopy, Call
  <2>2. /\ Len(stack') = 1 /\ Head(stack') = DoNextCopyCall /\ stack' # <<>>
        /\ stack'[1] = DoNextCopyCall /\ DOMAIN stack' = 1..1
    BY <2>1 DEF Cons
  <2>3. ~ Pending' /\ ~ Running("Copy")' /\ ~ Running("OnStopCopy")'
    BY <2>2 DEF Pending, Running, DoNextCopyCall
  <2>4. Stacked'
    BY <2>2, <2>3 DEF Stacked, Shape, Settled, Lone, Slow, DoNextCopyCall
  <2>5. Enough'
    <3>1. Ready' \subseteq Ready \cup {o.dst}
      BY <1>2, <1>3, ReadyMoves
    <3>2. Cardinality(Ready) = 0 /\ IsFiniteSet(Ready)
      BY <1>4, FS_EmptySet
    <3>3. IsFiniteSet(Ready') /\ Cardinality(Ready') \in Nat
          /\ Cardinality(Ready') <= Cardinality(Ready) + 1
      BY <3>1, <3>2, AtMost, Zenon
    <3>4. Weight' = 2
      BY <2>2, <2>3 DEF Weight
    <3>. QED  BY <3>2, <3>3, <3>4 DEF Enough
  <2>6. Copies'
    BY <1>1, <1>2, <2>3, CopiesKept DEF Running, Pending
  <2>. QED  BY <1>2, <2>4, <2>5, <2>6
<1>. QED  BY <1>5, <1>6

\* A listener returns to the loop of NotifyCompletion, which finds nothing more.
LEMMA ListenerReturnsKeeps ==
    ASSUME Restrained, Good, ListenerReturns
    PROVE  Requests' /\ CardsApart' /\ Stacked' /\ Copies' /\ Enough'
<1> DEFINE t == Tail(stack)
<1>1. /\ Running("OnStopCopy") /\ stack' = t /\ stack # <<>> /\ Head(stack).pc = "OnStopCopy"
      /\ m_copyRequests' = m_copyRequests /\ running' = running /\ starts' = starts
      /\ nextId' = nextId
      /\ TypeOK /\ Requests /\ CardsApart /\ Stacked /\ Copies /\ Enough /\ Shape(stack)
  BY DEF ListenerReturns, Return, Running, Good, LineInv, Stacked
<1>2. /\ stack = Cons(Head(stack), t) /\ Head(stack) \in FrameType /\ t \in Seq(FrameType)
      /\ Len(stack) = Len(t) + 1 /\ Len(t) \in Nat /\ (t = <<>> <=> Len(t) = 0)
      /\ t # <<>> /\ Head(t).pc = "NotifyCompletion" /\ Shape(t)
      /\ stack[Len(stack)] = t[Len(t)]
  BY <1>1, Calls
<1>3. ~ Pending /\ ~ Running("Copy") /\ ~ Running("NotifyCompletion")
  BY <1>1 DEF Pending, Running
<1>4. ~ Clears(Head(t))
  <2>1. Settled(t, m_copyRequests) /\ t = Cons(Head(t), Tail(t))
        /\ Head(t) \in FrameType /\ Tail(t) \in Seq(FrameType)
    <3>1. Settled(Cons(Head(stack), t), m_copyRequests)
      BY <1>1, <1>2, <1>3 DEF Stacked
    <3> HIDE DEF t
    <3>2. Settled(t, m_copyRequests)
      BY <1>2, <3>1, SettledOf
    <3>3. Head(t) \in FrameType /\ Tail(t) \in Seq(FrameType)
      BY <1>2
    <3>. QED  BY <1>2, <3>2, <3>3, StackIs
  <2>2. Finished(Head(t), Tail(t) = <<>>, m_copyRequests)
    <3>1. Settled(Cons(Head(t), Tail(t)), m_copyRequests) /\ Head(t).pc = "NotifyCompletion"
      BY <1>2, <2>1
    <3> HIDE DEF t
    <3>. QED  BY <2>1, <3>1, SettledOf
  <2>. QED  BY <1>1, <1>2, <2>1, <2>2, FinishedClearsNothing
<1>5. ~ Pending' /\ ~ Running("Copy")' /\ ~ Running("OnStopCopy")'
  <2>1. (~ Clears(Head(stack)))'
    BY <1>1, <1>4 DEF Clears, Considered, Hit
  <2>. QED  BY <1>1, <1>2, <2>1 DEF Pending, Running
<1>6. Cards' = Cards /\ Going' = Going
  BY <1>1 DEF Cards, Going
<1>7. Ready' = Ready
  BY <1>6, ReadyMoves
<1>8. Stacked'
  <2>1. m_copyRequests \in Seq(RequestType)
    BY <1>1 DEF TypeOK
  <2>. QED  BY <1>1, <1>3, <1>5, <1>7, <2>1, ReturnStacked
<1>9. Enough'
  <2>1. Weight = Len(t) + 1 /\ Weight' = Len(t) + 1
    BY <1>1, <1>2, <1>5, Weights DEF Weight
  <2>. QED  BY <1>1, <1>7, <2>1 DEF Enough
<1>10. Copies'
  BY <1>1, <1>3, <1>5, <1>6, CopiesKept
<1>11. Requests' /\ CardsApart'
  BY <1>1, <1>6 DEF Requests, CardsApart
<1>. QED  BY <1>8, <1>9, <1>10, <1>11

\* A listener asks for a copy, to a folder that is never done at once.
LEMMA ListenerCopiesKeeps ==
    ASSUME Restrained, Good, NEW o \in Offers, ListenerCopies(o)
    PROVE  Requests' /\ CardsApart' /\ Stacked' /\ Copies' /\ Enough'
<1> DEFINE q == m_copyRequests
<1>1. /\ stack # <<>> /\ Head(stack).pc = "OnStopCopy" /\ DoCopy(o) /\ running' = running
      /\ o.dst \notin AtOnce
      /\ TypeOK /\ QueueInOrder /\ Requests /\ CardsApart /\ Stacked /\ Copies /\ Enough
      /\ Shape(stack)
  BY DEF ListenerCopies, Running, Restrained, DoCopy, Good, LineInv, QueueInv, Stacked
<1>2. PICK r \in RequestType : /\ r.dst = o.dst /\ m_copyRequests' = Append(q, r)
                               /\ Cards' = Cards \cup {Card(r)}
                               /\ Going' = Going /\ Requests' /\ CardsApart'
  BY <1>1, AppendMoves
<1>3. Card(r).dst = o.dst
  BY <1>2, CardOf
<1>4. /\ stack \in Seq(FrameType) /\ Len(stack) \in Nat /\ Len(stack) > 0
      /\ q \in Seq(RequestType)
  BY <1>1 DEF TypeOK
<1>5. ~ Pending /\ ~ Running("Copy") /\ Running("OnStopCopy")
  BY <1>1 DEF Pending, Running
<1>6. Ready' \subseteq Ready \cup {o.dst}
  BY <1>2, <1>3, ReadyMoves
<1>7. Settled(stack, m_copyRequests')
  <2>1. PICK p \in Seq(RequestType) : p = m_copyRequests'
    BY <1>2, <1>4
  <2>2. /\ Len(p) = Len(q) + 1 /\ DOMAIN q = 1..Len(q) /\ DOMAIN p = 1..(Len(q) + 1)
        /\ Len(q) \in Nat
        /\ \A i \in 1..Len(q) : p[i] = q[i]
        /\ p[Len(q) + 1] = r
    BY <1>2, <1>4, <2>1
  <2>3. \A i \in DOMAIN p : i \in DOMAIN q \/ p[i].dst \notin AtOnce
    BY <1>1, <1>2, <2>2
  <2>4. Settled(stack, q)
    BY <1>1, <1>5 DEF Stacked
  <2> HIDE DEF q
  <2>5. Len(p) >= Len(q) /\ \A i \in DOMAIN q : p[i].src = q[i].src /\ p[i].dst = q[i].dst
    BY <2>2
  <2>. QED  BY <1>4, <2>1, <2>3, <2>4, <2>5, SettledKept
<1>8. Slow(stack[Len(stack)]) => /\ Len(stack) <= 2
                                 /\ Ready' \cap AtOnce = {}
  <2> SUFFICES ASSUME Slow(stack[Len(stack)])
               PROVE  Len(stack) <= 2 /\ Ready' \cap AtOnce = {}
    OBVIOUS
  <2>1. Len(stack) <= 3 /\ Len(stack) # 3 /\ Ready \cap AtOnce = {}
    BY <1>1 DEF Stacked, Lone
  <2>2. Ready' \cap AtOnce = {}
    BY <1>1, <1>6, <2>1
  <2>3. \A n \in Nat : n <= 3 /\ n # 3 => n <= 2
    OBVIOUS
  <2>. QED  BY <1>4, <2>1, <2>2, <2>3, Zenon
<1>9. CASE \E i \in DOMAIN q : Clashes(o, q[i])
  <2>1. stack' = stack
    BY <1>1, <1>9 DEF DoCopy
  <2>2. ~ Pending' /\ ~ Running("Copy")' /\ Running("OnStopCopy")'
    BY <1>1, <2>1 DEF Pending, Running
  <2>3. Ready' \subseteq Ready
    <3>1. PICK i \in DOMAIN q : q[i].dst = o.dst
      BY <1>9 DEF Clashes
    <3>2. Card(q[i]) \in Cards /\ Card(q[i]).dst = o.dst
      BY <1>1, <3>1, QueueCards, CardOf
    <3>. QED  BY <1>2, <1>3, <3>2, ReadyMoves
  <2>4. Lone'
    <3>1. \A n \in Nat : n <= 2 => n <= 3 /\ n # 3
      OBVIOUS
    <3>2. Slow(stack[Len(stack)]) =>
             Len(stack) <= 3 /\ Len(stack) # 3 /\ Ready' \cap AtOnce = {}
      BY <1>4, <1>8, <3>1, Zenon
    <3>. QED  BY <1>1, <2>1, <3>2 DEF Lone, Slow
  <2>5. Stacked'
    BY <1>1, <1>7, <2>1, <2>2, <2>4 DEF Stacked
  <2>6. Enough'
    <3>1. Weight' = Weight /\ Weight = Len(stack)
      BY <1>1, <2>1, <2>2, <1>5 DEF Weight
    <3>2. /\ IsFiniteSet(Ready) /\ Cardinality(Ready) \in Nat
          /\ IsFiniteSet(Ready') /\ Cardinality(Ready') \in Nat
          /\ Cardinality(Ready') <= Cardinality(Ready)
      BY <1>1, <2>3, AtMost, Zenon DEF Enough
    <3>. QED  BY <1>1, <1>4, <3>1, <3>2 DEF Enough
  <2>7. Copies'
    BY <1>1, <1>2, <1>5, <2>2, CopiesKept
  <2>. QED  BY <1>2, <2>5, <2>6, <2>7
<1>10. CASE ~ \E i \in DOMAIN q : Clashes(o, q[i])
  <2>1. PICK s : s = stack'
    OBVIOUS
  <2>2. s = Cons(DoNextCopyCall, stack) /\ DoNextCopyCall \in FrameType
    BY <1>1, <1>10, <2>1, Frames DEF DoCopy, Call
  <2>3. /\ s \in Seq(FrameType) /\ s # <<>> /\ Head(s) = DoNextCopyCall
        /\ Len(s) = Len(stack) + 1
        /\ s[Len(s)] = stack[Len(stack)]
    BY <1>1, <1>4, <2>2, StackOf
  <2>4. ~ Pending' /\ ~ Running("Copy")' /\ ~ Running("OnStopCopy")' /\ stack' # <<>>
    BY <2>1, <2>3 DEF Pending, Running, DoNextCopyCall
  <2>5. Shape(s)
    BY <1>1, <1>4, <2>2, ShapeOf DEF DoNextCopyCall
  <2>6. Settled(s, m_copyRequests')
    BY <1>4, <1>7, <2>2, SettledOf DEF DoNextCopyCall
  <2>7. Lone'
    <3>1. Head(s).pc = "DoNextCopy"
      BY <2>3 DEF DoNextCopyCall
    <3>2. Slow(s[Len(s)]) => Len(s) <= 3 /\ Ready' \cap AtOnce = {}
      BY <1>4, <1>8, <2>3
    <3>. QED  BY <2>1, <3>1, <3>2 DEF Lone, Slow
  <2>8. Enough'
    <3>1. Weight' = Len(stack) + 2 /\ Weight = Len(stack)
      BY <1>1, <1>4, <1>5, <2>1, <2>3, <2>4 DEF Weight
    <3>2. /\ IsFiniteSet(Ready) /\ Cardinality(Ready) \in Nat
          /\ IsFiniteSet(Ready') /\ Cardinality(Ready') \in Nat
          /\ Cardinality(Ready') <= Cardinality(Ready) + 1
      BY <1>1, <1>6, AtMost, Zenon DEF Enough
    <3>. QED  BY <1>1, <1>4, <3>1, <3>2 DEF Enough
  <2>9. Copies'
    BY <1>1, <1>2, <1>5, <2>4, CopiesKept
  <2>. QED  BY <1>2, <2>1, <2>4, <2>5, <2>6, <2>7, <2>8, <2>9 DEF Stacked
<1>. QED  BY <1>9, <1>10

\* A scan that finds nothing: no destination has a copy to start.
LEMMA DoNextCopyIdleKeeps ==
    ASSUME Restrained, Good, DoNextCopyIdle
    PROVE  Requests' /\ CardsApart' /\ Stacked' /\ Copies' /\ Enough'
<1> DEFINE t == Tail(stack)
<1>1. /\ stack' = t /\ stack # <<>> /\ Head(stack).pc = "DoNextCopy"
      /\ running' = running
      /\ TypeOK /\ QueueInOrder /\ Requests /\ CardsApart /\ Stacked /\ Copies /\ Enough
      /\ Shape(stack)
  BY DEF DoNextCopyIdle, Return, Running, Good, LineInv, QueueInv, Stacked
<1>2. /\ Len(stack) = Len(t) + 1 /\ Len(t) \in Nat /\ t \in Seq(FrameType)
      /\ t # <<>> => Head(t).pc = "OnStopCopy"
  BY <1>1, Calls
<1>3. /\ Cards' = Cards /\ Going' = Going /\ Requests' /\ Ready = {}
      /\ Len(m_copyRequests') = Len(m_copyRequests)
      /\ \A i \in DOMAIN m_copyRequests : Card(m_copyRequests'[i]) = Card(m_copyRequests[i])
  BY <1>1, IdleMoves
<1>4. ~ Pending /\ ~ Running("Copy") /\ ~ Pending' /\ ~ Running("Copy")'
  BY <1>1, <1>2 DEF Pending, Running
<1>5. Ready' = Ready
  BY <1>3, ReadyMoves
<1>6. Stacked'
  <2>1. m_copyRequests' \in Seq(RequestType)
    BY <1>1, MarkUnderwayType DEF TypeOK, DoNextCopyIdle
  <2>. QED  BY <1>1, <1>3, <1>4, <1>5, <2>1, ReturnStacked
<1>7. Enough'
  <2>1. Weight' \in Nat
    <3>1. t = <<>> => Weight' = 0
      BY <1>1 DEF Weight
    <3>2. t # <<>> => Weight' = Len(t)
      BY <1>1, <1>2 DEF Weight, Running
    <3>. QED  BY <1>2, <3>1, <3>2
  <2>2. IsFiniteSet(Ready') /\ Cardinality(Ready') = 0
    BY <1>3, <1>5, FS_EmptySet
  <2>. QED  BY <2>1, <2>2 DEF Enough
<1>8. Copies' /\ CardsApart'
  <2>1. CardsApart'
    BY <1>1, <1>3 DEF CardsApart
  <2>. QED  BY <1>1, <1>3, <1>4, <2>1, CopiesKept
<1>. QED  BY <1>3, <1>6, <1>7, <1>8

\* NotifyCompletion comes to its last line, DoNextCopy.
LEMMA NotifyEndsKeeps ==
    ASSUME Restrained, Good, NotifyEnds
    PROVE  Requests' /\ CardsApart' /\ Stacked' /\ Copies' /\ Enough'
<1> DEFINE t == Tail(stack)
<1>1. /\ stack' = Cons(DoNextCopyCall, t) /\ stack # <<>> /\ Head(stack).pc = "NotifyCompletion"
      /\ ~ Clears(Head(stack)) /\ m_copyRequests' = m_copyRequests
      /\ running' = running /\ starts' = starts /\ nextId' = nextId
      /\ TypeOK /\ Requests /\ CardsApart /\ Stacked /\ Copies /\ Enough
      /\ Shape(stack) /\ m_copyRequests \in Seq(RequestType) /\ DoNextCopyCall \in FrameType
  BY Frames DEF NotifyEnds, ReturnAndCall, Running, Good, LineInv, Stacked, TypeOK
<1>2. /\ Len(stack) = Len(t) + 1 /\ Len(t) \in Nat /\ t \in Seq(FrameType)
  BY <1>1, Calls
<1>3. /\ Len(stack') = Len(t) + 1 /\ stack' # <<>> /\ Head(stack') = DoNextCopyCall
  BY <1>1, <1>2, StackOf
<1>4. /\ ~ Pending /\ ~ Running("Copy") /\ ~ Running("OnStopCopy")
      /\ ~ Pending' /\ ~ Running("Copy")' /\ ~ Running("OnStopCopy")'
  BY <1>1, <1>3 DEF Pending, Running, DoNextCopyCall
<1>5. Cards' = Cards /\ Going' = Going
  BY <1>1 DEF Cards, Going
<1>6. Ready' = Ready
  BY <1>5, ReadyMoves
<1>7. Stacked'
  <2>1. DoNextCopyCall.pc = "DoNextCopy"
    BY DEF DoNextCopyCall
  <2>. QED  BY <1>1, <1>4, <1>6, <2>1, ReplaceStacked
<1>8. Enough'
  <2>1. Weight' = Weight
    BY <1>1, <1>2, <1>3, <1>4 DEF Weight
  <2>. QED  BY <1>1, <1>6, <2>1 DEF Enough
<1>9. Copies'
  BY <1>1, <1>4, <1>5, CopiesKept
<1>10. Requests' /\ CardsApart'
  BY <1>1, <1>5 DEF Requests, CardsApart
<1>. QED  BY <1>7, <1>8, <1>9, <1>10

\* The scan starts a copy: the call is that of the request's own folders.
LEMMA DoNextCopyStartsKeeps ==
    ASSUME Restrained, Good, DoNextCopyStarts
    PROVE  Requests' /\ CardsApart' /\ Stacked' /\ Copies' /\ Enough'
<1> DEFINE t == Tail(stack)
<1>1. /\ stack # <<>> /\ Head(stack).pc = "DoNextCopy" /\ running' = running
      /\ TypeOK /\ QueueInOrder /\ Requests /\ CardsApart /\ Stacked /\ Copies /\ Enough
      /\ Shape(stack)
  BY DEF DoNextCopyStarts, Running, Good, LineInv, QueueInv, Stacked
<1>2. /\ Len(stack) = Len(t) + 1 /\ Len(t) \in Nat /\ t \in Seq(FrameType)
  BY <1>1, Calls
<1>3. PICK c \in Cards :
        /\ c.id \notin Going /\ c.dst \in Ready
        /\ \A d \in Cards : d.dst = c.dst => c.id <= d.id
        /\ Cards' = Cards /\ Going' = Going \cup {c.id} /\ Requests'
        /\ Len(m_copyRequests') = Len(m_copyRequests)
        /\ \A i \in DOMAIN m_copyRequests : Card(m_copyRequests'[i]) = Card(m_copyRequests[i])
        /\ \E f \in FrameType : f.pc = "Copy" /\ Card(f) = c /\ stack' = Cons(f, t)
  BY <1>1, StartsMoves
<1>4. PICK f \in FrameType : f.pc = "Copy" /\ Card(f) = c /\ stack' = Cons(f, t)
  BY <1>3
<1>5. f.id = c.id /\ f.dst = c.dst
  BY <1>4 DEF Card
<1>6. /\ Len(stack') = Len(t) + 1 /\ stack' # <<>> /\ Head(stack') = f
  BY <1>2, <1>4, StackOf
<1>7. /\ ~ Pending /\ ~ Running("Copy") /\ ~ Running("OnStopCopy")
      /\ ~ Pending' /\ Running("Copy")' /\ ~ Running("OnStopCopy")'
  BY <1>1, <1>4, <1>6 DEF Pending, Running
<1>8. Ready' \subseteq Ready \ {c.dst}
  BY <1>3, ReadyMoves
<1>9. Stacked'
  <2>1. m_copyRequests' \in Seq(RequestType)
    BY <1>1, TypeNext DEF Next, Code, TypeOK
  <2>2. f.pc \in {"DoNextCopy", "Copy"} /\ f.dst \in Ready /\ Ready' \subseteq Ready
        /\ Head(stack).pc # "OnStopCopy"
    BY <1>1, <1>3, <1>4, <1>5, <1>8
  <2>. QED  BY <1>1, <1>3, <1>4, <1>7, <2>1, <2>2, ReplaceStacked
<1>10. Enough'
  <2>1. Weight = Len(t) + 2 /\ Weight' = Len(t)
    BY <1>1, <1>2, <1>6, <1>7 DEF Weight
  <2>2. /\ IsFiniteSet(Ready) /\ Cardinality(Ready) \in Nat
        /\ IsFiniteSet(Ready') /\ Cardinality(Ready') \in Nat
        /\ Cardinality(Ready') <= Cardinality(Ready) - 1
    BY <1>1, <1>3, <1>8, AtMost, Zenon DEF Enough
  <2>. QED  BY <1>1, <1>2, <2>1, <2>2 DEF Enough
<1>11. CardsApart'
  <2>1. \A a, d \in Cards : a.id = d.id => a = d
    BY <1>1 DEF CardsApart
  <2>2. \A a, d \in Cards : a.src = d.src /\ a.dst = d.dst => a = d
    BY <1>1 DEF CardsApart
  <2>3. ASSUME NEW a \in Cards, NEW d \in Cards, a.id \in Going \cup {c.id}, a.dst = d.dst
        PROVE  a.id <= d.id
    <3>1. CASE a.id \in Going
      BY <1>1, <2>3, <3>1 DEF CardsApart
    <3>2. CASE a.id = c.id
      <4>1. a = c
        BY <2>1, <3>2
      <4>. QED  BY <1>3, <2>3, <4>1
    <3>. QED  BY <2>3, <3>1, <3>2
  <2>. QED  BY <1>3, <2>1, <2>2, <2>3 DEF CardsApart
<1>12. Copies'
  <2>1. RunningIds' = RunningIds
    BY <1>1 DEF RunningIds
  <2>2. \A a \in running : \E card \in Cards :
           /\ card.id = a.id /\ card.src = a.src /\ card.dst = a.dst
           /\ a.id \in Going \cup {c.id} /\ InPlace(a.place, card)
    BY <1>1 DEF Copies
  <2>3. \A a, d \in running : a.id = d.id => a = d
    BY <1>1 DEF Copies
  <2>4. c.id \notin RunningIds
    BY <1>1, <1>3 DEF Copies, RunningIds
  <2>5. \A id \in Going : id \in RunningIds
    BY <1>1, <1>7 DEF Copies
  <2>6. Card(Head(stack')) \in Cards /\ Head(stack').id = c.id
    BY <1>3, <1>4, <1>5, <1>6
  <2>. QED  BY <1>1, <1>3, <1>7, <2>1, <2>2, <2>3, <2>4, <2>5, <2>6 DEF Copies
<1>. QED  BY <1>3, <1>9, <1>10, <1>11, <1>12

\* The folder takes the copy on.
LEMMA FolderAcceptsKeeps ==
    ASSUME Restrained, Good, FolderAccepts
    PROVE  Requests' /\ CardsApart' /\ Stacked' /\ Copies' /\ Enough'
<1> DEFINE t == Tail(stack)
           h == Head(stack)
<1>1. /\ stack' = t /\ stack # <<>> /\ h.pc = "Copy"
      /\ m_copyRequests' = m_copyRequests /\ starts' = starts /\ nextId' = nextId
      /\ TypeOK /\ QueueInOrder /\ Requests /\ CardsApart /\ Stacked /\ Copies /\ Enough
      /\ Shape(stack) /\ m_copyRequests \in Seq(RequestType)
  BY DEF FolderAccepts, Return, Running, Good, LineInv, QueueInv, Stacked, TypeOK
<1>2. /\ Len(stack) = Len(t) + 1 /\ Len(t) \in Nat /\ t \in Seq(FrameType)
      /\ t # <<>> => Head(t).pc = "OnStopCopy"
      /\ (t = <<>> <=> Len(t) = 0)
  BY <1>1, Calls
<1>3. /\ ~ Pending /\ Running("Copy") /\ ~ Running("OnStopCopy")
      /\ ~ Pending' /\ ~ Running("Copy")' /\ (t # <<>> => Running("OnStopCopy")')
  BY <1>1, <1>2 DEF Pending, Running
<1>4. Cards' = Cards /\ Going' = Going
  BY <1>1 DEF Cards, Going
<1>5. Ready' = Ready
  BY <1>4, ReadyMoves
<1>6. Stacked'
  BY <1>1, <1>3, <1>5, ReturnStacked
<1>7. Enough'
  <2>1. Weight = Len(t)
    BY <1>1, <1>2, <1>3 DEF Weight
  <2>2. Weight' = Len(t)
    <3>1. t = <<>> => Weight' = 0
      BY <1>1 DEF Weight
    <3>2. t # <<>> => Weight' = Len(t)
      BY <1>1, <1>3 DEF Weight
    <3>. QED  BY <1>2, <3>1, <3>2
  <2>. QED  BY <1>1, <1>5, <2>1, <2>2 DEF Enough
<1>8. Copies'
  <2>1. PICK p \in LaterPlaces(h) :
               running' = running \cup {[id |-> h.id, src |-> h.src, dst |-> h.dst, place |-> p]}
    BY DEF FolderAccepts
  <2>2. PICK new : new = [id |-> h.id, src |-> h.src, dst |-> h.dst, place |-> p]
    OBVIOUS
  <2>3. /\ running' = running \cup {new}
        /\ new.id = h.id /\ new.src = h.src /\ new.dst = h.dst /\ new.place = p
    BY <2>1, <2>2
  <2>4. /\ Card(h) \in Cards /\ h.id \in Going /\ h.id \notin RunningIds
        /\ \A id \in Going : id \in RunningIds \/ id = h.id
        /\ \A c, d \in running : c.id = d.id => c = d
        /\ \A c \in running : \E card \in Cards :
             /\ card.id = c.id /\ card.src = c.src /\ card.dst = c.dst
             /\ c.id \in Going /\ InPlace(c.place, card)
    BY <1>1, <1>3 DEF Copies
  <2>5. /\ Card(h).id = h.id /\ Card(h).src = h.src /\ Card(h).dst = h.dst
        /\ InPlace(p, Card(h))
    BY <2>1 DEF Card, InPlace, LaterPlaces
  <2> HIDE DEF h
  <2>6. RunningIds' = RunningIds \cup {h.id}
    BY <2>3 DEF RunningIds
  <2>7. \A c \in running : c.id # h.id
    BY <2>4 DEF RunningIds
  <2>8. \A c, d \in running' : c.id = d.id => c = d
    BY <2>3, <2>4, <2>7
  <2>9. \A c \in running' : \E card \in Cards :
             /\ card.id = c.id /\ card.src = c.src /\ card.dst = c.dst
             /\ c.id \in Going /\ InPlace(c.place, card)
    BY <2>3, <2>4, <2>5
  <2>. QED  BY <1>3, <1>4, <2>4, <2>6, <2>8, <2>9 DEF Copies
<1>9. Requests' /\ CardsApart'
  BY <1>1, <1>4 DEF Requests, CardsApart
<1>. QED  BY <1>6, <1>7, <1>8, <1>9

\* A completion in the right place finds the request it ends, which is under way.
LEMMA CompletionFinds ==
    ASSUME Restrained, TypeOK, QueueInOrder, CardsApart,
           NEW card \in Cards, card.id \in Going, NEW p \in Places, InPlace(p, card),
           NEW rv, stack' # <<>>, m_copyRequests' = m_copyRequests,
           Head(stack') = NotifyCall(card.src, p, rv, Len(m_copyRequests))
    PROVE  Pending' /\ Owed' = card.id /\ Home(p) = card.dst
<1> DEFINE q == m_copyRequests
           h == FindRequest(q, card.src, p)
<1>1. PICK f : f = Head(stack')
  OBVIOUS
<1>2. /\ f.pc = "NotifyCompletion" /\ f.src = card.src /\ f.dst = p /\ f.rv = rv
      /\ f.orig = Len(q)
  BY <1>1 DEF NotifyCall
<1>3. h \in DOMAIN q /\ Card(q[h]) = card /\ Home(p) = card.dst
  BY HitIs
<1>4. q \in Seq(RequestType) /\ h # 0 /\ h <= Len(q)
  BY <1>3 DEF TypeOK
<1>5. Hit(f)' = h
  BY <1>2 DEF Hit
<1>6. q[h].id = card.id
  BY <1>3, <1>4, QueueCards, CardOf
<1>7. Underway(q[h])
  BY <1>3, <1>6, QueueCards
<1> HIDE DEF h
<1>8. Clears(f)'
  BY <1>2, <1>4, <1>5, <1>7 DEF Clears, Considered, Underway
<1>9. Pending'
  BY <1>1, <1>2, <1>8 DEF Pending, Running
<1>10. Owed' = card.id
  BY <1>1, <1>5, <1>6 DEF Owed
<1>. QED  BY <1>3, <1>9, <1>10

\* The folder reports before it returns.
LEMMA FolderCompletesAtOnceKeeps ==
    ASSUME Restrained, Good, FolderCompletesAtOnce
    PROVE  Requests' /\ CardsApart' /\ Stacked' /\ Copies' /\ Enough'
<1> DEFINE t == Tail(stack)
           h == Head(stack)
           q == m_copyRequests
<1>1. /\ stack # <<>> /\ h.pc = "Copy" /\ h.dst \in AtOnce
      /\ q' = q /\ running' = running /\ starts' = starts /\ nextId' = nextId
      /\ TypeOK /\ QueueInOrder /\ Requests /\ CardsApart /\ Stacked /\ Copies /\ Enough
      /\ Shape(stack) /\ q \in Seq(RequestType) /\ Len(q) \in Nat
  BY DEF FolderCompletesAtOnce, Running, Good, LineInv, QueueInv, Stacked, TypeOK
<1>2. /\ stack = Cons(h, t) /\ h \in FrameType /\ t \in Seq(FrameType)
      /\ Len(stack) = Len(t) + 1 /\ Len(t) \in Nat /\ (t = <<>> <=> Len(t) = 0)
      /\ Shape(t) /\ (t # <<>> => Head(t).pc = "OnStopCopy")
      /\ stack[Len(stack)] = IF t = <<>> THEN h ELSE t[Len(t)]
  BY <1>1, Calls
<1>3. PICK p \in PlacesAtOnce(h), rv \in Outcomes :
        /\ verdict' = [verdict EXCEPT ![h.id] = rv]
        /\ stack' = Cons(NotifyCall(h.src, p, rv, Len(q)), t)
  BY DEF FolderCompletesAtOnce, ReturnAndCall
<1>4. /\ ~ Pending /\ Running("Copy") /\ ~ Running("OnStopCopy")
  BY <1>1 DEF Pending, Running
<1>5. /\ h.id \in Ids /\ h.src \in Srcs /\ h.dst \in Dsts /\ h.name \in Names /\ rv \in Results
  BY <1>1, <1>4, CopyFrame DEF Outcomes, Results
<1>6. PICK card : card = Card(h)
  OBVIOUS
<1>7. /\ card \in Cards /\ card.id = h.id /\ card.src = h.src /\ card.dst = h.dst
      /\ card.id \in Going /\ card.id \notin RunningIds
      /\ \A id \in Going : id \in RunningIds \/ id = card.id
      /\ \A c, d \in running : c.id = d.id => c = d
      /\ \A c \in running : \E e \in Cards :
             /\ e.id = c.id /\ e.src = c.src /\ e.dst = c.dst
             /\ c.id \in Going /\ InPlace(c.place, e)
  BY <1>1, <1>4, <1>6 DEF Copies, Card
<1>8. p \in Places /\ InPlace(p, card)
  <2>1. p \in Places
    BY <1>5, PlacesKnown
  <2>2. InPlace(p, card)
    BY <1>5, <1>6 DEF PlacesAtOnce, InPlace, Card, Restrained
  <2>. QED  BY <2>1, <2>2
<1>9. PICK f \in FrameType : f = NotifyCall(h.src, p, rv, Len(q))
  BY <1>1, <1>5, <1>8, Frames
<1> PICK s : s = stack'
  OBVIOUS
<1> HIDE DEF h, t
<1>10. /\ s = Cons(f, t) /\ s \in Seq(FrameType) /\ s # <<>> /\ Head(s) = f /\ Tail(s) = t
       /\ Len(s) = Len(t) + 1
       /\ s[Len(s)] = IF t = <<>> THEN f ELSE t[Len(t)]
  <2>1. s = Cons(f, t)
    BY <1>3, <1>9
  <2>2. LET c == Cons(f, t)
        IN  /\ c \in Seq(FrameType) /\ c # <<>> /\ Head(c) = f /\ Tail(c) = t
            /\ Len(c) = Len(t) + 1
            /\ c[Len(c)] = IF t = <<>> THEN f ELSE t[Len(t)]
    BY <1>2, StackOf
  <2>. QED  BY <2>1, <2>2
<1>11. /\ f.pc = "NotifyCompletion" /\ f.dst = p /\ f.rv = rv /\ f.orig = Len(q)
  BY <1>9 DEF NotifyCall
<1>12. Pending' /\ Owed' = card.id /\ Home(p) = card.dst
  <2>1. /\ stack' # <<>> /\ m_copyRequests' = m_copyRequests
        /\ Head(stack') = NotifyCall(card.src, p, rv, Len(m_copyRequests))
    BY <1>1, <1>7, <1>9, <1>10
  <2>. QED  BY <1>1, <1>7, <1>8, <2>1, CompletionFinds
<1>13. ~ Running("Copy")' /\ ~ Running("OnStopCopy")'
  BY <1>10, <1>11 DEF Running
<1>14. Cards' = Cards /\ Going' = Going
  BY <1>1 DEF Cards, Going
<1>15. Ready' = Ready
  BY <1>14, ReadyMoves
<1>16. Stacked'
  <2>1. Shape(s)
    BY <1>2, <1>10, <1>11, ShapeOf
  <2>2. Settled(t, q)
    <3>1. Settled(Cons(h, t), q)
      BY <1>1, <1>2, <1>4 DEF Stacked
    <3>. QED  BY <1>2, <3>1, SettledOf
  <2>3. ~ Slow(f)
    BY <1>1, <1>7, <1>11, <1>12 DEF Slow
  <2>4. Lone'
    <3> SUFFICES ASSUME Slow(s[Len(s)]) PROVE FALSE
      BY DEF Lone, Slow
    <3>1. stack[Len(stack)] = s[Len(s)]
      BY <1>2, <1>10, <2>3
    <3>2. Head(stack).pc = "Copy" /\ Head(stack).dst \in AtOnce
      BY <1>1 DEF h
    <3>. QED  BY <1>1, <3>1, <3>2 DEF Stacked, Lone
  <2>. QED  BY <1>1, <1>10, <1>12, <2>1, <2>2, <2>3, <2>4 DEF Stacked, Slow
<1>17. Enough'
  <2>1. Weight = Len(t)
    BY <1>1, <1>2, <1>4 DEF Weight
  <2>2. Weight' = Len(t)
    BY <1>2, <1>10, <1>12, <1>13 DEF Weight
  <2>. QED  BY <1>1, <1>15, <2>1, <2>2 DEF Enough
<1>18. Copies'
  <2>1. RunningIds' = RunningIds
    BY <1>1 DEF RunningIds
  <2>2. verdict'[card.id] = rv
    BY <1>1, <1>3, <1>5, <1>7 DEF TypeOK
  <2>3. Head(stack').rv = rv /\ Head(stack').orig = Len(q)
    BY <1>10, <1>11
  <2>. QED  BY <1>1, <1>7, <1>12, <1>13, <1>14, <2>1, <2>2, <2>3 DEF Copies
<1>19. Requests' /\ CardsApart'
  BY <1>1, <1>14 DEF Requests, CardsApart
<1>. QED  BY <1>16, <1>17, <1>18, <1>19

\* A copy that was running ends, between events.
LEMMA FolderCompletesKeeps ==
    ASSUME Restrained, Good, NEW copy \in running, FolderCompletes(copy)
    PROVE  Requests' /\ CardsApart' /\ Stacked' /\ Copies' /\ Enough'
<1> DEFINE q == m_copyRequests
<1>1. /\ stack = <<>> /\ copy \in CopyType
      /\ q' = q /\ running' = running \ {copy} /\ starts' = starts /\ nextId' = nextId
      /\ TypeOK /\ QueueInOrder /\ Requests /\ CardsApart /\ Stacked /\ Copies /\ Enough
      /\ q \in Seq(RequestType) /\ Len(q) \in Nat
  BY DEF FolderCompletes, EventLoop, Restrained, Running, Good, LineInv, QueueInv, TypeOK
<1>2. PICK rv \in Outcomes :
        /\ verdict' = [verdict EXCEPT ![copy.id] = rv]
        /\ stack' = Cons(NotifyCall(copy.src, copy.place, rv, Len(q)), <<>>)
  BY <1>1 DEF FolderCompletes, Call
<1>3. /\ \A id \in Going : id \in RunningIds
      /\ \A c, d \in running : c.id = d.id => c = d
      /\ \A c \in running : \E e \in Cards :
             /\ e.id = c.id /\ e.src = c.src /\ e.dst = c.dst
             /\ c.id \in Going /\ InPlace(c.place, e)
  BY <1>1 DEF Copies, Running, Pending
<1>4. PICK card \in Cards :
             /\ card.id = copy.id /\ card.src = copy.src /\ card.dst = copy.dst
             /\ card.id \in Going /\ InPlace(copy.place, card)
  BY <1>3
<1>5. /\ copy.place \in Places /\ copy.src \in Srcs /\ copy.id \in Ids /\ rv \in Results
  BY <1>1 DEF CopyType, Outcomes, Results
<1>6. PICK f \in FrameType : f = NotifyCall(copy.src, copy.place, rv, Len(q))
  BY <1>1, <1>5, Frames
<1>7. /\ stack' # <<>> /\ Head(stack') = f /\ Tail(stack') = <<>> /\ Len(stack') = 1
      /\ stack'[1] = f /\ DOMAIN stack' = 1..1
  BY <1>2, <1>6 DEF Cons
<1>8. f.pc = "NotifyCompletion" /\ f.rv = rv /\ f.orig = Len(q)
  BY <1>6 DEF NotifyCall
<1>9. Pending' /\ Owed' = card.id
  BY <1>1, <1>4, <1>5, <1>6, <1>7, CompletionFinds
<1>10. ~ Running("Copy")' /\ ~ Running("OnStopCopy")'
  BY <1>7, <1>8 DEF Running
<1>11. Cards' = Cards /\ Going' = Going
  BY <1>1 DEF Cards, Going
<1>12. Ready' = {} /\ Ready = {}
  BY <1>1, <1>11, Weights, NothingReady, ReadyMoves
<1>13. Stacked'
  <2>1. Shape(stack')
    BY <1>7, <1>8 DEF Shape
  <2>2. Settled(<<>>, q)
    BY DEF Settled
  <2>3. Lone'
    BY <1>7, <1>8, <1>12 DEF Lone
  <2>. QED  BY <1>1, <1>7, <1>9, <2>1, <2>2, <2>3 DEF Stacked
<1>14. Enough'
  <2>1. Weight' = 0
    BY <1>7, <1>9, <1>10 DEF Weight
  <2>. QED  BY <1>12, <2>1, FS_EmptySet DEF Enough
<1>15. Copies'
  <2>1. RunningIds' = RunningIds \ {card.id}
    BY <1>1, <1>3, <1>4 DEF RunningIds
  <2>2. verdict'[card.id] = rv
    BY <1>1, <1>2, <1>4, <1>5 DEF TypeOK
  <2>3. Head(stack').rv = rv /\ Head(stack').orig = Len(q)
    BY <1>7, <1>8
  <2>4. \A c \in running' : \E e \in Cards :
             /\ e.id = c.id /\ e.src = c.src /\ e.dst = c.dst
             /\ c.id \in Going /\ InPlace(c.place, e)
    BY <1>1, <1>3
  <2>5. \A c, d \in running' : c.id = d.id => c = d
    BY <1>1, <1>3
  <2>. QED  BY <1>1, <1>3, <1>4, <1>9, <1>10, <1>11, <2>1, <2>2, <2>3, <2>4, <2>5 DEF Copies
<1>16. Requests' /\ CardsApart'
  BY <1>1, <1>11 DEF Requests, CardsApart
<1>. QED  BY <1>13, <1>14, <1>15, <1>16

\* The request a completion is for leaves the queue, and its listener is told.
LEMMA NotifyClearsKeeps ==
    ASSUME Restrained, Good, NotifyClears
    PROVE  Requests' /\ CardsApart' /\ Stacked' /\ Copies' /\ Enough'
<1> DEFINE t == Tail(stack)
           f == Head(stack)
           q == m_copyRequests
           h == Hit(f)
           id == q[h].id
           card == Card(q[h])
<1>1. /\ stack # <<>> /\ f.pc = "NotifyCompletion" /\ Clears(f) /\ Pending
      /\ m_copyRequests' = RemoveAt(q, h)
      /\ stack' = Cons(OnStopCopyCall(id), Cons([f EXCEPT !.orig = @ - 1], t))
      /\ running' = running /\ starts' = starts /\ nextId' = nextId /\ verdict' = verdict
      /\ TypeOK /\ QueueInOrder /\ Requests /\ CardsApart /\ Stacked /\ Copies /\ Enough
      /\ Shape(stack) /\ q \in Seq(RequestType) /\ Len(q) \in Nat
  BY DEF NotifyClears, ClearRequest, Running, Pending, Good, LineInv, QueueInv, Stacked, TypeOK
<1>2. /\ stack = Cons(f, t) /\ f \in FrameType /\ t \in Seq(FrameType)
      /\ Len(stack) = Len(t) + 1 /\ Len(t) \in Nat /\ (t = <<>> <=> Len(t) = 0)
      /\ Shape(t) /\ (t # <<>> => Head(t).pc = "OnStopCopy")
      /\ stack[Len(stack)] = IF t = <<>> THEN f ELSE t[Len(t)]
  BY <1>1, Calls
<1>3. /\ h \in DOMAIN q /\ h # 0 /\ h <= f.orig /\ q[h].src = f.src /\ q[h].dst = Home(f.dst)
  BY <1>1, HitAbout DEF Clears, Considered, Hit
<1>4. /\ q[h] \in RequestType /\ card \in Cards /\ id \in Ids
      /\ card.id = id /\ card.src = f.src /\ card.dst = Home(f.dst)
  BY <1>1, <1>3, QueueCards, CardOf DEF RequestType
<1>5. /\ id \in Going /\ id \notin RunningIds /\ verdict[id] = f.rv /\ f.orig = Len(q)
      /\ \A x \in Going : x \in RunningIds \/ x = id
      /\ \A c, d \in running : c.id = d.id => c = d
      /\ \A c \in running : \E e \in Cards :
             /\ e.id = c.id /\ e.src = c.src /\ e.dst = c.dst
             /\ c.id \in Going /\ InPlace(c.place, e)
  BY <1>1 DEF Copies, Owed, Running
<1>6. PICK p : p = m_copyRequests'
  OBVIOUS
<1>7. /\ Cards' = Cards \ {card} /\ Going' = Going \ {id} /\ Requests' /\ CardsApart'
      /\ Len(p) = Len(q) - 1
      /\ \A j \in DOMAIN p : \E i \in DOMAIN q \ {h} : p[j] = q[i]
  BY <1>1, <1>3, <1>6, ClearMoves
<1> PICK g : g = [f EXCEPT !.orig = @ - 1]
  OBVIOUS
<1>8. /\ g \in FrameType /\ g.pc = "NotifyCompletion" /\ g.dst = f.dst /\ g.src = f.src
      /\ g.orig = Len(q) - 1
  <2>1. f \in [pc : {"NotifyCompletion"}, src : Srcs, dst : Places, rv : Results, orig : Nat]
    BY <1>1, NotifyFrame DEF Running
  <2>2. Len(q) - 1 \in Nat
    BY <1>1, <1>3
  <2>3. g \in [pc : {"NotifyCompletion"}, src : Srcs, dst : Places, rv : Results, orig : Nat]
    BY <1>5, <2>1, <2>2
  <2>. QED  BY <1>5, <2>1, <2>3 DEF FrameType
<1> PICK e : e = OnStopCopyCall(id)
  OBVIOUS
<1>9. e \in FrameType /\ e.pc = "OnStopCopy"
  BY <1>4, Frames DEF OnStopCopyCall
<1> PICK s : s = stack'
  OBVIOUS
<1>10. s = Cons(e, Cons(g, t))
  BY <1>1
<1> HIDE DEF f, t, h, q
<1>11. PICK u : u = Cons(g, t)
  OBVIOUS
<1>12. /\ u \in Seq(FrameType) /\ u # <<>> /\ Head(u) = g /\ Len(u) = Len(t) + 1
       /\ u[Len(u)] = IF t = <<>> THEN g ELSE t[Len(t)]
  <2>1. LET c == Cons(g, t)
        IN  /\ c \in Seq(FrameType) /\ c # <<>> /\ Head(c) = g /\ Len(c) = Len(t) + 1
            /\ c[Len(c)] = IF t = <<>> THEN g ELSE t[Len(t)]
    BY <1>2, <1>8, StackOf
  <2>. QED  BY <1>11, <2>1
<1>13. /\ s = Cons(e, u) /\ s # <<>> /\ Head(s) = e /\ Len(s) = Len(t) + 2
       /\ s[Len(s)] = u[Len(u)]
  <2>1. s = Cons(e, u)
    BY <1>10, <1>11
  <2>2. LET c == Cons(e, u)
        IN  /\ c # <<>> /\ Head(c) = e /\ Len(c) = Len(u) + 1
            /\ c[Len(c)] = IF u = <<>> THEN e ELSE u[Len(u)]
    BY <1>9, <1>12, StackOf
  <2>. QED  BY <1>2, <1>12, <2>1, <2>2
<1>14. ~ Pending' /\ ~ Running("Copy")' /\ Running("OnStopCopy")'
  BY <1>9, <1>13 DEF Pending, Running
<1>15. /\ Settled(t, q) /\ (Slow(f) => Len(stack) = 1)
  BY <1>1 DEF Stacked, t, f, q
<1>16. t # <<>> => ~ Slow(t[Len(t)])
  <2> SUFFICES ASSUME t # <<>>, Slow(t[Len(t)]) PROVE FALSE
    OBVIOUS
  <2>1. Slow(stack[Len(stack)]) /\ stack # <<>>
    BY <1>1, <1>2
  <2>2. Len(stack) <= 3 /\ (Len(stack) = 3 => f.pc \in {"DoNextCopy", "Copy"})
    BY <1>1, <2>1 DEF Stacked, Lone, f
  <2>3. Len(t) = 1
    <3>1. \A n \in Nat : n # 0 /\ n + 1 <= 3 /\ n + 1 # 3 => n = 1
      OBVIOUS
    <3>2. Len(stack) # 3
      BY <1>1, <2>2
    <3>. QED  BY <1>2, <2>2, <3>1, <3>2
  <2>4. t[Len(t)] = Head(t)
    BY <1>2, <2>3
  <2>. QED  BY <1>2, <2>4 DEF Slow
<1>17. \A i \in DOMAIN t : ~ Slow(t[i])
  <2>1. \A i \in DOMAIN t : Slow(t[i]) => i = Len(t)
    BY <1>2, <1>15, SlowIsLast
  <2>2. t = <<>> => DOMAIN t = {}
    OBVIOUS
  <2>. QED  BY <1>16, <2>1, <2>2
<1>18. Ready' \subseteq Ready \cup {Home(f.dst)}
  <2> SUFFICES ASSUME NEW d \in Ready', d # Home(f.dst) PROVE d \in Ready
    OBVIOUS
  <2> HIDE DEF card, id
  <2>1. /\ d \in Dsts /\ \E c \in Cards \ {card} : c.dst = d
        /\ \A c \in Cards \ {card} : c.dst = d => c.id \notin Going \ {id}
    BY <1>7 DEF Ready
  <2>2. \A c \in Cards : c.dst = d => c # card /\ c.id # id
    BY <1>1, <1>4 DEF CardsApart
  <2>. QED  BY <2>1, <2>2 DEF Ready
<1>19. Finished(g, t = <<>>, p)
  <2>1. \A j \in DOMAIN p : ~ IsAbout(g, p[j])
    <3> SUFFICES ASSUME NEW j \in DOMAIN p, IsAbout(g, p[j]) PROVE FALSE
      OBVIOUS
    <3>1. PICK i \in DOMAIN q \ {h} : p[j] = q[i]
      BY <1>7
    <3>2. q[i].src = f.src /\ q[i].dst = Home(f.dst)
      BY <1>8, <3>1 DEF IsAbout
    <3>3. Card(q[i]) \in Cards /\ Card(q[i]).src = f.src /\ Card(q[i]).dst = Home(f.dst)
          /\ Card(q[i]).id = q[i].id
      BY <1>1, <3>1, <3>2, QueueCards, CardOf DEF q
    <3>4. Card(q[i]) = card
      BY <1>1, <1>4, <3>3 DEF CardsApart
    <3>. QED  BY <1>1, <1>3, <1>4, <3>1, <3>3, <3>4, QueueCards DEF q
  <2>2. CASE Home(f.dst) \in AtOnce
    BY <1>8, <2>1, <2>2 DEF Finished
  <2>3. CASE Home(f.dst) \notin AtOnce
    <3>1. Slow(f)
      BY <1>1, <2>3 DEF Slow
    <3>2. t = <<>>
      BY <1>2, <1>15, <3>1
    <3>3. p \in Seq(RequestType)
      BY <1>1, <1>3, <1>6, RemoveAtProperties DEF q
    <3>4. g.orig <= Len(p) /\ \A j \in 1..g.orig : j \in DOMAIN p
      BY <1>7, <1>8, <3>3
    <3>. QED  BY <1>8, <2>1, <2>3, <3>2, <3>4 DEF Finished
  <2>. QED  BY <2>2, <2>3
<1>20. Settled(s, p)
  <2>1. Settled(t, p)
    BY <1>2, <1>7, <1>15, <1>17, SettledLess
  <2>2. Settled(u, p)
    BY <1>2, <1>8, <1>11, <1>19, <2>1, SettledOf
  <2>. QED  BY <1>9, <1>12, <1>13, <2>2, SettledOf
<1>21. Shape(s)
  <2>1. Shape(u)
    BY <1>2, <1>8, <1>11, ShapeOf
  <2>2. u \in Seq(FrameType) /\ u # <<>> /\ Head(u).pc = "NotifyCompletion"
    BY <1>8, <1>12
  <2>3. Shape(Cons(e, u))
    BY <1>9, <2>1, <2>2, ShapeOf
  <2>. QED  BY <1>13, <2>3
<1>22. Lone'
  <2> SUFFICES ASSUME Slow(s[Len(s)])
               PROVE  Len(s) = 2 /\ Ready' \cap AtOnce = {}
    BY <1>9, <1>13 DEF Lone, Slow
  <2>1. t = <<>> /\ Slow(g)
    BY <1>12, <1>13, <1>16
  <2>2. Slow(f) /\ Home(f.dst) \notin AtOnce
    BY <1>1, <1>8, <2>1 DEF Slow
  <2>3. Ready \cap AtOnce = {}
    BY <1>1, <1>2, <2>1, <2>2 DEF Stacked, Lone
  <2>. QED  BY <1>2, <1>13, <1>18, <2>1, <2>2, <2>3
<1>23. Stacked'
  BY <1>6, <1>14, <1>20, <1>21, <1>22 DEF Stacked
<1>24. Enough'
  <2>1. Weight = Len(t)
    BY <1>1, <1>2 DEF Weight, Running, f
  <2>2. Weight' = Len(t) + 2
    BY <1>13, <1>14 DEF Weight
  <2>3. /\ IsFiniteSet(Ready) /\ Cardinality(Ready) \in Nat
        /\ IsFiniteSet(Ready') /\ Cardinality(Ready') \in Nat
        /\ Cardinality(Ready') <= Cardinality(Ready) + 1
    BY <1>1, <1>18, AtMost, Zenon DEF Enough
  <2>. QED  BY <1>1, <1>2, <2>1, <2>2, <2>3 DEF Enough
<1>25. Copies'
  <2>1. RunningIds' = RunningIds
    BY <1>1 DEF RunningIds
  <2> HIDE DEF card, id
  <2>2. \A x \in Going \ {id} : x \in RunningIds
    BY <1>5
  <2>3. \A c \in running : \E d \in Cards \ {card} :
             /\ d.id = c.id /\ d.src = c.src /\ d.dst = c.dst
             /\ c.id \in Going \ {id} /\ InPlace(c.place, d)
    <3>1. \A c \in running : c.id # id
      BY <1>5 DEF RunningIds
    <3>. QED  BY <1>4, <1>5, <3>1
  <2>. QED  BY <1>1, <1>5, <1>7, <1>14, <2>1, <2>2, <2>3 DEF Copies
<1>. QED  BY <1>7, <1>23, <1>24, <1>25

\* What a listener is told is what its folder said.
LEMMA StopMatchesStep ==
    ASSUME Restrained, Good, [Next]_vars
    PROVE  StopMatchesVerdict'
<1> USE DEF StopMatchesVerdict
<1>1. TypeOK /\ QueueInv /\ QueueInOrder /\ CardsApart /\ Copies /\ StopMatchesVerdict
  BY DEF Good, LineInv, QueueInv
<1>2. CASE stopped' = stopped /\ verdict' = verdict
  BY <1>1, <1>2
\* Going is about queued requests, whose listeners have been told nothing yet.
<1>3. \A id \in Going : id \in Ids /\ stopped[id] = "none"
  <2> SUFFICES ASSUME NEW id \in Going PROVE id \in Ids /\ stopped[id] = "none"
    OBVIOUS
  <2>1. PICK i \in DOMAIN m_copyRequests : id = m_copyRequests[i].id
    BY DEF Going
  <2>. QED  BY <1>1, <2>1, QueuedUnanswered DEF TypeOK, RequestType
<1>4. ASSUME NEW id \in Going, NEW rv, stopped' = stopped,
             verdict' = [verdict EXCEPT ![id] = rv]
      PROVE  StopMatchesVerdict'
  BY <1>1, <1>3, <1>4 DEF TypeOK
<1>5. CASE FolderCompletesAtOnce
  <2>1. Head(stack).id \in Going
    BY <1>1, <1>5 DEF FolderCompletesAtOnce, Copies
  <2>. QED  BY <1>4, <1>5, <2>1 DEF FolderCompletesAtOnce
<1>6. ASSUME NEW c \in running, FolderCompletes(c)
      PROVE  StopMatchesVerdict'
  <2>1. c.id \in Going
    BY <1>1 DEF Copies
  <2>. QED  BY <1>4, <1>6, <2>1 DEF FolderCompletes
<1>7. CASE NotifyClears
  <2>1. Pending
    BY <1>7 DEF NotifyClears, Pending
  <2>2. /\ Owed \in Going /\ verdict[Owed] = Head(stack).rv
        /\ stopped' = [stopped EXCEPT ![Owed] = Head(stack).rv] /\ verdict' = verdict
    BY <1>1, <1>7, <2>1 DEF Copies, Owed, NotifyClears, ClearRequest
  <2>. QED  BY <1>1, <1>3, <2>2 DEF TypeOK
<1>8. CASE FolderRefuses
  BY <1>8 DEF FolderRefuses, Restrained
<1>. QED
  BY <1>2, <1>5, <1>6, <1>7, <1>8
     DEF Next, Code, Folder, ClientCopies, ListenerCopies, DoCopy, ListenerReturns,
         DoNextCopyStarts, DoNextCopyIdle, NotifyEnds, FolderAccepts, vars

LEMMA LineInvInit == Init => LineInv
<1> SUFFICES ASSUME Init PROVE LineInv
  OBVIOUS
<1>1. /\ m_copyRequests = <<>> /\ stack = <<>> /\ running = {}
      /\ \A id \in Ids : starts[id] = 0 /\ stopped[id] = "none"
  BY DEF Init
<1>2. Cards = {} /\ Going = {}
  BY <1>1 DEF Cards, Going
<1>3. ~ Pending /\ ~ Running("Copy") /\ Ready = {}
  BY <1>1, <1>2 DEF Pending, Running, Ready
<1>4. Requests /\ CardsApart
  BY <1>1, <1>2 DEF Requests, CardsApart
<1>5. Stacked
  BY <1>1, <1>3 DEF Stacked, Shape, Settled, Lone
<1>6. Copies
  BY <1>1, <1>2, <1>3 DEF Copies
<1>7. Enough
  BY <1>1, <1>3, FS_EmptySet DEF Enough, Weight
<1>8. StopMatchesVerdict
  BY <1>1 DEF StopMatchesVerdict
<1>. QED  BY <1>4, <1>5, <1>6, <1>7, <1>8 DEF LineInv

LEMMA LineInvNext ==
    ASSUME Restrained, Good, [Next]_vars
    PROVE  LineInv'
<1>1. CASE UNCHANGED vars
  <2>1. /\ m_copyRequests' = m_copyRequests /\ stack' = stack /\ running' = running
        /\ nextId' = nextId /\ starts' = starts /\ stopped' = stopped /\ verdict' = verdict
    BY <1>1 DEF vars
  <2>2. LineInv
    BY DEF Good
  <2>3. Cards' = Cards /\ Going' = Going /\ RunningIds' = RunningIds /\ Ready' = Ready
        /\ (Pending' <=> Pending) /\ Owed' = Owed
    BY <2>1 DEF Cards, Going, RunningIds, Ready, Pending, Running, Owed, Clears, Considered, Hit
  <2>4. Requests' /\ CardsApart' /\ StopMatchesVerdict'
    BY <2>1, <2>2, <2>3 DEF LineInv, Requests, CardsApart, StopMatchesVerdict
  <2>5. Stacked'
    BY <2>1, <2>2, <2>3 DEF LineInv, Stacked, Lone
  <2>6. Copies'
    BY <2>1, <2>2, <2>3 DEF LineInv, Copies, Running
  <2>7. Enough'
    BY <2>1, <2>2, <2>3 DEF LineInv, Enough, Weight, Running
  <2>. QED  BY <2>4, <2>5, <2>6, <2>7 DEF LineInv
<1>2. CASE Next
  <2>1. Requests' /\ CardsApart' /\ Stacked' /\ Copies' /\ Enough'
    <3>1. ~ FolderRefuses
      BY DEF FolderRefuses, Restrained
    <3>. QED
      BY <1>2, <3>1, ClientCopiesKeeps, ListenerCopiesKeeps, ListenerReturnsKeeps,
         DoNextCopyStartsKeeps, DoNextCopyIdleKeeps, NotifyClearsKeeps, NotifyEndsKeeps,
         FolderAcceptsKeeps, FolderCompletesAtOnceKeeps, FolderCompletesKeeps
         DEF Next, Code, Folder
  <2>2. StopMatchesVerdict'
    BY <1>2, StopMatchesStep
  <2>. QED  BY <2>1, <2>2 DEF LineInv
<1>. QED  BY <1>1, <1>2

LEMMA LineInvAlways ==
    ASSUME Restrained
    PROVE  Spec => [](TypeOK /\ QueueInv /\ LineInv)
<1>1. Init => TypeOK /\ QueueInv /\ LineInv
  BY TypeInit, QueueInvInit, LineInvInit
<1>2. TypeOK /\ QueueInv /\ LineInv /\ [Next]_vars => (TypeOK /\ QueueInv /\ LineInv)'
  BY TypeNext, QueueInvNext, LineInvNext DEF Good
<1>. QED  BY <1>1, <1>2, PTL DEF Spec

-----------------------------------------------------------------------------
(* What follows.                                                             *)

\* activeTargets: as long as its users keep to Restrained, the service never has
\* two copies at work in one destination, whether a folder has taken them on or
\* is just being called (DoNextCopy, NotifyCompletion).
THEOREM OneCopyAtATime ==
    ASSUME Restrained
    PROVE  Spec => []OneCopyPerDestination
<1>1. TypeOK /\ QueueInv /\ LineInv => OneCopyPerDestination
  <2> SUFFICES ASSUME TypeOK, QueueInv, LineInv,
                      NEW c \in InFolder, NEW d \in InFolder, c.dst = d.dst
               PROVE  c = d
    BY DEF OneCopyPerDestination
  <2>1. CardsApart /\ Copies /\ Shape(stack) /\ QueueInOrder
    BY DEF LineInv, Stacked, QueueInv
  <2>2. ASSUME NEW e \in InFolder
        PROVE  \E card \in Cards : /\ card.id \in Going
                                   /\ e = [id |-> card.id, src |-> card.src, dst |-> card.dst]
    <3>1. CASE \E r \in running : e = [id |-> r.id, src |-> r.src, dst |-> r.dst]
      <4>1. PICK r \in running : e = [id |-> r.id, src |-> r.src, dst |-> r.dst]
        BY <3>1
      <4>2. PICK card \in Cards : /\ card.id = r.id /\ card.src = r.src /\ card.dst = r.dst
                                  /\ r.id \in Going
        BY <2>1 DEF Copies
      <4>. QED  BY <4>1, <4>2
    <3>2. CASE \E i \in DOMAIN stack :
                  /\ stack[i].pc = "Copy"
                  /\ e = [id |-> stack[i].id, src |-> stack[i].src, dst |-> stack[i].dst]
      <4>1. PICK i \in DOMAIN stack :
                  /\ stack[i].pc = "Copy"
                  /\ e = [id |-> stack[i].id, src |-> stack[i].src, dst |-> stack[i].dst]
        BY <3>2
      <4>2. stack \in Seq(FrameType) /\ DOMAIN stack = 1..Len(stack) /\ Len(stack) \in Nat
        BY DEF TypeOK
      <4>3. i = 1
        <5>1. i > 1 => stack[i].pc \in {"OnStopCopy", "NotifyCompletion"}
          BY <2>1 DEF Shape
        <5>2. ~ (i > 1)
          BY <4>1, <5>1
        <5>. QED  BY <4>2, <5>2
      <4>4. stack # <<>> /\ Head(stack) = stack[i]
        BY <4>1, <4>2, <4>3
      <4> PICK f : f = Head(stack)
        OBVIOUS
      <4>5. Card(f) \in Cards /\ f.id \in Going
        BY <2>1, <4>1, <4>4 DEF Copies, Running
      <4>6. Card(f).id = f.id /\ Card(f).src = f.src /\ Card(f).dst = f.dst
        BY DEF Card
      <4>7. e = [id |-> f.id, src |-> f.src, dst |-> f.dst]
        BY <4>1, <4>4
      <4>. QED  BY <4>5, <4>6, <4>7
    <3>. QED  BY <3>1, <3>2 DEF InFolder
  <2>3. PICK a \in Cards : /\ a.id \in Going
                           /\ c = [id |-> a.id, src |-> a.src, dst |-> a.dst]
    BY <2>2
  <2>4. PICK b \in Cards : /\ b.id \in Going
                           /\ d = [id |-> b.id, src |-> b.src, dst |-> b.dst]
    BY <2>2
  <2>5. a.id \in Nat /\ b.id \in Nat
    BY <2>1, QueueCards DEF CardType, Ids
  <2>6. a.dst = b.dst
    BY <2>3, <2>4
  <2>7. a.id <= b.id /\ b.id <= a.id
    BY <2>1, <2>3, <2>4, <2>6 DEF CardsApart
  <2>8. a = b
    BY <2>1, <2>5, <2>7 DEF CardsApart
  <2>. QED  BY <2>3, <2>4, <2>8
<1>. QED  BY <1>1, LineInvAlways, PTL

\* OnStopCopy gets the status of the request's own copy, whatever else completes
\* between the two (FindRequest, ClearRequest).
THEOREM ToldTheOutcome ==
    ASSUME Restrained
    PROVE  Spec => []StopMatchesVerdict
<1>1. LineInv => StopMatchesVerdict
  BY DEF LineInv
<1>. QED  BY <1>1, LineInvAlways, PTL

\* Between events, a request that was started is in a folder's hands: none stays
\* in m_copyRequests for good with its destination taken.
THEOREM NothingLeftBehind ==
    ASSUME Restrained
    PROVE  Spec => []NoneForgotten
<1>1. TypeOK /\ QueueInv /\ LineInv => NoneForgotten
  <2> SUFFICES ASSUME TypeOK, QueueInv, LineInv, stack = <<>>,
                      NEW i \in DOMAIN m_copyRequests, starts[m_copyRequests[i].id] > 0
               PROVE  \E c \in running : c.id = m_copyRequests[i].id
    BY DEF NoneForgotten
  <2>1. Requests /\ Copies /\ QueueInOrder
    BY DEF LineInv, QueueInv
  <2>2. m_copyRequests[i].id \in Going
    BY <2>1, QueueCards DEF Requests
  <2>3. m_copyRequests[i].id \in RunningIds
    BY <2>1, <2>2 DEF Copies, Running, Pending
  <2>. QED  BY <2>3 DEF RunningIds
<1>. QED  BY <1>1, LineInvAlways, PTL

\* No wakeup is lost: between events, a request that was not started waits for a
\* copy in its destination, whose completion will come to DoNextCopy.
THEOREM NobodyStranded ==
    ASSUME Restrained
    PROVE  Spec => []WaitsForACopy
<1>1. TypeOK /\ QueueInv /\ LineInv => WaitsForACopy
  <2> SUFFICES ASSUME TypeOK, QueueInv, LineInv, stack = <<>>,
                      NEW i \in DOMAIN m_copyRequests
               PROVE  \E c \in running : c.dst = m_copyRequests[i].dst
    BY DEF WaitsForACopy
  <2> DEFINE d == m_copyRequests[i].dst
  <2>1. CardsApart /\ Copies /\ Enough /\ QueueInOrder
    BY DEF LineInv, QueueInv
  <2>2. /\ Card(m_copyRequests[i]) \in Cards /\ Card(m_copyRequests[i]).dst = d /\ d \in Dsts
    BY <2>1, QueueCards, CardOf DEF RequestType
  <2>3. d \notin Ready
    BY <2>1, NothingReady DEF Weight
  <2>4. PICK card \in Cards : card.dst = d /\ card.id \in Going
    BY <2>2, <2>3 DEF Ready
  <2>5. PICK c \in running : c.id = card.id
    BY <2>1, <2>4 DEF Copies, Running, Pending, RunningIds
  <2>6. PICK e \in Cards : e.id = c.id /\ e.dst = c.dst
    BY <2>1 DEF Copies
  <2>7. e = card
    BY <2>1, <2>5, <2>6 DEF CardsApart
  <2>. QED  BY <2>4, <2>6, <2>7
<1>. QED  BY <1>1, LineInvAlways, PTL

-----------------------------------------------------------------------------
(* The stricter line, in which only what has begun is answered.              *)

\* NotifyCompletion clears a request whose copy was started.
LEMMA AnsweredHasBegun ==
    ASSUME Restrained, TypeOK, QueueInv, LineInv, [Next]_vars,
           NEW id \in Ids, stopped'[id] # stopped[id]
    PROVE  id \in Begun
<1>1. CASE NotifyClears
  <2>1. Pending /\ stopped' = [stopped EXCEPT ![Owed] = Head(stack).rv]
    BY <1>1 DEF NotifyClears, Pending, ClearRequest, Owed
  <2>2. Owed \in Going
    BY <2>1 DEF LineInv, Copies
  <2>3. id = Owed
    BY <2>1 DEF TypeOK
  <2>4. PICK i \in DOMAIN m_copyRequests : m_copyRequests[i].id = id /\ Underway(m_copyRequests[i])
    BY <2>2, <2>3 DEF Going
  <2>. QED  BY <2>4 DEF LineInv, Requests, Begun
<1>2. CASE ~ NotifyClears
  <2>1. ~ FolderRefuses
    BY DEF FolderRefuses, Restrained
  <2>2. stopped' = stopped
    BY <1>2, <2>1
       DEF Next, Code, Folder, ClientCopies, ListenerCopies, DoCopy, ListenerReturns,
           DoNextCopyStarts, DoNextCopyIdle, NotifyEnds, FolderAccepts, FolderCompletesAtOnce,
           FolderCompletes, vars
  <2>. QED  BY <2>2
<1>. QED  BY <1>1, <1>2

LEMMA StepIsServed ==
    ASSUME Restrained, TypeOK, TypeOK', QueueInv, LineInv, [Next]_vars
    PROVE  [Line!ServedNext]_(Line!lineVars)
<1> DEFINE q == m_copyRequests
<1>1. [Line!Next]_(Line!lineVars)
  <2>1. Unstarted
    BY DEF LineInv, Requests, Unstarted
  <2>. QED  BY <2>1, StepInLine
<1>2. /\ q \in Seq(RequestType) /\ DOMAIN LineOf(q) = DOMAIN q
      /\ \A k \in DOMAIN q : LineOf(q)[k] = [id |-> q[k].id, dst |-> q[k].dst]
  BY LineType DEF TypeOK
<1>3. ASSUME NEW k \in DOMAIN LineOf(q)
      PROVE  /\ LineOf(q)[k].dst \in Dsts /\ LineOf(q)[k].id \in Ids
             /\ stopped[LineOf(q)[k].id] = "none"
  BY <1>2, QueuedUnanswered DEF RequestType
<1> HIDE DEF q
<1>4. ASSUME NEW k \in DOMAIN LineOf(q), Line!Begin(k)
      PROVE  Line!ServedNext
  <2>1. PICK d \in Dsts : d = LineOf(q)[k].dst
    BY <1>3
  <2>. QED  BY <1>4, <2>1 DEF Line!ServedNext, Line!Serve, q
<1>5. ASSUME NEW k \in DOMAIN LineOf(q), NEW rv \in Results, Line!Tell(k, rv)
      PROVE  Line!ServedNext
  <2>1. PICK d \in Dsts : d = LineOf(q)[k].dst
    BY <1>3
  <2>2. PICK id \in Ids : id = LineOf(q)[k].id /\ stopped[id] = "none"
    BY <1>3
  <2>3. stopped' = [stopped EXCEPT ![id] = rv]
    BY <1>5, <2>2 DEF Line!Tell, q
  <2>4. stopped'[id] # stopped[id]
    BY <2>2, <2>3 DEF TypeOK, Results
  <2>5. id \in Begun
    BY <2>4, AnsweredHasBegun
  <2>6. Line!Answer(k, rv)
    BY <1>5, <2>2, <2>5 DEF Line!Answer, q
  <2>. QED  BY <2>1, <2>6 DEF Line!ServedNext, Line!Serve, q
<1>. QED  BY <1>1, <1>4, <1>5 DEF Line!Next, Line!ServedNext, q

\* What ServesLine says of each step: a request is answered only after its copy
\* was begun, and begun only as the oldest for its destination. That each comes
\* to its turn is for the model checker.
ServesInTurn == Line!Init /\ [][Line!ServedNext]_(Line!lineVars)

\* Nobody is told of a copy that never began, however completions and listeners
\* nest (FindRequest, ClearRequest).
THEOREM AnswersWhatBegan ==
    ASSUME Restrained
    PROVE  Spec => ServesInTurn
<1>1. Init => Line!Init
  BY DEF Init, Line!Init, LineOf, Begun
<1>2. TypeOK /\ TypeOK' /\ QueueInv /\ LineInv /\ [Next]_vars
        => [Line!ServedNext]_(Line!lineVars)
  BY StepIsServed
<1>. QED  BY <1>1, <1>2, LineInvAlways, PTL DEF Spec, ServesInTurn
=============================================================================
