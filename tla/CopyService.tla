----------------------------- MODULE CopyService -----------------------------
(***************************************************************************)
(* The message copy service, mailnews/base/src/nsMsgCopyService.cpp.       *)
(*                                                                         *)
(* Everything runs on the main thread, so there is no data race; what is   *)
(* hard is re-entrancy.  DoNextCopy calls the destination folder, which    *)
(* may report completion before it returns; NotifyCompletion clears the    *)
(* request and calls its listener, which may queue another copy, which     *)
(* calls DoNextCopy again, all inside the first call.  `stack` is that     *)
(* C++ call stack, its head the innermost call, and only the head runs.    *)
(*                                                                         *)
(* Destination folders appear here through the contract the service relies *)
(* on (nsIMsgFolder::CopyMessages, CopyFileMessage and CopyFolder): a call *)
(* reports its completion once, at once or later; CopyFolder may instead   *)
(* return an error and report nothing.                                     *)
(***************************************************************************)
EXTENDS Naturals, FiniteSets, Sequences, SequencesExt, FiniteSetsExt

CONSTANTS
    Offers,       \* the requests clients may make (records, see OfferType)
    MaxRequests,  \* bound: how many requests are made in all
    Reenter,      \* the requests a listener may make from OnStopCopy
    CanFail,      \* may a folder report that a copy failed?
    AtOnce,       \* the folders that may report completion before they return
    CanRefuse,    \* may CopyFolder return an error and report nothing?
    NewNames,     \* NewNames[n]: the names a folder called n may be given
    Dialogs,      \* may CopyXxx show a dialog, which runs the event loop?
    UniquePairs,  \* do clients keep to one request per source and destination?
    NoName        \* m_dstFolderName of a request that is not for a folder

Ids == 1..MaxRequests
Types == {"messages", "file", "folder"}
Results == {"ok", "failed"}
Dsts == {o.dst : o \in Offers}
Srcs == {o.src : o \in Offers} \cup UNION {{o.from[k] : k \in DOMAIN o.from} : o \in Offers}
Names == {o.name : o \in Offers}

\* What NotifyCompletion can be told as its dstFolder: a folder, or the child
\* <<parent, name>> that CopyFolder made in it.
Places == Dsts \cup (Dsts \X UNION {NewNames[n] : n \in Names})

\* An offer: src is the UI folder or the file (m_srcSupport), from the folders
\* that really hold the messages, in the order they are grouped.
OfferType(o) == /\ DOMAIN o = {"type", "src", "dst", "name", "from"}
                /\ o.type \in Types
                /\ o.from \in Seq(Srcs)
                /\ (o.type = "messages") => Len(o.from) > 0
                /\ (o.type = "folder") => Len(o.from) = 1 /\ o.name # NoName
                /\ (o.type # "folder") => o.name = NoName
                /\ (o.type = "messages") => o.src # o.dst

ASSUME CopyAssumption ==
    /\ \A o \in Offers : OfferType(o)
    /\ MaxRequests \in Nat
    /\ Reenter \subseteq Offers
    /\ AtOnce \subseteq Dsts
    /\ {CanFail, CanRefuse, Dialogs, UniquePairs} \subseteq BOOLEAN
    /\ DOMAIN NewNames = Names
    /\ \A n \in Names : n \in NewNames[n]

VARIABLES
    m_copyRequests,  \* the service's array of requests, oldest first
    stack,           \* the calls in progress, innermost first
    running,         \* the copies folders are carrying out
    nextId,          \* the number the next request gets
    starts,          \* history: OnStartCopy calls made for each request
    stopped,         \* history: the status OnStopCopy gave each request
    verdict          \* history: what the folder last said of each request

vars == <<m_copyRequests, stack, running, nextId, starts, stopped, verdict>>

-----------------------------------------------------------------------------
(* Requests.                                                               *)

\* Definitions marked "fault" are used by nothing here: each is a variant with
\* one mistake, which some property below rejects.
\* fault: the sources are never added
NewRequestNoSource(id, o) ==
    [id |-> id, type |-> o.type, src |-> o.src, dst |-> o.dst, name |-> o.name,
     sources |-> <<>>, processed |-> FALSE]

NewRequest(id, o) ==
    [id |-> id, type |-> o.type, src |-> o.src, dst |-> o.dst, name |-> o.name,
     sources |-> [k \in DOMAIN o.from |->
                    [folder |-> o.from[k], processed |-> o.from[k] = o.dst]],
     processed |-> FALSE]

AllSourcesProcessed(r) == \A k \in DOMAIN r.sources : r.sources[k].processed

\* DoNextCopy takes a request with no source and not processed as ready to go.
Underway(r) == r.processed \/ (r.sources # <<>> /\ AllSourcesProcessed(r))

FirstSource(r) == Min({k \in DOMAIN r.sources : ~ r.sources[k].processed})

\* fault: any request with that name stands in the way, whatever its destination
ClashesAnywhere(o, r) == (o.type = "folder") => r.name = o.name

\* QueueRequest: must o wait behind r?
Clashes(o, r) == /\ r.dst = o.dst
                 /\ (o.type = "folder") => r.name = o.name

\* fault: the scan does not keep track of active folders
NoActiveTargets(q, i) == {}

\* DoNextCopy's activeTargets when its scan reaches position i of the queue.
ActiveTargets(q, i) == {q[j].dst : j \in {k \in 1..(i - 1) : Underway(q[k])}}

Startable(q, i) == ~ Underway(q[i]) /\ q[i].dst \notin ActiveTargets(q, i)

Found(q) == Min({i \in DOMAIN q : Startable(q, i)})

\* FindRequest: the position of the request a completion is for, 0 if none.
\* A folder request whose name does not match is not ruled out: the scan goes
\* on with copyRequest still set, and returns it when it was the last one.
IsChildOf(place, dst) == place \in Dsts \X UNION {NewNames[n] : n \in Names} /\ place[1] = dst

\* fault: the folder made in the destination is not taken for its parent
FolderNotInPlace(r, src, place) == r.type = "folder" /\ r.src = src /\ r.dst = place

FolderInPlace(r, src, place) ==
    r.type = "folder" /\ r.src = src /\ IsChildOf(place, r.dst)

\* fault: any completion from that source will do
MatchesSource(r, src, place) == r.src = src

Matches(r, src, place) ==
    \/ r.src = src /\ r.dst = place
    \/ FolderInPlace(r, src, place) /\ r.name = place[2]

FindRequest(q, src, place) ==
    LET hits == {i \in DOMAIN q : Matches(q[i], src, place)}
    IN  IF hits # {} THEN Min(hits)
        ELSE IF q # <<>> /\ FolderInPlace(q[Len(q)], src, place) THEN Len(q)
        ELSE 0

-----------------------------------------------------------------------------
(* Calls.                                                                  *)

DoNextCopyCall == [pc |-> "DoNextCopy"]
CopyCall(r, from) == [pc |-> "Copy", id |-> r.id, type |-> r.type, src |-> from,
                      dst |-> r.dst, name |-> r.name]
NotifyCall(src, place, rv, orig) ==
    [pc |-> "NotifyCompletion", src |-> src, dst |-> place, rv |-> rv, orig |-> orig]
OnStopCopyCall(id) == [pc |-> "OnStopCopy", id |-> id]

Running(pc) == stack # <<>> /\ Head(stack).pc = pc
Return == stack' = Tail(stack)
Call(f) == stack' = Cons(f, stack)
ReturnAndCall(f) == stack' = Cons(f, Tail(stack))

\* The event loop runs when nothing else does, or under a dialog.
EventLoop == stack = <<>> \/ (Dialogs /\ Running("Copy"))

-----------------------------------------------------------------------------
(* Operations.                                                             *)

\* CopyMessages, CopyFileMessage, CopyFolders -> DoCopy -> QueueRequest, and
\* DoNextCopy when nothing queued stands in the way.
DoCopy(o) ==
    /\ nextId \in Ids
    /\ UniquePairs => \A i \in DOMAIN m_copyRequests :
                         \/ m_copyRequests[i].src # o.src
                         \/ m_copyRequests[i].dst # o.dst
    /\ nextId' = nextId + 1
    /\ m_copyRequests' = Append(m_copyRequests, NewRequest(nextId, o))
    /\ IF \E i \in DOMAIN m_copyRequests : Clashes(o, m_copyRequests[i])
         THEN UNCHANGED stack
         ELSE Call(DoNextCopyCall)
    /\ UNCHANGED <<running, starts, stopped, verdict>>

ClientCopies(o) == EventLoop /\ DoCopy(o)

\* A listener told of the end of one copy queues another one.
ListenerCopies(o) == o \in Reenter /\ Running("OnStopCopy") /\ DoCopy(o)

ListenerReturns ==
    /\ Running("OnStopCopy")
    /\ Return
    /\ UNCHANGED <<m_copyRequests, running, nextId, starts, stopped, verdict>>

\* fault: listeners hear of success only
ClearRequestTellsSuccess(i, rv) ==
    /\ m_copyRequests' = RemoveAt(m_copyRequests, i)
    /\ stopped' = IF rv = "ok" THEN [stopped EXCEPT ![m_copyRequests[i].id] = rv] ELSE stopped

\* Out of the queue, then tell the listener.
ClearRequest(i, rv) ==
    /\ m_copyRequests' = RemoveAt(m_copyRequests, i)
    /\ stopped' = [stopped EXCEPT ![m_copyRequests[i].id] = rv]

\* The scan marks the requests whose sources are all processed, up to the one
\* it stops at.
MarkUnderway(q, last) ==
    [i \in DOMAIN q |->
        IF i <= last /\ Underway(q[i]) /\ q[i].dst \notin ActiveTargets(q, i)
          THEN [q[i] EXCEPT !.processed = TRUE] ELSE q[i]]

\* The scan finds a request: OnStartCopy, its next source is marked processed
\* (and a file request itself), and the destination folder is called.
DoNextCopyStarts ==
    /\ Running("DoNextCopy")
    /\ \E i \in DOMAIN m_copyRequests : Startable(m_copyRequests, i)
    /\ LET q == m_copyRequests
           i == Found(q)
           r == q[i]
           k == FirstSource(r)
           hasSource == r.sources # <<>>
           marked == IF hasSource THEN [r EXCEPT !.sources[k].processed = TRUE] ELSE r
       IN  /\ m_copyRequests' = [MarkUnderway(q, i) EXCEPT
                                   ![i] = [marked EXCEPT !.processed = (r.type = "file")]]
           /\ starts' = [starts EXCEPT ![r.id] = @ + 1]
           /\ ReturnAndCall(CopyCall(r, IF r.type = "file" THEN r.src
                                        ELSE r.sources[k].folder))
    /\ UNCHANGED <<running, nextId, stopped, verdict>>

DoNextCopyIdle ==
    /\ Running("DoNextCopy")
    /\ \A i \in DOMAIN m_copyRequests : ~ Startable(m_copyRequests, i)
    /\ m_copyRequests' = MarkUnderway(m_copyRequests, Len(m_copyRequests))
    /\ Return
    /\ UNCHANGED <<running, nextId, starts, stopped, verdict>>

\* Where the folder says the copy went: a folder copied over the network ends
\* in the destination (IMAP) or in its child of that name, a local one, moved
\* at once, in a child that may have been given another name.
LaterPlaces(c) == IF c.type = "folder" THEN {c.dst, <<c.dst, c.name>>} ELSE {c.dst}
PlacesAtOnce(c) == IF c.type = "folder" THEN {<<c.dst, n>> : n \in NewNames[c.name]}
                   ELSE {c.dst}

Outcomes == IF CanFail THEN Results ELSE {"ok"}

\* The folder takes the copy on and returns: it will report later.
FolderAccepts ==
    /\ Running("Copy")
    /\ \E p \in LaterPlaces(Head(stack)) :
          running' = running \cup {[id |-> Head(stack).id, src |-> Head(stack).src,
                                    dst |-> Head(stack).dst, place |-> p]}
    /\ Return
    /\ UNCHANGED <<m_copyRequests, nextId, starts, stopped, verdict>>

\* The folder reports before it returns.
FolderCompletesAtOnce ==
    /\ Running("Copy")
    /\ Head(stack).dst \in AtOnce
    /\ \E p \in PlacesAtOnce(Head(stack)), rv \in Outcomes :
          /\ verdict' = [verdict EXCEPT ![Head(stack).id] = rv]
          /\ ReturnAndCall(NotifyCall(Head(stack).src, p, rv, Len(m_copyRequests)))
    /\ UNCHANGED <<m_copyRequests, running, nextId, starts, stopped>>

\* CopyFolder returns an error: DoNextCopy clears the request and returns.
FolderRefuses ==
    /\ CanRefuse
    /\ Running("Copy")
    /\ Head(stack).type = "folder"
    /\ \E i \in DOMAIN m_copyRequests :
          /\ m_copyRequests[i].id = Head(stack).id
          /\ ClearRequest(i, "failed")
    /\ verdict' = [verdict EXCEPT ![Head(stack).id] = "failed"]
    /\ ReturnAndCall(OnStopCopyCall(Head(stack).id))
    /\ UNCHANGED <<running, nextId, starts>>

\* A copy that was running ends; the folder reports it.
FolderCompletes(c) ==
    /\ EventLoop
    /\ c \in running
    /\ running' = running \ {c}
    /\ \E rv \in Outcomes :
          /\ verdict' = [verdict EXCEPT ![c.id] = rv]
          /\ Call(NotifyCall(c.src, c.place, rv, Len(m_copyRequests)))
    /\ UNCHANGED <<m_copyRequests, nextId, starts, stopped>>

\* One turn of NotifyCompletion's loop.  hit is the request it looks at: one
\* beyond numOrigRequests was queued by a listener during this call.
Hit(f) == FindRequest(m_copyRequests, f.src, f.dst)

Considered(f) == Hit(f) # 0 /\ Hit(f) <= f.orig
Clears(f) == Considered(f) /\ (\/ m_copyRequests[Hit(f)].processed
                               \/ AllSourcesProcessed(m_copyRequests[Hit(f)])
                               \/ f.rv = "failed")

\* The request is done or failed: ClearRequest, and round again.
NotifyClears ==
    /\ Running("NotifyCompletion")
    /\ Clears(Head(stack))
    /\ LET f == Head(stack)
       IN  /\ ClearRequest(Hit(f), f.rv)
           /\ stack' = Cons(OnStopCopyCall(m_copyRequests[Hit(f)].id),
                            Cons([f EXCEPT !.orig = @ - 1], Tail(stack)))
    /\ UNCHANGED <<running, nextId, starts, verdict>>

\* fault: the next copy is not started
NotifyEndsQuietly ==
    /\ Running("NotifyCompletion")
    /\ ~ Clears(Head(stack))
    /\ Return
    /\ UNCHANGED <<m_copyRequests, running, nextId, starts, stopped, verdict>>

\* Nothing (more) to clear: the last line of NotifyCompletion, DoNextCopy.
NotifyEnds ==
    /\ Running("NotifyCompletion")
    /\ ~ Clears(Head(stack))
    /\ ReturnAndCall(DoNextCopyCall)
    /\ UNCHANGED <<m_copyRequests, running, nextId, starts, stopped, verdict>>

-----------------------------------------------------------------------------
Init ==
    /\ m_copyRequests = <<>>
    /\ stack = <<>>
    /\ running = {}
    /\ nextId = 1
    /\ starts = [id \in Ids |-> 0]
    /\ stopped = [id \in Ids |-> "none"]
    /\ verdict = [id \in Ids |-> "none"]

\* The steps the code takes by itself once it has been called.
Code == \/ ListenerReturns \/ DoNextCopyStarts \/ DoNextCopyIdle
        \/ NotifyClears \/ NotifyEnds
Folder == FolderAccepts \/ FolderCompletesAtOnce \/ FolderRefuses

Next == \/ \E o \in Offers : ClientCopies(o) \/ ListenerCopies(o)
        \/ Code
        \/ Folder
        \/ \E c \in running : FolderCompletes(c)

Spec == Init /\ [][Next]_vars
-----------------------------------------------------------------------------
(* Properties.                                                             *)

\* Frames below a dialog or a callback wait for those above them.
FrameType ==
    {DoNextCopyCall}
      \cup {OnStopCopyCall(id) : id \in Ids}
      \cup [pc : {"Copy"}, id : Ids, type : Types, src : Srcs, dst : Dsts,
            name : Names]
      \cup [pc : {"NotifyCompletion"}, src : Srcs, dst : Places, rv : Results,
            orig : Nat]

SourceType == [folder : Srcs, processed : BOOLEAN]
RequestType ==
    {r \in [id : Ids, type : Types, src : Srcs, dst : Dsts, name : Names,
            sources : Seq(SourceType), processed : BOOLEAN] :
        r.type # "file" => r.sources # <<>>}
CopyType == [id : Ids, src : Srcs, dst : Dsts, place : Places]

\* Every variable has the shape the class declarations give it.
TypeOK ==
    /\ m_copyRequests \in Seq(RequestType)
    /\ stack \in Seq(FrameType)
    /\ running \subseteq CopyType
    /\ nextId \in 1..(MaxRequests + 1)
    /\ starts \in [Ids -> Nat]
    /\ stopped \in [Ids -> Results \cup {"none"}]
    /\ verdict \in [Ids -> Results \cup {"none"}]

Queued == {m_copyRequests[i].id : i \in DOMAIN m_copyRequests}
RequestOf(id) == m_copyRequests[CHOOSE i \in DOMAIN m_copyRequests :
                                   m_copyRequests[i].id = id]
Accepted == 1..(nextId - 1)

\* m_copyRequests holds accepted requests in the order they were made, each
\* once, whatever is removed from its middle (QueueRequest, ClearRequest).
QueueInOrder ==
    /\ \A i \in DOMAIN m_copyRequests : m_copyRequests[i].id < nextId
    /\ \A i, j \in DOMAIN m_copyRequests :
          i < j => m_copyRequests[i].id < m_copyRequests[j].id

\* A request leaves the queue exactly when its listener is told: none is lost
\* without OnStopCopy, none is told while it still waits (ClearRequest).
StoppedIffGone == \A id \in Accepted : stopped[id] = "none" <=> id \in Queued

\* A listener is never told twice, and never told anything else afterwards,
\* whatever re-entrant calls happen inside NotifyCompletion.
StopIsFinal ==
    [][\A id \in Ids : stopped[id] # "none" =>
          stopped'[id] = stopped[id] /\ starts'[id] = starts[id]]_vars

\* OnStopCopy passes on what the destination folder said of this request, not
\* what it said of another one between the same folders.
StopMatchesVerdict ==
    \A id \in Ids : stopped[id] # "none" => stopped[id] = verdict[id]

\* activeTargets: a destination works on one request's copy at a time.
InFolder == {[id |-> c.id, src |-> c.src, dst |-> c.dst] : c \in running}
            \cup {[id |-> stack[i].id, src |-> stack[i].src, dst |-> stack[i].dst] :
                    i \in {j \in DOMAIN stack : stack[j].pc = "Copy"}}
OneCopyPerDestination == \A c, d \in InFolder : c.dst = d.dst => c = d

\* "always FIFO": what starts is the oldest request for its destination.
FIFOPerDestination ==
    [][\A i \in DOMAIN m_copyRequests :
          LET r == m_copyRequests[i]
          IN  starts'[r.id] > starts[r.id] =>
                \A j \in 1..(i - 1) : m_copyRequests[j].dst # r.dst]_vars

\* No lost wakeup: between events, a request that has not started has one
\* ahead of it whose copy is under way in the same destination, and whose
\* completion will start it.
WaitsForACopy ==
    stack = <<>> =>
      \A i \in DOMAIN m_copyRequests :
         starts[m_copyRequests[i].id] = 0 =>
           \E c \in running : c.dst = m_copyRequests[i].dst

\* A request that has started and that no folder works on any more is not
\* left behind in the queue, where it would block its destination for good.
NoneForgotten ==
    stack = <<>> =>
      \A i \in DOMAIN m_copyRequests :
         starts[m_copyRequests[i].id] > 0 =>
           \E c \in running : c.id = m_copyRequests[i].id

\* Every request is answered.
EveryCopyStops == \A id \in Ids : id \in Queued ~> stopped[id] # "none"

\* The code runs when it is called, listeners and folders return from theirs (a
\* dialog is answered), and a folder ends each copy it took on.
Fairness ==
    /\ WF_vars(Code)
    /\ WF_vars(Folder)
    /\ \A d \in Dsts : WF_vars(\E c \in running : c.dst = d /\ FolderCompletes(c))

FairSpec == Spec /\ Fairness

\* The promise of CopyLine, read off the service's own state.
LineOf(q) == [i \in DOMAIN q |-> [id |-> q[i].id, dst |-> q[i].dst]]
Begun == {id \in Ids : starts[id] > 0}

Line == INSTANCE CopyLine WITH Outcomes <- Results, line <- LineOf(m_copyRequests),
                               begun <- Begun, told <- stopped

\* Whatever clients, listeners and folders do, and however the calls nest, the
\* array and its processed flags behave as one line, served in order.
KeepsLine == Line!Spec

\* With clients that wait for one copy before they ask for the same again, the
\* service answers only what it began, and no destination stands still.
ServesLine == Line!ServedSpec
=============================================================================
