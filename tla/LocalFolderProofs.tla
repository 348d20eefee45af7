-------------------------- MODULE LocalFolderProofs --------------------------
(***************************************************************************)
(* What holds of a local folder and the copy service together, for every   *)
(* set of offers, any number of requests and of messages, and whatever     *)
(* goes wrong, as long as drafts are replaced only while nothing else is   *)
(* queued (QuietDrafts).  LocalDraft.cfg shows what happens otherwise.     *)
(*                                                                         *)
(* The invariant follows the calls: for each call that may be the          *)
(* innermost one it says what is beneath it, and what the folder's state,  *)
(* its stream and the first request of the queue have to do with it.  What *)
(* the service keeps by itself is taken from CopyServiceProofs, of which   *)
(* the composition is an instance (Served).                                *)
(***************************************************************************)
EXTENDS LocalFolder, CopyServiceProofs

Served == INSTANCE CopyServiceProofs WITH stack <- ServiceCalls(stack), running <- TheCopy

-----------------------------------------------------------------------------
(* The calls.                                                              *)

ReturnFrames == [pc : {"Return"}, rv : Results]
DraftFrames == [pc : {"Draft"}, id : Ids, src : Srcs]
CopyFrames == [pc : {"Copy"}, id : Ids, type : Types, src : Srcs, dst : Dsts, name : Names]
NotifyFrames == [pc : {"NotifyCompletion"}, src : Srcs, dst : Dsts, rv : Results, orig : Nat]
EndCopyFrames == [pc : {"EndCopy"}, id : Ids, n : Nat, ok : BOOLEAN]
EndMoveFrames == [pc : {"EndMove"}, id : Ids, n : Nat, ok : BOOLEAN]
NextFrames == [pc : {"NextMessage"}, id : Ids, n : Nat, src : Srcs]
StreamType == [id : Ids, src : Srcs, n : Nat, at : {"begin", "data", "stop"}, ok : BOOLEAN]
LocalFrames == ReturnFrames \cup DraftFrames \cup {DoNextCopyCall} \cup CopyFrames \cup NotifyFrames
              \cup {OnStopCopyCall(id) : id \in Ids} \cup EndCopyFrames \cup EndMoveFrames
              \cup NextFrames
CopiedType == [header : Nat, body : Nat]

\* The calls beneath one of the service's: folders that are still to return, the
\* innermost of which may be replacing a draft.
Waiting(s) == /\ s \in Seq(ReturnFrames \cup DraftFrames)
              /\ s # <<>> => Tail(s) \in Seq(ReturnFrames)
HoldsDraft(s) == s # <<>> /\ Head(s).pc = "Draft"

NoCopy == mCopyState = NoState
QueueEmpty == m_copyRequests = <<>>
Oldest == m_copyRequests[1]

\* Nothing of a request has been copied or deleted yet.
Fresh(id) == copied[id] = <<>> /\ id \notin deleted

\* The request the folder is asked to copy.
Taken(f) == /\ ~ QueueEmpty
            /\ Oldest.id = f.id /\ Oldest.src = f.src /\ Oldest.type = f.type
            /\ Underway(Oldest) /\ Fresh(f.id)
            /\ f.type = "file" => Oldest.processed

\* The request the service is told of, when it replaces a draft.
Told(f) == /\ Len(m_copyRequests) = 1 /\ f.orig >= 1
           /\ Oldest.processed /\ Oldest.src = f.src /\ Oldest.dst = f.dst

\* Message n of the copy has been read.
Read(n, ok) ==
    /\ n = Len(copied[mCopyState.id]) + 1 /\ n <= mCopyState.total
    /\ n > 1 => mCopyState.dstKey
    /\ ok => ~ mCopyState.writeFailed /\ mCopyState.cur = n /\ mCopyState.message = n
    /\ unfinished > 1 => mCopyState.open /\ mCopyState.dstKey

\* Message n of the copy has been finished.
ReadToEnd(n) ==
    /\ n = Len(copied[mCopyState.id]) /\ n = mCopyState.cur
    /\ ~ mCopyState.writeFailed /\ mCopyState.dstKey /\ unfinished <= 1

\* After f the protocol goes on with the next message, or it does not.
GoesOn(f, s) ==
    s # <<>> => /\ Head(s) \in NextFrames /\ Tail(s) = <<>>
                /\ f.ok /\ mCopyState.multiple /\ f.n < mCopyState.total
                /\ Head(s).n = f.n
                /\ Head(s).id = mCopyState.id /\ Head(s).src = mCopyState.src

\* The move of the message whose copy f ends.
Moves(f, s) == /\ s # <<>> /\ Head(s) \in EndMoveFrames
               /\ Head(s).id = f.id /\ Head(s).n = f.n /\ Head(s).ok = f.ok
               /\ GoesOn(f, Tail(s))

AtRest == Waiting(stack) /\ (HoldsDraft(stack) => rv = "ok")

AtDoNextCopy == /\ Frame = DoNextCopyCall /\ NoCopy
                /\ Waiting(Beneath) /\ (HoldsDraft(Beneath) => QueueEmpty)

AtCopy == /\ Frame \in CopyFrames
          /\ Beneath \in Seq(ReturnFrames) /\ NoCopy /\ Taken(Frame)

AtNotify == /\ Frame \in NotifyFrames
            /\ Waiting(Beneath) /\ NoCopy
            /\ HoldsDraft(Beneath) => QueueEmpty \/ Told(Frame)

AtOnStopCopy == /\ Frame \in {OnStopCopyCall(id) : id \in Ids}
                /\ Beneath # <<>> /\ Head(Beneath) \in NotifyFrames
                /\ Waiting(Tail(Beneath)) /\ NoCopy
                /\ HoldsDraft(Tail(Beneath)) => QueueEmpty

AtEndCopy == /\ Frame \in EndCopyFrames
             /\ ~ NoCopy /\ Frame.id = mCopyState.id
             /\ streams = {} /\ Read(Frame.n, Frame.ok)
             /\ IF mCopyState.isMove THEN Moves(Frame, Beneath) ELSE GoesOn(Frame, Beneath)

AtEndMove == /\ Frame \in EndMoveFrames
             /\ ~ NoCopy /\ Frame.id = mCopyState.id /\ mCopyState.isMove
             /\ GoesOn(Frame, Beneath)
             /\ Frame.ok => ReadToEnd(Frame.n)
             /\ streams # {} => /\ Frame.ok /\ Frame.n < mCopyState.total
                                /\ ~ mCopyState.multiple
             /\ unfinished <= 1

AtNextMessage == /\ Frame \in NextFrames /\ Beneath = <<>>
                 /\ ~ NoCopy /\ Frame.id = mCopyState.id /\ Frame.src = mCopyState.src
                 /\ mCopyState.multiple /\ Frame.n < mCopyState.total
                 /\ streams = {} /\ ReadToEnd(Frame.n)

Control ==
  /\ stack \in Seq(LocalFrames)
  /\ stack # <<>> =>
    \/ AtRest \/ AtDoNextCopy \/ AtCopy \/ AtNotify \/ AtOnStopCopy
    \/ AtEndCopy \/ AtEndMove \/ AtNextMessage

-----------------------------------------------------------------------------
(* The queue, the state, the streams and the file.                         *)

IsDraft(src) == Job[src].source = "file" /\ Job[src].move

Asked(r) == \E o \in Offers : /\ r.type = o.type /\ r.src = o.src /\ r.dst = o.dst
                              /\ r.type = "messages" => /\ Len(r.sources) = 1
                                                        /\ r.sources[1].folder = r.src

\* Only the first request can be under way, and a draft is alone.
JobQueue ==
    \A i \in DOMAIN m_copyRequests :
       LET r == m_copyRequests[i]
       IN  /\ Asked(r)
           /\ Underway(r) => i = 1
           /\ ~ Underway(r) => Fresh(r.id)
           /\ IsDraft(r.src) => Len(m_copyRequests) = 1

\* What the folder believes of its copy is what was asked for.
StateOK ==
    ~ NoCopy =>
       /\ mCopyState \in StateType /\ mCopyState.cur <= mCopyState.total
       /\ mCopyState.isMove = Job[mCopyState.src].move
       /\ mCopyState.total = Job[mCopyState.src].total
       /\ Job[mCopyState.src].source # "file"
       /\ mCopyState.multiple <=> Job[mCopyState.src].source = "mailbox" /\ mCopyState.total > 1
       /\ ~ QueueEmpty /\ Underway(Oldest)
       /\ Oldest.id = mCopyState.id /\ Oldest.src = mCopyState.src
       /\ mCopyState.id \notin deleted

StreamOK(s) ==
    /\ s \in StreamType /\ s.id = mCopyState.id /\ s.src = mCopyState.src
    /\ s.n = Len(copied[mCopyState.id]) + 1 /\ s.n <= mCopyState.total
    /\ s.n > 1 => mCopyState.dstKey
    /\ s.at = "begin" =>
         /\ s.ok /\ ~ mCopyState.writeFailed /\ unfinished <= 1
         /\ mCopyState.cur = IF mCopyState.multiple /\ mCopyState.open THEN s.n ELSE s.n - 1
    /\ s.at = "data" =>
         /\ s.ok /\ ~ mCopyState.writeFailed /\ unfinished <= 1 /\ mCopyState.open
         /\ mCopyState.cur = s.n /\ mCopyState.message = s.n
    /\ s.at = "stop" => Read(s.n, s.ok)

\* One stream at a time, which belongs to the folder's state.
Streams == /\ \A s \in streams : ~ NoCopy /\ StreamOK(s)
           /\ \A s, t \in streams : s = t

Files == /\ copied \in [Ids -> Seq(CopiedType)]
         /\ deleted \subseteq Ids
         /\ unfinished \in Nat
         /\ NoCopy => unfinished <= 1
         /\ \A id \in Ids : id >= nextId => Fresh(id)

Flags == rv \in Results /\ locked \in BOOLEAN /\ m_stopped \in BOOLEAN

IInv == /\ Served!TypeOK /\ Served!QueueInv
        /\ Control /\ JobQueue /\ StateOK /\ Streams /\ Files /\ Flags
        /\ InStep /\ DeletedOnlyIfCopied

-----------------------------------------------------------------------------
(* The service's calls.                                                    *)

NoService(s) == \A i \in DOMAIN s : ~ IsServiceCall(s[i])

LEMMA MaxIs ==
    ASSUME NEW T \in SUBSET Nat, NEW n \in T, \A y \in T : y <= n
    PROVE  Max(T) = n
<1>1. \A x \in T : (\A y \in T : x >= y) => x = n
  BY SMT
<1>2. \A y \in T : n >= y
  BY SMT
<1>. QED  BY <1>1, <1>2, Zenon DEF Max

\* None of the service's calls, one, or a listener's above one.
LEMMA NoCalls ==
    ASSUME NEW S, NEW s \in Seq(S), NoService(s)
    PROVE  ServiceCalls(s) = <<>>
<1>1. {i \in DOMAIN s : IsServiceCall(s[i])} = {}
  BY DEF NoService
<1>2. Max({0} \cup {i \in DOMAIN s : IsServiceCall(s[i])}) = 0
  <2>1. {0} \cup {i \in DOMAIN s : IsServiceCall(s[i])} = {0}
    BY <1>1
  <2>2. Max({0}) = 0
    BY MaxIs
  <2>. QED  BY <2>1, <2>2
<1>3. SubSeq(s, 1, 0) = <<>>
  BY SubSeqEmpty
<1>. QED  BY <1>2, <1>3 DEF ServiceCalls

LEMMA OneCall ==
    ASSUME NEW S, NEW f \in S, NEW s \in Seq(S), NoService(s), IsServiceCall(f)
    PROVE  ServiceCalls(Cons(f, s)) = <<f>>
<1> DEFINE c == Cons(f, s)
           T == {0} \cup {i \in DOMAIN c : IsServiceCall(c[i])}
<1>1. c \in Seq(S) /\ Len(c) = Len(s) + 1 /\ Len(s) \in Nat
  BY DEF Cons
<1>2. c[1] = f /\ \A i \in 2..Len(c) : c[i] = s[i - 1] /\ i - 1 \in DOMAIN s
  BY DEF Cons
<1> HIDE DEF c
<1>3. T \in SUBSET Nat
  BY <1>1
<1>4. 1 \in T
  BY <1>1, <1>2
<1>5. \A y \in T : y <= 1
  <2>1. \A i \in 2..Len(c) : ~ IsServiceCall(c[i])
    BY <1>2, Zenon DEF NoService
  <2>2. \A i \in DOMAIN c : i \in 2..Len(c) \/ i <= 1
    BY <1>1
  <2>. QED  BY <2>1, <2>2
<1> HIDE DEF T
<1>6. Max(T) = 1
  BY <1>3, <1>4, <1>5, MaxIs
<1>7. SubSeq(c, 1, 1) = <<f>>
  <2>1. /\ SubSeq(c, 1, 1) \in Seq(S) /\ Len(SubSeq(c, 1, 1)) = 1
        /\ SubSeq(c, 1, 1)[1] = c[1]
    BY <1>1, SubSeqProperties
  <2>2. <<f>> \in Seq(S) /\ Len(<<f>>) = 1 /\ <<f>>[1] = f
    OBVIOUS
  <2>3. \A i \in 1..1 : SubSeq(c, 1, 1)[i] = <<f>>[i]
    <3>1. \A i \in 1..1 : i = 1
      OBVIOUS
    <3>. QED  BY <1>2, <2>1, <2>2, <3>1, Zenon
  <2>. QED  BY <2>1, <2>2, <2>3, SeqEqual
<1>. QED  BY <1>6, <1>7 DEF ServiceCalls, T, c

LEMMA TwoCalls ==
    ASSUME NEW S, NEW g \in S, NEW f \in S, NEW s \in Seq(S), NoService(s),
           IsServiceCall(f), IsServiceCall(g)
    PROVE  ServiceCalls(Cons(g, Cons(f, s))) = <<g, f>>
<1> DEFINE c == Cons(g, Cons(f, s))
           T == {0} \cup {i \in DOMAIN c : IsServiceCall(c[i])}
<1>1. c \in Seq(S) /\ Len(c) = Len(s) + 2 /\ Len(s) \in Nat
  BY DEF Cons
<1>2. c[1] = g /\ c[2] = f /\ \A i \in 3..Len(c) : c[i] = s[i - 2] /\ i - 2 \in DOMAIN s
  BY DEF Cons
<1> HIDE DEF c
<1>3. T \in SUBSET Nat
  BY <1>1
<1>4. 2 \in T
  BY <1>1, <1>2
<1>5. \A y \in T : y <= 2
  <2>1. \A i \in 3..Len(c) : ~ IsServiceCall(c[i])
    BY <1>2, Zenon DEF NoService
  <2>2. \A i \in DOMAIN c : i \in 3..Len(c) \/ i <= 2
    BY <1>1
  <2>. QED  BY <2>1, <2>2
<1> HIDE DEF T
<1>6. Max(T) = 2
  BY <1>3, <1>4, <1>5, MaxIs
<1>7. SubSeq(c, 1, 2) = <<g, f>>
  <2>1. /\ SubSeq(c, 1, 2) \in Seq(S) /\ Len(SubSeq(c, 1, 2)) = 2
        /\ SubSeq(c, 1, 2)[1] = c[1] /\ SubSeq(c, 1, 2)[2] = c[2]
    BY <1>1, SubSeqProperties
  <2>2. <<g, f>> \in Seq(S) /\ Len(<<g, f>>) = 2 /\ <<g, f>>[1] = g /\ <<g, f>>[2] = f
    OBVIOUS
  <2>3. \A i \in 1..2 : SubSeq(c, 1, 2)[i] = <<g, f>>[i]
    <3>1. \A i \in 1..2 : i = 1 \/ i = 2
      OBVIOUS
    <3>. QED  BY <1>2, <2>1, <2>2, <3>1, Zenon
  <2>. QED  BY <2>1, <2>2, <2>3, SeqEqual
<1>. QED  BY <1>6, <1>7 DEF ServiceCalls, T, c

\* An instance of the service has the same types: none depends on a variable.
LEMMA ServedSets ==
    /\ Served!Ids = Ids /\ Served!Results = Results
    /\ Served!FrameType = FrameType
    /\ Served!RequestType = RequestType
    /\ Served!CopyType = CopyType
<1>1. /\ Served!Ids = Ids /\ Served!Results = Results /\ Served!Types = Types
      /\ Served!Dsts = Dsts /\ Served!Srcs = Srcs /\ Served!Names = Names
  BY DEF Served!Ids, Served!Results, Served!Types, Served!Dsts, Served!Srcs, Served!Names,
         Ids, Results, Types, Dsts, Srcs, Names
<1>2. Served!Places = Places /\ Served!SourceType = SourceType
  BY <1>1 DEF Served!Places, Served!SourceType, Places, SourceType
<1>3. Served!DoNextCopyCall = DoNextCopyCall
  BY DEF Served!DoNextCopyCall, DoNextCopyCall
<1>4. \A id : Served!OnStopCopyCall(id) = OnStopCopyCall(id)
  BY DEF Served!OnStopCopyCall, OnStopCopyCall
<1>5. Served!FrameType = FrameType
  BY <1>1, <1>2, <1>3, <1>4 DEF Served!FrameType, FrameType
<1>6. Served!RequestType = RequestType /\ Served!CopyType = CopyType
  BY <1>1, <1>2 DEF Served!RequestType, Served!CopyType, RequestType, CopyType
<1>. QED  BY <1>1, <1>5, <1>6

LEMMA ServedTypes ==
    Served!TypeOK <=> /\ m_copyRequests \in Seq(RequestType)
                      /\ ServiceCalls(stack) \in Seq(FrameType)
                      /\ TheCopy \subseteq CopyType
                      /\ nextId \in 1..(MaxRequests + 1)
                      /\ starts \in [Ids -> Nat]
                      /\ stopped \in [Ids -> Results \cup {"none"}]
                      /\ verdict \in [Ids -> Results \cup {"none"}]
  BY ServedSets, Zenon DEF Served!TypeOK

\* There is one folder.
LEMMA TheFolder ==
    /\ (CHOOSE d \in Dsts : TRUE) \in Dsts
    /\ \A d, e \in Dsts : d = e
  BY LocalAssumption

LEMMA WaitingCalls ==
    ASSUME NEW s, Waiting(s)
    PROVE  /\ NoService(s) /\ s \in Seq(LocalFrames)
           /\ s # <<>> => /\ Head(s) \in ReturnFrames \cup DraftFrames
                          /\ Tail(s) \in Seq(ReturnFrames) /\ Waiting(Tail(s))
                          /\ ~ HoldsDraft(Tail(s))
<1>1. s \in Seq(ReturnFrames \cup DraftFrames) /\ \A i \in DOMAIN s : s[i] \in ReturnFrames \cup DraftFrames
  BY DEF Waiting
<1>2. \A f \in ReturnFrames \cup DraftFrames : ~ IsServiceCall(f) /\ f \in LocalFrames
  BY DEF ReturnFrames, DraftFrames, IsServiceCall, LocalFrames
<1>3. s \in Seq(LocalFrames)
  BY <1>1, <1>2
<1>4. ASSUME s # <<>>
      PROVE  /\ Head(s) \in ReturnFrames \cup DraftFrames
             /\ Tail(s) \in Seq(ReturnFrames) /\ Waiting(Tail(s))
             /\ ~ HoldsDraft(Tail(s))
  <2>1. Head(s) \in ReturnFrames \cup DraftFrames /\ Tail(s) \in Seq(ReturnFrames)
    BY <1>1, <1>4 DEF Waiting
  <2>2. Tail(s) # <<>> => Head(Tail(s)) \in ReturnFrames /\ Tail(Tail(s)) \in Seq(ReturnFrames)
    BY <2>1
  <2>3. Tail(s) \in Seq(ReturnFrames \cup DraftFrames)
    BY <2>1
  <2>. QED  BY <2>1, <2>2, <2>3 DEF Waiting, HoldsDraft, ReturnFrames
<1>. QED  BY <1>1, <1>2, <1>3, <1>4, Zenon DEF NoService

LEMMA ReturnsWait ==
    ASSUME NEW s \in Seq(ReturnFrames)
    PROVE  Waiting(s) /\ ~ HoldsDraft(s)
<1>1. s # <<>> => Head(s) \in ReturnFrames /\ Tail(s) \in Seq(ReturnFrames)
  OBVIOUS
<1>2. s \in Seq(ReturnFrames \cup DraftFrames)
  OBVIOUS
<1>. QED  BY <1>1, <1>2 DEF Waiting, HoldsDraft, ReturnFrames

\* The innermost call tells where the code is.
LEMMA Where ==
    ASSUME Control, stack # <<>>
    PROVE  /\ Frame \in LocalFrames /\ Beneath \in Seq(LocalFrames)
           /\ stack = Cons(Frame, Beneath)
           /\ Running("Return") \/ Running("Draft") => AtRest
           /\ Running("DoNextCopy") => AtDoNextCopy
           /\ Running("Copy") => AtCopy
           /\ Running("NotifyCompletion") => AtNotify
           /\ Running("OnStopCopy") => AtOnStopCopy
           /\ Running("EndCopy") => AtEndCopy
           /\ Running("EndMove") => AtEndMove
           /\ Running("NextMessage") => AtNextMessage
<1>1. stack \in Seq(LocalFrames)
  BY DEF Control
<1>2. Frame \in LocalFrames /\ Beneath \in Seq(LocalFrames) /\ stack = Cons(Frame, Beneath)
  BY <1>1 DEF Frame, Beneath, Cons
<1>3. AtRest => Frame.pc \in {"Return", "Draft"}
  <2>1. AtRest => Frame \in ReturnFrames \cup DraftFrames
    BY WaitingCalls DEF AtRest, Frame
  <2>. QED  BY <2>1 DEF ReturnFrames, DraftFrames
<1>4. /\ AtDoNextCopy => Frame.pc = "DoNextCopy"
      /\ AtCopy => Frame.pc = "Copy"
      /\ AtNotify => Frame.pc = "NotifyCompletion"
      /\ AtOnStopCopy => Frame.pc = "OnStopCopy"
  BY DEF AtDoNextCopy, AtCopy, AtNotify, AtOnStopCopy, DoNextCopyCall, CopyFrames, NotifyFrames,
         OnStopCopyCall
<1>5. /\ AtEndCopy => Frame.pc = "EndCopy"
      /\ AtEndMove => Frame.pc = "EndMove"
      /\ AtNextMessage => Frame.pc = "NextMessage"
  BY DEF AtEndCopy, AtEndMove, AtNextMessage, EndCopyFrames, EndMoveFrames, NextFrames
<1>6. \/ AtRest \/ AtDoNextCopy \/ AtCopy \/ AtNotify \/ AtOnStopCopy
      \/ AtEndCopy \/ AtEndMove \/ AtNextMessage
  BY DEF Control
<1>7. \A pc : Running(pc) => Frame.pc = pc
  BY DEF Running, Frame
<1>. QED  BY <1>2, <1>3, <1>4, <1>5, <1>6, <1>7

\* While the folder ends a message none of the service's calls is in progress.
LEMMA OutsideCalls ==
    ASSUME Control, stack # <<>>, AtEndCopy \/ AtEndMove \/ AtNextMessage
    PROVE  NoService(stack) /\ NoService(Beneath)
<1>1. stack \in Seq(LocalFrames) /\ Beneath \in Seq(LocalFrames)
  BY DEF Control, Beneath
<1>2. \A f \in EndCopyFrames \cup EndMoveFrames \cup NextFrames : ~ IsServiceCall(f)
  BY DEF EndCopyFrames, EndMoveFrames, NextFrames, IsServiceCall
<1>3. ASSUME NEW f, NEW s \in Seq(LocalFrames), GoesOn(f, s)
      PROVE  \A i \in DOMAIN s : s[i] \in NextFrames
  <2>1. s # <<>> => /\ Head(s) \in NextFrames /\ Tail(s) = <<>>
    BY <1>3 DEF GoesOn
  <2>2. s # <<>> => Head(s) = s[1] /\ Len(Tail(s)) = Len(s) - 1
    OBVIOUS
  <2>3. ASSUME s # <<>>, NEW i \in DOMAIN s PROVE s[i] \in NextFrames
    <3>1. Len(Tail(s)) = 0 /\ Len(s) \in Nat
      <4>1. Tail(s) = <<>>
        BY <2>1, <2>3
      <4>2. Len(<<>>) = 0
        BY EmptySeq
      <4>3. Len(s) \in Nat
        BY LenProperties
      <4>. QED  BY <4>1, <4>2, <4>3, Zenon
    <3>2. Len(s) = 1
      BY <2>2, <2>3, <3>1
    <3>3. i = 1
      BY <2>3, <3>2
    <3>. QED  BY <2>1, <2>2, <2>3, <3>3
  <2>. QED  BY <2>3
<1>4. Frame \in EndCopyFrames \cup EndMoveFrames \cup NextFrames
  BY DEF AtEndCopy, AtEndMove, AtNextMessage
<1>5. \A i \in DOMAIN Beneath : Beneath[i] \in EndMoveFrames \cup NextFrames
  <2>1. CASE GoesOn(Frame, Beneath)
    BY <1>1, <1>3, <2>1
  <2>2. CASE Moves(Frame, Beneath)
    <3>1. Head(Beneath) \in EndMoveFrames /\ Beneath # <<>> /\ GoesOn(Frame, Tail(Beneath))
      BY <2>2 DEF Moves
    <3>2. Tail(Beneath) \in Seq(LocalFrames)
      BY <1>1, <3>1
    <3>3. \A i \in DOMAIN Tail(Beneath) : Tail(Beneath)[i] \in NextFrames
      BY <1>3, <3>1, <3>2
    <3>4. \A i \in DOMAIN Beneath :
             i = 1 \/ (i - 1 \in DOMAIN Tail(Beneath) /\ Beneath[i] = Tail(Beneath)[i - 1])
      BY <1>1, <3>1
    <3>5. Beneath[1] = Head(Beneath)
      BY <1>1, <3>1
    <3>. QED  BY <3>1, <3>3, <3>4, <3>5
  <2>3. CASE Beneath = <<>>
    BY <2>3
  <2>. QED  BY <2>1, <2>2, <2>3 DEF AtEndCopy, AtEndMove, AtNextMessage
<1>6. \A i \in DOMAIN stack : i = 1 \/ (i - 1 \in DOMAIN Beneath /\ stack[i] = Beneath[i - 1])
  BY <1>1 DEF Beneath
<1>7. stack[1] = Frame
  BY <1>1 DEF Frame
<1>. QED  BY <1>2, <1>4, <1>5, <1>6, <1>7 DEF NoService

\* Which of the calls in progress are the service's.
CallsLocated ==
    /\ stack = <<>> => ServiceCalls(stack) = <<>>
    /\ stack # <<>> =>
         /\ AtRest \/ AtEndCopy \/ AtEndMove \/ AtNextMessage => ServiceCalls(stack) = <<>>
         /\ AtDoNextCopy \/ AtCopy \/ AtNotify => ServiceCalls(stack) = <<Frame>>
         /\ AtOnStopCopy => ServiceCalls(stack) = <<Frame, Head(Beneath)>>

LEMMA CallsAt == Control => CallsLocated
<1> SUFFICES ASSUME Control PROVE CallsLocated
  OBVIOUS
<1>1. stack \in Seq(LocalFrames)
  BY DEF Control
<1>2. CASE stack = <<>>
  <2>1. NoService(stack)
    BY <1>2 DEF NoService
  <2>. QED  BY <1>1, <1>2, <2>1, NoCalls DEF CallsLocated
<1>3. CASE stack # <<>>
  <2>1. Frame \in LocalFrames /\ Beneath \in Seq(LocalFrames) /\ stack = Cons(Frame, Beneath)
    BY <1>3, Where
  <2>2. AtRest => ServiceCalls(stack) = <<>>
    BY <1>1, WaitingCalls, NoCalls DEF AtRest
  <2>3. AtEndCopy \/ AtEndMove \/ AtNextMessage => NoService(stack)
    BY <1>3, OutsideCalls
  <2>4. AtDoNextCopy \/ AtCopy \/ AtNotify => ServiceCalls(stack) = <<Frame>>
    <3> SUFFICES ASSUME AtDoNextCopy \/ AtCopy \/ AtNotify PROVE ServiceCalls(stack) = <<Frame>>
      OBVIOUS
    <3>1. IsServiceCall(Frame)
      BY DEF IsServiceCall, AtDoNextCopy, AtCopy, AtNotify, CopyFrames, NotifyFrames, DoNextCopyCall
    <3>2. NoService(Beneath)
      BY WaitingCalls, ReturnsWait DEF AtDoNextCopy, AtCopy, AtNotify
    <3>3. ServiceCalls(Cons(Frame, Beneath)) = <<Frame>>
      BY <2>1, <3>1, <3>2, OneCall
    <3>. QED  BY <2>1, <3>3
  <2>5. AtOnStopCopy => ServiceCalls(stack) = <<Frame, Head(Beneath)>>
    <3> SUFFICES ASSUME AtOnStopCopy PROVE ServiceCalls(stack) = <<Frame, Head(Beneath)>>
      OBVIOUS
    <3>1. IsServiceCall(Frame) /\ IsServiceCall(Head(Beneath))
      BY DEF IsServiceCall, AtOnStopCopy, NotifyFrames, OnStopCopyCall
    <3>2. NoService(Tail(Beneath))
      BY WaitingCalls DEF AtOnStopCopy
    <3>3. Head(Beneath) \in LocalFrames /\ Tail(Beneath) \in Seq(LocalFrames)
          /\ Beneath = Cons(Head(Beneath), Tail(Beneath))
      BY <2>1 DEF AtOnStopCopy, Cons
    <3>4. ServiceCalls(Cons(Frame, Cons(Head(Beneath), Tail(Beneath)))) = <<Frame, Head(Beneath)>>
      BY <2>1, <3>1, <3>2, <3>3, TwoCalls
    <3>. QED  BY <2>1, <3>3, <3>4
  <2>. QED  BY <1>1, <1>3, <2>2, <2>3, <2>4, <2>5, NoCalls DEF CallsLocated
<1>. QED  BY <1>2, <1>3 DEF CallsLocated

LEMMA CallsAtNext == Control' => CallsLocated'
  BY CallsAt, PTL

-----------------------------------------------------------------------------
(* The queue: one destination, and only the oldest request under way.      *)

LEMMA AskedFor ==
    ASSUME NEW r, Asked(r)
    PROVE  /\ r.src \in Srcs /\ r.dst \in Dsts /\ r.type \in {"messages", "file"}
           /\ r.type = "file" <=> Job[r.src].source = "file"
           /\ Job[r.src].move \in BOOLEAN /\ Job[r.src].total \in Nat
           /\ Job[r.src].source # "file" => Job[r.src].total > 0
<1>1. PICK o \in Offers : r.type = o.type /\ r.src = o.src /\ r.dst = o.dst
  BY DEF Asked
<1>2. JobType(Job[o.src]) /\ o.type # "folder" /\ (o.type = "file" <=> Job[o.src].source = "file")
  BY LocalAssumption
<1>3. OfferType(o)
  BY CopyAssumption
<1>4. o.type \in Types /\ o.src \in Srcs /\ o.dst \in Dsts
  BY <1>3 DEF OfferType, Srcs, Dsts
<1>. QED  BY <1>1, <1>2, <1>4, Zenon DEF JobType, Types

LEMMA FoundIsFirst ==
    ASSUME m_copyRequests \in Seq(RequestType), JobQueue,
           \E i \in DOMAIN m_copyRequests : Startable(m_copyRequests, i)
    PROVE  /\ Found(m_copyRequests) = 1 /\ Len(m_copyRequests) >= 1
           /\ ~ Underway(Oldest)
<1> DEFINE q == m_copyRequests
           i == Found(q)
<1>1. i \in 1..Len(q) /\ Startable(q, i) /\ \A j \in 1..(i - 1) : ~ Startable(q, j)
  BY FoundRange
<1>2. 1 \in DOMAIN q /\ i \in DOMAIN q /\ Len(q) >= 1
  BY <1>1
<1>3. q[1].dst = q[i].dst
  BY <1>2, AskedFor, TheFolder DEF JobQueue
<1> HIDE DEF i
<1>4. ~ Underway(q[1])
  <2> SUFFICES ASSUME Underway(q[1]) PROVE FALSE
    BY DEF Oldest
  <2>1. i # 1
    BY <1>1 DEF Startable
  <2>2. 1 \in 1..(i - 1)
    BY <1>1, <2>1
  <2>3. q[1].dst \in ActiveTargets(q, i)
    BY <2>2 DEF ActiveTargets
  <2>. QED  BY <1>1, <1>3, <2>3 DEF Startable
<1>5. Startable(q, 1)
  <2>1. ActiveTargets(q, 1) = {}
    BY DEF ActiveTargets
  <2>. QED  BY <1>4, <2>1 DEF Startable
<1>6. i = 1
  <2> SUFFICES ASSUME i # 1 PROVE FALSE
    OBVIOUS
  <2>1. 1 \in 1..(i - 1)
    BY <1>1
  <2>. QED  BY <1>1, <1>5, <2>1
<1>. QED  BY <1>2, <1>4, <1>6 DEF i, Oldest

LEMMA OnlySource ==
    ASSUME NEW s \in Seq(SourceType), NEW e \in SourceType, Len(s) = 1
    PROVE  /\ Len([s EXCEPT ![1] = e]) = 1 /\ [s EXCEPT ![1] = e] # <<>>
           /\ [s EXCEPT ![1] = e][1] = e
<1>1. 1 \in 1..Len(s)
  OBVIOUS
<1>2. [s EXCEPT ![1] = e] \in Seq(SourceType) /\ Len([s EXCEPT ![1] = e]) = Len(s)
  BY <1>1, ExceptSeq
<1>3. [s EXCEPT ![1] = e][1] = e
  BY <1>1
<1>4. [s EXCEPT ![1] = e] # <<>>
  BY <1>2
<1>. QED  BY <1>2, <1>3, <1>4

\* What DoNextCopy makes of the request it starts.
LEMMA StartsOldest ==
    ASSUME m_copyRequests \in Seq(RequestType), JobQueue, DoNextCopyStarts
    PROVE  /\ Len(m_copyRequests) >= 1 /\ ~ Underway(Oldest)
           /\ m_copyRequests' \in Seq(RequestType)
           /\ Len(m_copyRequests') = Len(m_copyRequests)
           /\ \A i \in 2..Len(m_copyRequests) : m_copyRequests'[i] = m_copyRequests[i]
           /\ Oldest'.id = Oldest.id /\ Oldest'.src = Oldest.src /\ Oldest'.type = Oldest.type
           /\ Underway(Oldest') /\ Asked(Oldest')
           /\ Oldest.type = "file" => Oldest'.processed
           /\ stack' = Cons(CopyCall(Oldest, Oldest.src), Beneath)
<1> DEFINE q == m_copyRequests
           r == q[1]
           k == FirstSource(r)
           marked == IF r.sources # <<>>
                       THEN [r EXCEPT !.sources[k].processed = TRUE] ELSE r
           last == [marked EXCEPT !.processed = (r.type = "file")]
           m == MarkUnderway(q, 1)
<1>1. Found(q) = 1 /\ Len(q) >= 1 /\ ~ Underway(r) /\ 1 \in 1..Len(q)
  BY FoundIsFirst DEF DoNextCopyStarts, Oldest
<1>2. r \in RequestType /\ Asked(r)
  BY <1>1 DEF JobQueue
<1>3. r.sources \in Seq(SourceType) /\ r.sources # <<>> => ~ AllSourcesProcessed(r)
  BY <1>1, <1>2 DEF Underway, RequestType
<1>4. r.sources # <<>> => k \in 1..Len(r.sources)
  BY <1>1, <1>2, FirstSourceRange DEF Underway
<1>5. marked \in RequestType
  BY <1>2, <1>4, MarkedSource
<1>6. last \in RequestType
  BY <1>5, MarkedRequest
<1>7. /\ marked.id = r.id /\ marked.src = r.src /\ marked.type = r.type /\ marked.dst = r.dst
      /\ marked.sources = IF r.sources # <<>> THEN [r.sources EXCEPT ![k].processed = TRUE]
                                             ELSE r.sources
  BY <1>2 DEF RequestType
<1>8. /\ last.id = r.id /\ last.src = r.src /\ last.type = r.type /\ last.dst = r.dst
      /\ last.sources = marked.sources /\ last.processed = (r.type = "file")
  BY <1>5, <1>7 DEF RequestType
<1>9. r.type = "file" \/ (r.type = "messages" /\ Len(r.sources) = 1 /\ r.sources[1].folder = r.src)
  BY <1>2, AskedFor DEF Asked
<1>10. ASSUME r.type # "file"
       PROVE  /\ k = 1 /\ r.sources[k].folder = r.src
              /\ Len(last.sources) = 1 /\ last.sources # <<>>
              /\ last.sources[1].folder = r.src /\ last.sources[1].processed
  <2>1. r.sources \in Seq(SourceType) /\ Len(r.sources) = 1 /\ r.sources # <<>>
    BY <1>2, <1>9, <1>10 DEF RequestType
  <2>2. k = 1
    BY <1>4, <2>1
  <2>3. r.sources[1] \in SourceType
    BY <2>1
  <2>4. last.sources = [r.sources EXCEPT ![1].processed = TRUE]
    BY <1>7, <1>8, <2>1, <2>2
  <2>5. /\ Len(last.sources) = 1 /\ last.sources # <<>>
        /\ last.sources[1] = [r.sources[1] EXCEPT !.processed = TRUE]
    <3>2. [r.sources[1] EXCEPT !.processed = TRUE] \in SourceType
      BY <2>3 DEF SourceType
    <3> HIDE DEF r, last
    <3>. QED  BY <2>1, <2>4, <3>2, OnlySource
  <2>. QED  BY <1>9, <1>10, <2>2, <2>3, <2>5 DEF SourceType
<1>11. Underway(last)
  <2>1. CASE r.type = "file"
    BY <1>8, <2>1 DEF Underway
  <2>2. CASE r.type # "file"
    <3>1. last.sources \in Seq(SourceType)
      BY <1>6 DEF RequestType
    <3>2. DOMAIN last.sources = 1..1
      BY <1>10, <2>2, <3>1
    <3>. QED  BY <1>10, <2>2, <3>2 DEF Underway, AllSourcesProcessed
  <2>. QED  BY <2>1, <2>2
<1>12. Asked(last)
  <2>1. PICK o \in Offers : r.type = o.type /\ r.src = o.src /\ r.dst = o.dst
    BY <1>2 DEF Asked
  <2>2. last.type = "messages" => Len(last.sources) = 1 /\ last.sources[1].folder = last.src
    BY <1>8, <1>10
  <2>. QED  BY <1>8, <2>1, <2>2 DEF Asked
<1> HIDE DEF last, marked, k
<1>13. m \in Seq(RequestType) /\ Len(m) = Len(q)
  BY MarkUnderwayType
<1>14. \A i \in 2..Len(q) : m[i] = q[i]
  BY DEF MarkUnderway
<1>15. m_copyRequests' = [m EXCEPT ![1] = last]
  BY <1>1 DEF DoNextCopyStarts, last, marked, k
<1>16. stack' = Cons(CopyCall(r, r.src), Beneath)
  <2>1. stack' = Cons(CopyCall(r, IF r.type = "file" THEN r.src ELSE r.sources[k].folder), Tail(stack))
    BY <1>1 DEF DoNextCopyStarts, ReturnAndCall, k
  <2>. QED  BY <1>10, <2>1 DEF Beneath
<1> HIDE DEF m, r, q
<1>17. /\ m_copyRequests' \in Seq(RequestType) /\ Len(m_copyRequests') = Len(q)
       /\ m_copyRequests'[1] = last
       /\ \A i \in 2..Len(q) : m_copyRequests'[i] = m[i]
  <2>1. m_copyRequests' \in Seq(RequestType) /\ Len(m_copyRequests') = Len(m)
    BY <1>1, <1>6, <1>13, <1>15, ExceptSeq
  <2>2. DOMAIN m = 1..Len(q)
    BY <1>13
  <2>. QED  BY <1>1, <1>13, <1>15, <2>1, <2>2
<1>18. Oldest = r /\ Oldest' = last
  BY <1>17 DEF Oldest, r, q
<1>. QED  BY <1>1, <1>8, <1>11, <1>12, <1>14, <1>16, <1>17, <1>18 DEF q

-----------------------------------------------------------------------------
(* The steps of the service, of which the composition is an instance: the   *)
(* operators that depend on no call and no copy are the same in both.       *)

LEMMA ServedAssumption ==
    /\ \A o \in Offers : Served!OfferType(o)
    /\ MaxRequests \in Nat
    /\ Reenter \subseteq Offers
    /\ AtOnce \subseteq Served!Dsts
    /\ {CanFail, CanRefuse, Dialogs, UniquePairs} \subseteq BOOLEAN
    /\ DOMAIN NewNames = Served!Names
    /\ \A n \in Served!Names : n \in NewNames[n]
<1>1. /\ Served!Dsts = Dsts /\ Served!Names = Names /\ Served!Types = Types
      /\ Served!Srcs = Srcs
  BY DEF Served!Dsts, Dsts, Served!Names, Names, Served!Types, Types, Served!Srcs, Srcs
<1>2. \A o : Served!OfferType(o) <=> OfferType(o)
  BY <1>1 DEF Served!OfferType, OfferType
<1>. QED  BY <1>1, <1>2, CopyAssumption

LEMMA SameMin == \A T : Served!Min(T) = Min(T)
  BY DEF Served!Min, Min

LEMMA ServedQueueOps ==
    /\ \A id, o : Served!NewRequest(id, o) = NewRequest(id, o)
    /\ \A o, r : Served!Clashes(o, r) <=> Clashes(o, r)
    /\ \A r : Served!Underway(r) <=> Underway(r)
    /\ \A r : Served!AllSourcesProcessed(r) <=> AllSourcesProcessed(r)
    /\ \A r : Served!FirstSource(r) = FirstSource(r)
    /\ \A q, i : Served!Startable(q, i) <=> Startable(q, i)
    /\ \A q : Served!Found(q) = Found(q)
    /\ \A q, i : Served!MarkUnderway(q, i) = MarkUnderway(q, i)
<1>1. /\ \A id, o : Served!NewRequest(id, o) = NewRequest(id, o)
      /\ \A o, r : Served!Clashes(o, r) <=> Clashes(o, r)
  BY DEF Served!NewRequest, NewRequest, Served!Clashes, Clashes
<1>2. \A r : Served!AllSourcesProcessed(r) <=> AllSourcesProcessed(r)
  BY DEF Served!AllSourcesProcessed, AllSourcesProcessed
<1>3. \A r : Served!Underway(r) <=> Underway(r)
  BY <1>2 DEF Served!Underway, Underway
<1>4. \A q, i : Served!ActiveTargets(q, i) = ActiveTargets(q, i)
  BY <1>3 DEF Served!ActiveTargets, ActiveTargets
<1>5. \A q, i : Served!Startable(q, i) <=> Startable(q, i)
  BY <1>3, <1>4 DEF Served!Startable, Startable
<1>6. \A q : Served!Found(q) = Found(q)
  <2> SUFFICES ASSUME NEW q PROVE Served!Found(q) = Found(q)
    OBVIOUS
  <2>1. {i \in DOMAIN q : Served!Startable(q, i)} = {i \in DOMAIN q : Startable(q, i)}
    BY <1>5
  <2>. QED  BY <2>1, SameMin DEF Served!Found, Found
<1>7. \A r : Served!FirstSource(r) = FirstSource(r)
  BY SameMin DEF Served!FirstSource, FirstSource
<1>8. \A q, i : Served!MarkUnderway(q, i) = MarkUnderway(q, i)
  BY <1>3, <1>4 DEF Served!MarkUnderway, MarkUnderway
<1>. QED  BY <1>1, <1>2, <1>3, <1>5, <1>6, <1>7, <1>8

LEMMA ServedCalls ==
    /\ Served!DoNextCopyCall = DoNextCopyCall
    /\ \A r, from : Served!CopyCall(r, from) = CopyCall(r, from)
    /\ \A src, place, v, n : Served!NotifyCall(src, place, v, n) = NotifyCall(src, place, v, n)
    /\ \A id : Served!OnStopCopyCall(id) = OnStopCopyCall(id)
  BY DEF Served!DoNextCopyCall, DoNextCopyCall, Served!CopyCall, CopyCall, Served!NotifyCall,
         NotifyCall, Served!OnStopCopyCall, OnStopCopyCall

LEMMA ServedHit ==
    /\ \A f : Served!Hit(f) = Hit(f)
    /\ \A f : Served!Clears(f) <=> Clears(f)
<1>1. Served!Dsts = Dsts /\ Served!Names = Names
  BY DEF Served!Dsts, Dsts, Served!Names, Names
<1>2. \A place, dst : Served!IsChildOf(place, dst) <=> IsChildOf(place, dst)
  BY <1>1 DEF Served!IsChildOf, IsChildOf
<1>3. \A r, src, place : Served!FolderInPlace(r, src, place) <=> FolderInPlace(r, src, place)
  BY <1>2 DEF Served!FolderInPlace, FolderInPlace
<1>4. \A r, src, place : Served!Matches(r, src, place) <=> Matches(r, src, place)
  BY <1>3 DEF Served!Matches, Matches
<1>5. \A q, src, place : Served!FindRequest(q, src, place) = FindRequest(q, src, place)
  <2> SUFFICES ASSUME NEW q, NEW src, NEW place
               PROVE  Served!FindRequest(q, src, place) = FindRequest(q, src, place)
    OBVIOUS
  <2>1. {i \in DOMAIN q : Served!Matches(q[i], src, place)}
          = {i \in DOMAIN q : Matches(q[i], src, place)}
    BY <1>4
  <2>. QED  BY <1>3, <2>1, SameMin DEF Served!FindRequest, FindRequest
<1>6. \A f : Served!Hit(f) = Hit(f)
  BY <1>5 DEF Served!Hit, Hit
<1>. QED  BY <1>6, ServedQueueOps DEF Served!Clears, Clears, Served!Considered, Considered

\* What the service keeps for itself, whatever the step does to the calls.
LEMMA ServedKept ==
    ASSUME Served!TypeOK, Served!QueueInv, Served!Next \/ UNCHANGED Served!vars
    PROVE  Served!TypeOK' /\ Served!QueueInv'
<1>1. [Served!Next]_(Served!vars)
  OBVIOUS
<1>2. Served!TypeOK /\ [Served!Next]_(Served!vars) => Served!TypeOK'
  BY ServedAssumption, Served!TypeNext, Zenon
<1>3. Served!TypeOK /\ Served!QueueInv /\ [Served!Next]_(Served!vars) => Served!QueueInv'
  BY ServedAssumption, Served!QueueInvNext, Zenon
<1>. QED  BY <1>1, <1>2, <1>3

-----------------------------------------------------------------------------
(* What a step of the folder keeps.                                        *)

\* The types of the service's variables, without the calls and the copy.
ServiceTypes ==
    /\ m_copyRequests \in Seq(RequestType)
    /\ nextId \in 1..(MaxRequests + 1)
    /\ starts \in [Ids -> Nat]
    /\ stopped \in [Ids -> Results \cup {"none"}]
    /\ verdict \in [Ids -> Results \cup {"none"}]

LEMMA CallTypes == Control => ServiceCalls(stack) \in Seq(FrameType)
<1> SUFFICES ASSUME Control PROVE ServiceCalls(stack) \in Seq(FrameType)
  OBVIOUS
<1>1. CallsLocated
  BY CallsAt
<1>2. CopyFrames \cup NotifyFrames \cup {DoNextCopyCall} \cup {OnStopCopyCall(id) : id \in Ids}
        \subseteq FrameType
  BY DEF CopyFrames, NotifyFrames, FrameType, Places
<1>3. CASE stack = <<>>
  BY <1>1, <1>3, EmptySeq DEF CallsLocated
<1>4. CASE stack # <<>>
  <2>1. CASE AtDoNextCopy \/ AtCopy \/ AtNotify
    <3>1. Frame \in FrameType
      BY <1>2, <2>1 DEF AtDoNextCopy, AtCopy, AtNotify
    <3>. QED  BY <1>1, <1>4, <2>1, <3>1 DEF CallsLocated
  <2>2. CASE AtOnStopCopy
    <3>1. Frame \in FrameType /\ Head(Beneath) \in FrameType
      BY <1>2, <2>2 DEF AtOnStopCopy
    <3>2. <<Frame, Head(Beneath)>> \in Seq(FrameType)
      BY <3>1
    <3>. QED  BY <1>1, <1>4, <2>2, <3>2, Zenon DEF CallsLocated
  <2>3. CASE AtRest \/ AtEndCopy \/ AtEndMove \/ AtNextMessage
    <3>1. ServiceCalls(stack) = <<>>
      BY <1>1, <1>4, <2>3, Zenon DEF CallsLocated
    <3>. QED  BY <3>1, EmptySeq
  <2>. QED  BY <1>4, <2>1, <2>2, <2>3, Zenon DEF Control
<1>. QED  BY <1>3, <1>4

LEMMA CopyTyped == StateOK => TheCopy \subseteq CopyType
  BY DEF StateOK, TheCopy, NoCopy, StateType, CopyType, Places

LEMMA TypesServed == ServiceTypes /\ Control /\ StateOK => Served!TypeOK
  BY CallTypes, CopyTyped, ServedTypes DEF ServiceTypes

LEMMA TypesServedNext == ServiceTypes' /\ Control' /\ StateOK' => Served!TypeOK'
  BY TypesServed, PTL

LEMMA ServedAreTypes == Served!TypeOK => ServiceTypes
  BY ServedTypes DEF ServiceTypes

LEMMA FolderKeepsService ==
    ASSUME IInv, UNCHANGED serviceVars, verdict' \in [Ids -> Results \cup {"none"}],
           Control', StateOK'
    PROVE  Served!TypeOK' /\ Served!QueueInv'
<1>1. ServiceTypes
  BY ServedAreTypes DEF IInv
<1>2. ServiceTypes'
  BY <1>1 DEF ServiceTypes, serviceVars
<1>3. Served!TypeOK'
  BY <1>2, TypesServedNext
<1>4. Served!QueueInv'
  BY DEF IInv, serviceVars, Served!QueueInv, Served!QueueInOrder, Served!StoppedIffGone,
         Served!Untouched, Served!Accepted, Served!Queued
<1>. QED  BY <1>3, <1>4

\* A step that finishes and deletes no message.
LEMMA FolderKeeps ==
    ASSUME IInv, UNCHANGED <<serviceVars, copied, deleted>>,
           verdict' \in [Ids -> Results \cup {"none"}],
           Control', StateOK', Streams', Flags',
           unfinished' \in Nat, NoCopy' => unfinished' <= 1
    PROVE  IInv'
<1>1. Served!TypeOK' /\ Served!QueueInv'
  BY FolderKeepsService
<1>2. JobQueue'
  BY DEF IInv, serviceVars, JobQueue, Fresh, Asked, Underway, AllSourcesProcessed
<1>3. Files'
  BY DEF IInv, serviceVars, Files, Fresh
<1>4. InStep' /\ DeletedOnlyIfCopied'
  BY DEF IInv, serviceVars, InStep, DeletedOnlyIfCopied
<1>. QED  BY <1>1, <1>2, <1>3, <1>4 DEF IInv

\* A call that returns into a folder's, or to the event loop.
LEMMA ReturnsControl ==
    ASSUME NEW v, stack' = Beneath, rv' = v, Waiting(Beneath), HoldsDraft(Beneath) => v = "ok"
    PROVE  Control'
<1>1. Beneath \in Seq(LocalFrames)
  BY WaitingCalls
<1>. QED  BY <1>1 DEF Control, AtRest

LEMMA PushedFrame ==
    ASSUME NEW f \in LocalFrames, NEW rest \in Seq(LocalFrames), stack' = Cons(f, rest)
    PROVE  stack' \in Seq(LocalFrames) /\ stack' # <<>> /\ Frame' = f /\ Beneath' = rest
  BY ConsProperties DEF Frame, Beneath

\* The folder tells the service: a copy, which the service clears if it replaces
\* a draft.
LEMMA CompletesControl ==
    ASSUME m_copyRequests \in Seq(RequestType), UNCHANGED m_copyRequests,
           verdict \in [Ids -> Results \cup {"none"}],
           NEW id \in Ids, NEW src \in Srcs, NEW ok \in Results, NEW rest,
           Waiting(rest),
           HoldsDraft(rest) => \/ QueueEmpty
                               \/ /\ Len(m_copyRequests) = 1
                                  /\ Oldest.processed /\ Oldest.src = src
                                  /\ Oldest.dst \in Dsts,
           OnCopyCompleted(id, src, ok, rest)
    PROVE  /\ Control' /\ NoCopy' /\ StateOK' /\ rv' = rv
           /\ verdict' \in [Ids -> Results \cup {"none"}]
<1> DEFINE d == CHOOSE d \in Dsts : TRUE
           f == NotifyCall(src, d, ok, Len(m_copyRequests))
<1>1. d \in Dsts /\ \A e \in Dsts : e = d
  BY TheFolder
<1>2. f \in NotifyFrames
  BY <1>1 DEF NotifyCall, NotifyFrames
<1>3. f \in LocalFrames /\ rest \in Seq(LocalFrames)
  BY <1>2, WaitingCalls DEF LocalFrames
<1>4. f.orig = Len(m_copyRequests) /\ f.src = src /\ f.dst = d
  BY DEF NotifyCall
<1>5. stack' = Cons(f, rest)
  BY DEF OnCopyCompleted
<1> HIDE DEF f, d
<1>6. stack' \in Seq(LocalFrames) /\ stack' # <<>> /\ Frame' = f /\ Beneath' = rest
  BY <1>3, <1>5, PushedFrame
<1>7. NoCopy' /\ StateOK' /\ rv' = rv
  BY DEF OnCopyCompleted, NoCopy, StateOK
<1>8. HoldsDraft(rest) => QueueEmpty' \/ Told(f)
  <2>1. Oldest.dst \in Dsts => Oldest.dst = d
    BY <1>1
  <2>2. Len(m_copyRequests) = 1 => f.orig >= 1
    BY <1>4
  <2>. QED  BY <1>4, <2>1, <2>2 DEF Told, QueueEmpty
<1>9. AtNotify'
  <2>1. Frame' \in NotifyFrames /\ Waiting(Beneath')
    BY <1>2, <1>6
  <2>2. HoldsDraft(Beneath') => QueueEmpty' \/ Told(f)
    BY <1>6, <1>8
  <2>3. Told(Frame)' <=> Told(f)
    BY <1>6 DEF Told, Oldest
  <2>. QED  BY <1>7, <2>1, <2>2, <2>3 DEF AtNotify, HoldsDraft, Waiting
<1>10. verdict' \in [Ids -> Results \cup {"none"}]
  BY DEF OnCopyCompleted
<1>. QED  BY <1>6, <1>7, <1>9, <1>10 DEF Control

\* The end of a copy that was in progress: the calls beneath are one Return.
LEMMA EndsControl ==
    ASSUME m_copyRequests \in Seq(RequestType), UNCHANGED m_copyRequests,
           verdict \in [Ids -> Results \cup {"none"}],
           NEW id \in Ids, NEW src \in Srcs, NEW ok \in Results, NEW v \in Results,
           NEW rest \in Seq(ReturnFrames),
           OnCopyCompleted(id, src, ok, Cons(ReturnCall(v), rest))
    PROVE  /\ Control' /\ NoCopy' /\ StateOK' /\ rv' = rv
           /\ verdict' \in [Ids -> Results \cup {"none"}]
<1>1. ReturnCall(v) \in ReturnFrames
  BY DEF ReturnCall, ReturnFrames
<1>2. Cons(ReturnCall(v), rest) \in Seq(ReturnFrames)
  BY <1>1, ConsProperties
<1>3. Waiting(Cons(ReturnCall(v), rest)) /\ ~ HoldsDraft(Cons(ReturnCall(v), rest))
  BY <1>2, ReturnsWait
<1>. QED  BY <1>3, CompletesControl

LEMMA Known ==
    ASSUME IInv
    PROVE  /\ m_copyRequests \in Seq(RequestType)
           /\ verdict \in [Ids -> Results \cup {"none"}]
           /\ Control /\ JobQueue /\ StateOK /\ Streams /\ Files /\ Flags
           /\ NoCopy => streams = {} /\ unfinished <= 1
  BY ServedAreTypes DEF IInv, ServiceTypes, Streams, Files

\* A step that tells the service, with no message finished or deleted.
LEMMA ReportKeeps ==
    ASSUME IInv, UNCHANGED <<serviceVars, copied, deleted, locked, m_stopped>>,
           streams' = {}, Control', NoCopy', StateOK', rv' = rv,
           verdict' \in [Ids -> Results \cup {"none"}],
           unfinished' \in Nat, unfinished' <= 1
    PROVE  IInv'
<1>1. Streams' /\ Flags'
  BY DEF Streams, Flags, IInv
<1>. QED  BY <1>1, FolderKeeps

\* A call that returns and changes nothing else.
LEMMA ReturnKeeps ==
    ASSUME IInv, UNCHANGED <<serviceVars, folderVars, verdict>>, Control', rv' \in Results
    PROVE  IInv'
<1>1. StateOK'
  BY DEF IInv, StateOK, folderVars, serviceVars, NoCopy, QueueEmpty, Oldest, Underway,
         AllSourcesProcessed
<1>2. Streams'
  BY DEF IInv, Streams, StreamOK, Read, folderVars, NoCopy
<1>3. Flags' /\ unfinished' \in Nat /\ (NoCopy' => unfinished' <= 1)
  BY DEF IInv, Flags, Files, folderVars, NoCopy
<1>. QED  BY <1>1, <1>2, <1>3, Known, FolderKeeps DEF folderVars

LEMMA AtCopyFrame ==
    ASSUME IInv, Running("Copy")
    PROVE  /\ Frame.id \in Ids /\ Frame.src \in Srcs /\ Frame.type \in Types
           /\ Beneath \in Seq(ReturnFrames)
           /\ NoCopy /\ Taken(Frame) /\ streams = {} /\ unfinished <= 1 /\ unfinished \in Nat
<1>1. stack # <<>>
  BY DEF Running
<1>2. AtCopy
  BY <1>1, Known, Where
<1>. QED  BY <1>2, Known DEF AtCopy, CopyFrames, Files

LEMMA RefusedInv ==
    ASSUME IInv, CopyMessagesRefused
    PROVE  IInv'
<1>1. /\ Frame.id \in Ids /\ Frame.src \in Srcs /\ Beneath \in Seq(ReturnFrames)
      /\ NoCopy /\ streams = {} /\ unfinished <= 1 /\ unfinished \in Nat
  BY AtCopyFrame DEF CopyMessagesRefused
<1>2. PICK rest \in {Beneath, Cons(ReturnCall("ok"), Beneath)} :
         OnCopyCompleted(Frame.id, Frame.src, "failed", rest)
  BY DEF CopyMessagesRefused
<1>3. Cons(ReturnCall("ok"), Beneath) \in Seq(ReturnFrames)
  <2>1. ReturnCall("ok") \in ReturnFrames
    BY DEF ReturnCall, ReturnFrames, Results
  <2>. QED  BY <1>1, <2>1, ConsProperties
<1>4. Waiting(rest) /\ ~ HoldsDraft(rest)
  BY <1>1, <1>2, <1>3, ReturnsWait
<1>5. "failed" \in Results /\ UNCHANGED m_copyRequests
  BY DEF Results, CopyMessagesRefused, serviceVars
<1>6. /\ Control' /\ NoCopy' /\ StateOK' /\ rv' = rv
      /\ verdict' \in [Ids -> Results \cup {"none"}]
  BY <1>1, <1>2, <1>4, <1>5, Known, CompletesControl
<1>. QED  BY <1>1, <1>6, ReportKeeps DEF CopyMessagesRefused

LEMMA BusyInv ==
    ASSUME IInv, CopyBusy
    PROVE  IInv'
<1>1. /\ Frame.id \in Ids /\ Frame.src \in Srcs /\ Beneath \in Seq(ReturnFrames)
      /\ NoCopy /\ streams = {} /\ unfinished <= 1 /\ unfinished \in Nat
  BY AtCopyFrame DEF CopyBusy
<1>2. "failed" \in Results /\ UNCHANGED m_copyRequests
  BY DEF Results, CopyBusy, serviceVars
<1>3. OnCopyCompleted(Frame.id, Frame.src, "failed", Cons(ReturnCall("failed"), Beneath))
  BY DEF CopyBusy
<1>4. /\ Control' /\ NoCopy' /\ StateOK' /\ rv' = rv
      /\ verdict' \in [Ids -> Results \cup {"none"}]
  BY <1>1, <1>2, <1>3, Known, EndsControl
<1>. QED  BY <1>1, <1>4, ReportKeeps DEF CopyBusy

LEMMA MessageStarted ==
    ASSUME NEW s \in StateType
    PROVE  LET t == StartsMessage(s)
           IN  /\ t \in StateType /\ t.id = s.id /\ t.src = s.src /\ t.isMove = s.isMove
               /\ t.total = s.total /\ t.writeFailed = s.writeFailed /\ t.multiple = s.multiple
               /\ t.message = s.message
               /\ t.cur = s.cur + 1 /\ t.open = TRUE /\ (s.dstKey => t.dstKey)
<1> DEFINE k == s.dstKey \/ Job[s.src].source # "mailbox"
<1>1. StartsMessage(s) = [s EXCEPT !.cur = s.cur + 1, !.open = TRUE, !.dstKey = k]
  BY DEF StartsMessage
<1>2. k \in BOOLEAN /\ s.cur + 1 \in Nat /\ (s.dstKey => k)
  BY DEF StateType
<1> HIDE DEF k
<1>. QED  BY <1>1, <1>2 DEF StateType

\* The state of a copy that starts, when its first message is started or not.
StateStarted(s, id, src) ==
    /\ s \in StateType /\ s.id = id /\ s.src = src /\ s.isMove = Job[src].move
    /\ s.total = Job[src].total /\ ~ s.writeFailed
    /\ s.multiple <=> Job[src].source = "mailbox" /\ Job[src].total > 1
    /\ s.open => s.cur = 1
    /\ ~ s.open => s.cur = 0
    /\ s.open => s.multiple

LEMMA InitialState ==
    ASSUME NEW id \in Ids, NEW src \in Srcs, JobType(Job[src]), Job[src].source # "file"
    PROVE  LET state == InitCopyState(id, src)
           IN  /\ StateStarted(state, id, src)
               /\ state.multiple => StateStarted(StartsMessage(state), id, src)
<1> DEFINE state == InitCopyState(id, src)
           started == StartsMessage(state)
<1>1. Job[src].total \in Nat /\ Job[src].move \in BOOLEAN
  BY DEF JobType
<1>2. /\ state \in StateType
      /\ state.id = id /\ state.src = src /\ state.isMove = Job[src].move
      /\ state.total = Job[src].total /\ state.writeFailed = FALSE
      /\ state.multiple = (Job[src].source = "mailbox" /\ Job[src].total > 1)
      /\ state.cur = 0 /\ state.open = FALSE
  BY <1>1 DEF InitCopyState, StateType
<1> HIDE DEF state
<1>3. /\ started \in StateType
      /\ started.id = state.id /\ started.src = state.src /\ started.isMove = state.isMove
      /\ started.total = state.total /\ started.writeFailed = state.writeFailed
      /\ started.multiple = state.multiple
      /\ started.cur = state.cur + 1 /\ started.open = TRUE
  <2>1. state \in StateType
    BY <1>2
  <2>. QED  BY <2>1, MessageStarted
<1>4. started.cur = 1
  BY <1>2, <1>3
<1> HIDE DEF started
<1>5. StateStarted(state, id, src)
  BY <1>2 DEF StateStarted
<1>6. state.multiple => StateStarted(started, id, src)
  BY <1>2, <1>3, <1>4 DEF StateStarted
<1>. QED  BY <1>5, <1>6 DEF state, started

LEMMA StartsInv ==
    ASSUME IInv, CopyMessagesStarts
    PROVE  IInv'
<1>1. PICK id \in Ids, src \in Srcs, rest \in Seq(ReturnFrames) :
          id = Frame.id /\ src = Frame.src /\ rest = Beneath
  BY AtCopyFrame DEF CopyMessagesStarts
<1> DEFINE state == InitCopyState(id, src)
<1>2. /\ NoCopy /\ streams = {} /\ unfinished <= 1 /\ unfinished \in Nat
      /\ Taken(Frame)
  BY AtCopyFrame DEF CopyMessagesStarts
<1>3. PICK started \in BOOLEAN, opened \in BOOLEAN :
         IF started
           THEN /\ mCopyState' = IF state.multiple /\ opened THEN StartsMessage(state)
                                                             ELSE state
                /\ streams' = streams \cup {Stream(id, src, 1)}
                /\ m_stopped' = (m_stopped /\ Job[src].source # "mailbox")
                /\ Returns("ok")
           ELSE /\ OnCopyCompleted(id, src, "failed", Cons(ReturnCall("failed"), rest))
                /\ UNCHANGED <<streams, m_stopped>>
  BY <1>1 DEF CopyMessagesStarts, Works
<1>4. /\ UNCHANGED <<serviceVars, locked, unfinished, copied, deleted>>
      /\ UNCHANGED m_copyRequests
  BY DEF CopyMessagesStarts, serviceVars
<1> HIDE DEF state
<1>5. CASE ~ started
  <2>1. "failed" \in Results
    BY DEF Results
  <2>2. /\ Control' /\ NoCopy' /\ StateOK' /\ rv' = rv
        /\ verdict' \in [Ids -> Results \cup {"none"}]
    BY <1>3, <1>4, <1>5, <2>1, Known, EndsControl
  <2>. QED  BY <1>2, <1>3, <1>4, <1>5, <2>2, ReportKeeps
<1>6. CASE started
  <2>1. JobType(Job[src]) /\ Job[src].source # "file"
    <3>1. Oldest.src = src /\ Oldest.type = "messages" /\ Asked(Oldest)
      <4>1. 1 \in DOMAIN m_copyRequests
        BY <1>2, Known DEF Taken, QueueEmpty
      <4>. QED  BY <1>1, <1>2, <4>1, Known DEF Taken, CopyMessagesStarts, JobQueue, Oldest
    <3>2. PICK o \in Offers : o.src = src /\ o.type = "messages"
      BY <3>1 DEF Asked
    <3>. QED  BY <3>2, LocalAssumption
  <2>2. PICK s : mCopyState' = s /\ StateStarted(s, id, src)
    BY <1>3, <1>6, <2>1, InitialState DEF state
  <2>3. Control'
    BY <1>1, <1>3, <1>6, ReturnsWait, ReturnsControl DEF Returns
  <2>4. ~ QueueEmpty /\ Underway(Oldest) /\ Oldest.id = id /\ Oldest.src = src
        /\ id \notin deleted /\ copied[id] = <<>>
    BY <1>1, <1>2 DEF Taken, Fresh
  <2>5. Job[src].total \in Nat /\ Job[src].total >= 1
    BY <2>1 DEF JobType
  <2>6. s \in StateType /\ s # NoState /\ s.id = id /\ s.src = src
    BY <2>2, LocalAssumption DEF StateStarted
  <2>7. StateOK'
    <3>1. s.cur <= s.total
      BY <2>2, <2>5 DEF StateStarted
    <3>. QED  BY <1>4, <2>1, <2>2, <2>4, <3>1 DEF StateOK, NoCopy, QueueEmpty, Oldest,
                  Underway, AllSourcesProcessed, StateStarted
  <2>8. StreamOK(Stream(id, src, 1))'
    <3> DEFINE t == Stream(id, src, 1)
    <3>1. Len(copied[id]) = 0
      BY <2>4, EmptySeq
    <3>2. t \in StreamType /\ t.id = id /\ t.src = src /\ t.n = 1 /\ t.at = "begin" /\ t.ok
      BY DEF Stream, StreamType
    <3> HIDE DEF t
    <3>3. t.n = Len(copied'[mCopyState'.id]) + 1 /\ t.n <= mCopyState'.total
      BY <1>4, <2>2, <2>5, <2>6, <3>1, <3>2 DEF StateStarted
    <3>4. mCopyState'.cur = IF mCopyState'.multiple /\ mCopyState'.open THEN t.n ELSE t.n - 1
      BY <2>2, <2>6, <3>2 DEF StateStarted, StateType
    <3>. QED  BY <1>2, <1>4, <2>2, <2>6, <3>2, <3>3, <3>4 DEF StreamOK, StateStarted, t
  <2>9. Streams'
    <3>1. streams' = {Stream(id, src, 1)} /\ ~ NoCopy'
      BY <1>2, <1>3, <1>6, <2>2, <2>6 DEF NoCopy
    <3>. QED  BY <2>8, <3>1, Zenon DEF Streams
  <2>10. Flags'
    BY <1>3, <1>4, <1>6, Known DEF Flags, Returns, Results
  <2>11. verdict' \in [Ids -> Results \cup {"none"}]
    BY <1>3, <1>6, Known DEF Returns
  <2>. QED  BY <1>2, <1>4, <2>3, <2>7, <2>9, <2>10, <2>11, FolderKeeps
<1>. QED  BY <1>5, <1>6

LEMMA AtRestFrame ==
    ASSUME IInv, Running("Return") \/ Running("Draft")
    PROVE  /\ Frame \in ReturnFrames \cup DraftFrames
           /\ Waiting(Beneath) /\ ~ HoldsDraft(Beneath)
           /\ Frame.pc = "Draft" => rv = "ok"
<1>1. stack # <<>>
  BY DEF Running
<1>2. AtRest
  BY <1>1, Known, Where
<1>. QED  BY <1>1, <1>2, WaitingCalls DEF AtRest, Frame, Beneath, HoldsDraft

LEMMA ReportsInv ==
    ASSUME IInv, CopyFileMessageReports
    PROVE  IInv'
<1>1. Waiting(Beneath) /\ ~ HoldsDraft(Beneath) /\ rv = "ok"
  BY AtRestFrame DEF CopyFileMessageReports, Running, Frame
<1>2. Returns("ok") /\ UNCHANGED <<serviceVars, folderVars, verdict>>
  BY <1>1 DEF CopyFileMessageReports, Returns, folderVars
<1>3. Control'
  BY <1>1, <1>2, ReturnsControl DEF Returns
<1>. QED  BY <1>2, <1>3, ReturnKeeps DEF Returns, Results

LEMMA ReturnsWithInv ==
    ASSUME IInv, ReturnsWith
    PROVE  IInv'
<1>1. Waiting(Beneath) /\ ~ HoldsDraft(Beneath) /\ Frame \in ReturnFrames
  BY AtRestFrame DEF ReturnsWith, Running, Frame, DraftFrames
<1>2. Returns(Frame.rv) /\ UNCHANGED <<serviceVars, folderVars, verdict>> /\ Frame.rv \in Results
  BY <1>1 DEF ReturnsWith, Returns, ReturnFrames
<1>3. Control'
  BY <1>1, <1>2, ReturnsControl DEF Returns
<1>. QED  BY <1>2, <1>3, ReturnKeeps DEF Returns

-----------------------------------------------------------------------------
(* The streams.                                                            *)

LEMMA OneStream ==
    ASSUME IInv, NEW s \in streams
    PROVE  /\ streams = {s} /\ ~ NoCopy /\ StreamOK(s) /\ s \in StreamType
           /\ mCopyState \in StateType /\ mCopyState.cur <= mCopyState.total
           /\ s.id = mCopyState.id /\ s.src = mCopyState.src
<1>1. streams = {s} /\ ~ NoCopy /\ StreamOK(s)
  BY Known DEF Streams
<1>. QED  BY <1>1, Known DEF StreamOK, StateOK

LEMMA StreamsNext ==
    ASSUME NEW t, streams' = {t}, ~ NoCopy', StreamOK(t)'
    PROVE  Streams'
  BY Zenon DEF Streams

LEMMA StateNext ==
    ASSUME IInv, ~ NoCopy, UNCHANGED <<serviceVars, deleted>>, NEW m \in StateType,
           mCopyState' = m, m.id = mCopyState.id, m.src = mCopyState.src,
           m.isMove = mCopyState.isMove, m.total = mCopyState.total,
           m.multiple = mCopyState.multiple, m.cur <= m.total
    PROVE  StateOK' /\ ~ NoCopy'
<1>1. StateOK /\ m # NoState /\ UNCHANGED m_copyRequests
  BY Known, LocalAssumption DEF serviceVars
<1>. QED  BY <1>1 DEF StateOK, NoCopy, QueueEmpty, Oldest, Underway, AllSourcesProcessed

\* A step of the event loop on the one stream s, which becomes t, or ends.
LEMMA EventKeeps ==
    ASSUME IInv, stack = <<>>, UNCHANGED <<serviceVars, stack, verdict, rv, locked, copied, deleted>>,
           m_stopped' \in BOOLEAN, unfinished' \in Nat,
           ~ NoCopy', StateOK', Streams'
    PROVE  IInv'
<1>1. Control'
  BY EmptySeq DEF Control
<1>2. Flags'
  BY Known DEF Flags
<1>3. verdict' \in [Ids -> Results \cup {"none"}]
  BY Known
<1>. QED  BY <1>1, <1>2, <1>3, FolderKeeps

LEMMA BeginInv ==
    ASSUME IInv, NEW s \in streams, BeginCopy(s)
    PROVE  IInv'
<1> DEFINE m == mCopyState
<1>1. /\ streams = {s} /\ ~ NoCopy /\ StreamOK(s) /\ s \in StreamType
      /\ m \in StateType /\ m.cur <= m.total /\ s.at = "begin" /\ m # NoState
  BY OneStream DEF BeginCopy, NoCopy
<1>2. /\ UNCHANGED <<serviceVars, stack, verdict, rv, locked, m_stopped, unfinished, copied, deleted>>
      /\ stack = <<>>
  BY DEF BeginCopy
<1>3. /\ s.n = Len(copied[m.id]) + 1 /\ s.n <= m.total /\ (s.n > 1 => m.dstKey)
      /\ s.ok /\ ~ m.writeFailed /\ unfinished <= 1
      /\ m.cur = (IF m.multiple /\ m.open THEN s.n ELSE s.n - 1)
      /\ s.id = m.id /\ s.src = m.src
  BY <1>1 DEF StreamOK
<1>4. m_stopped' \in BOOLEAN /\ unfinished' \in Nat
  BY <1>2, Known DEF Flags, Files
<1>5. PICK opened \in BOOLEAN :
         IF \/ m.multiple /\ ~ m.open
            \/ ~ m.multiple /\ ~ opened
         THEN /\ Becomes(s, [s EXCEPT !.at = "stop", !.ok = FALSE])
              /\ UNCHANGED mCopyState
         ELSE /\ Becomes(s, [s EXCEPT !.at = "data"])
              /\ mCopyState' = IF m.multiple THEN [m EXCEPT !.message = m.cur]
                                 ELSE [StartsMessage(m) EXCEPT !.message = m.cur + 1]
  BY <1>1 DEF BeginCopy, Works
<1>6. CASE \/ m.multiple /\ ~ m.open
           \/ ~ m.multiple /\ ~ opened
  <2>1. PICK t : t = [s EXCEPT !.at = "stop", !.ok = FALSE]
    OBVIOUS
  <2>2. t \in StreamType /\ t.id = s.id /\ t.src = s.src /\ t.n = s.n /\ t.at = "stop" /\ ~ t.ok
    BY <1>1, <2>1 DEF StreamType
  <2>3. streams' = {t} /\ UNCHANGED mCopyState
    BY <1>1, <1>5, <1>6, <2>1 DEF Becomes
  <2>4. StateOK' /\ ~ NoCopy'
    BY <1>1, <1>2, <2>3, StateNext
  <2>5. StreamOK(t)'
    <3>1. UNCHANGED <<mCopyState, unfinished, copied>>
      BY <1>2, <2>3
    <3>2. Read(t.n, t.ok)'
      BY <1>3, <1>4, <2>2, <3>1 DEF Read
    <3>. QED  BY <1>3, <2>2, <3>1, <3>2 DEF StreamOK
  <2>. QED  BY <1>2, <1>4, <2>3, <2>4, <2>5, StreamsNext, EventKeeps
<1>7. CASE ~ (\/ m.multiple /\ ~ m.open
              \/ ~ m.multiple /\ ~ opened)
  <2>1. PICK t : t = [s EXCEPT !.at = "data"]
    OBVIOUS
  <2>2. /\ t \in StreamType /\ t.id = s.id /\ t.src = s.src /\ t.n = s.n /\ t.at = "data"
        /\ t.ok = s.ok
    BY <1>1, <2>1 DEF StreamType
  <2>3. PICK w : w = IF m.multiple THEN [m EXCEPT !.message = m.cur]
                     ELSE [StartsMessage(m) EXCEPT !.message = m.cur + 1]
    OBVIOUS
  <2>4. /\ w \in StateType /\ w.id = m.id /\ w.src = m.src /\ w.isMove = m.isMove
        /\ w.total = m.total /\ w.multiple = m.multiple /\ w.writeFailed = m.writeFailed
        /\ (m.dstKey => w.dstKey) /\ w.open /\ w.cur = s.n /\ w.message = s.n
    <3>1. s.n \in Nat /\ m.cur \in Nat
      BY <1>1 DEF StreamType, StateType
    <3>2. CASE m.multiple
      <4>1. w = [m EXCEPT !.message = m.cur] /\ m.open /\ m.cur = s.n
        BY <1>3, <1>7, <2>3, <3>2
      <4>. QED  BY <1>1, <3>1, <4>1 DEF StateType
    <3>3. CASE ~ m.multiple
      <4>1. PICK u : u = StartsMessage(m)
        OBVIOUS
      <4>2. /\ u \in StateType /\ u.id = m.id /\ u.src = m.src /\ u.isMove = m.isMove
            /\ u.total = m.total /\ u.writeFailed = m.writeFailed /\ u.multiple = m.multiple
            /\ u.cur = m.cur + 1 /\ u.open /\ (m.dstKey => u.dstKey)
        BY <1>1, <4>1, MessageStarted
      <4>3. m.cur + 1 = s.n
        BY <1>3, <3>1, <3>3
      <4>4. w = [u EXCEPT !.message = s.n]
        BY <2>3, <3>3, <4>1, <4>3
      <4>. QED  BY <3>1, <4>2, <4>3, <4>4 DEF StateType
    <3>. QED  BY <3>2, <3>3
  <2>5. streams' = {t} /\ mCopyState' = w
    BY <1>1, <1>5, <1>7, <2>1, <2>3 DEF Becomes
  <2>6. w.cur <= w.total
    BY <1>3, <2>4
  <2>7. StateOK' /\ ~ NoCopy'
    BY <1>1, <1>2, <2>4, <2>5, <2>6, StateNext
  <2>8. StreamOK(t)'
    BY <1>2, <1>3, <2>2, <2>4, <2>5 DEF StreamOK
  <2>. QED  BY <1>2, <1>4, <2>5, <2>7, <2>8, StreamsNext, EventKeeps
<1>. QED  BY <1>6, <1>7

LEMMA DataInv ==
    ASSUME IInv, NEW s \in streams, CopyData(s)
    PROVE  IInv'
<1> DEFINE m == mCopyState
<1>1. /\ streams = {s} /\ ~ NoCopy /\ StreamOK(s) /\ s \in StreamType
      /\ m \in StateType /\ m.cur <= m.total /\ s.at = "data" /\ m # NoState
  BY OneStream DEF CopyData, NoCopy
<1>2. UNCHANGED <<serviceVars, stack, verdict, rv, locked, m_stopped, copied, deleted>>
      /\ stack = <<>>
  BY DEF CopyData
<1>3. /\ s.n = Len(copied[m.id]) + 1 /\ s.n <= m.total /\ (s.n > 1 => m.dstKey)
      /\ s.ok /\ ~ m.writeFailed /\ unfinished <= 1 /\ m.open
      /\ m.cur = s.n /\ m.message = s.n
      /\ s.id = m.id /\ s.src = m.src
  BY <1>1 DEF StreamOK
<1>4. PICK written \in BOOLEAN, read \in BOOLEAN :
         /\ Becomes(s, [s EXCEPT !.at = "stop", !.ok = written /\ read /\ m # NoState])
         /\ mCopyState' = [m EXCEPT !.writeFailed = m.writeFailed \/ ~ written]
         /\ unfinished' = s.n
  BY <1>1 DEF CopyData, Works
<1>5. PICK t : t = [s EXCEPT !.at = "stop", !.ok = written /\ read /\ m # NoState]
  OBVIOUS
<1>6. /\ t \in StreamType /\ t.id = s.id /\ t.src = s.src /\ t.n = s.n /\ t.at = "stop"
      /\ t.ok => written
  BY <1>1, <1>5 DEF StreamType
<1>7. PICK w : w = [m EXCEPT !.writeFailed = m.writeFailed \/ ~ written]
  OBVIOUS
<1>8. /\ w \in StateType /\ w.id = m.id /\ w.src = m.src /\ w.isMove = m.isMove
      /\ w.total = m.total /\ w.multiple = m.multiple /\ (written => ~ w.writeFailed)
      /\ w.dstKey = m.dstKey /\ w.open = m.open /\ w.cur = m.cur /\ w.message = m.message
  BY <1>1, <1>3, <1>7 DEF StateType
<1>9. streams' = {t} /\ mCopyState' = w /\ s.n \in Nat
  BY <1>1, <1>4, <1>5, <1>7 DEF Becomes, StreamType
<1>10. StateOK' /\ ~ NoCopy'
  BY <1>1, <1>2, <1>8, <1>9, StateNext
<1>11. Read(t.n, t.ok)'
  BY <1>2, <1>3, <1>4, <1>6, <1>8, <1>9 DEF Read
<1>12. StreamOK(t)'
  BY <1>2, <1>3, <1>6, <1>8, <1>9, <1>11 DEF StreamOK, Read
<1>13. m_stopped' \in BOOLEAN /\ unfinished' \in Nat
  BY <1>2, <1>4, <1>9, Known DEF Flags
<1>. QED  BY <1>2, <1>9, <1>10, <1>12, <1>13, StreamsNext, EventKeeps

LEMMA StopInv ==
    ASSUME IInv, UserStops
    PROVE  IInv'
<1>1. PICK s \in streams : TRUE
  BY DEF UserStops
<1>2. /\ streams = {s} /\ ~ NoCopy /\ StreamOK(s) /\ s \in StreamType
      /\ mCopyState \in StateType /\ mCopyState.cur <= mCopyState.total
  BY OneStream
<1>3. /\ UNCHANGED <<serviceVars, stack, verdict, rv, mCopyState, locked, unfinished, copied, deleted>>
      /\ stack = <<>> /\ m_stopped' = TRUE
  BY DEF UserStops
<1>4. PICK t : /\ t = IF s.n = 1 \/ Job[s.src].source # "mailbox"
                        THEN [s EXCEPT !.at = "stop", !.ok = FALSE] ELSE s
               /\ streams' = {t}
  BY <1>2 DEF UserStops
<1>5. StateOK' /\ ~ NoCopy'
  BY <1>2, <1>3, StateNext
<1>6. StreamOK(t)'
  <2>1. StreamOK(s)'
    BY <1>2, <1>3 DEF StreamOK, Read
  <2>2. ASSUME t = [s EXCEPT !.at = "stop", !.ok = FALSE] PROVE StreamOK(t)'
    <3>1. t \in StreamType /\ t.id = s.id /\ t.src = s.src /\ t.n = s.n /\ t.at = "stop" /\ ~ t.ok
      BY <1>2, <2>2 DEF StreamType
    <3>2. unfinished > 1 => mCopyState.open /\ mCopyState.dstKey
      <4>1. unfinished \in Nat /\ s.at \in {"begin", "data", "stop"}
        BY <1>2, Known DEF Files, StreamType
      <4>. QED  BY <1>2, <4>1 DEF StreamOK, Read
    <3>. QED  BY <1>2, <1>3, <3>1, <3>2 DEF StreamOK, Read
  <2>. QED  BY <1>4, <2>1, <2>2
<1>7. m_stopped' \in BOOLEAN /\ unfinished' \in Nat
  BY <1>3, Known DEF Files
<1>. QED  BY <1>3, <1>4, <1>5, <1>6, <1>7, StreamsNext, EventKeeps

LEMMA LockInv ==
    ASSUME IInv, OthersLock
    PROVE  IInv'
<1>1. /\ UNCHANGED <<serviceVars, stack, verdict, rv, mCopyState, streams, m_stopped, unfinished,
                     copied, deleted>>
      /\ stack = <<>> /\ NoCopy /\ locked' \in BOOLEAN
  BY DEF OthersLock, NoCopy
<1>2. Control' /\ NoCopy' /\ StateOK'
  BY <1>1, EmptySeq DEF Control, StateOK, NoCopy
<1>3. Streams' /\ Flags'
  BY <1>1, <1>2, Known DEF Streams, Flags
<1>. QED  BY <1>1, <1>2, <1>3, Known, FolderKeeps DEF Files

\* What is left to call when a stream has stopped.
LEMMA StreamStopsInv ==
    ASSUME IInv, NEW s \in streams, StreamStops(s)
    PROVE  IInv'
<1> DEFINE E == EndCopyCall(s, s.ok)
           M == EndMoveCall(s, s.ok)
           X == NextMessageCall(s)
           moves == Job[s.src].move
           goes == MoreInUrl(s) /\ s.ok /\ ~ m_stopped
<1>1. /\ streams = {s} /\ ~ NoCopy /\ StreamOK(s) /\ s \in StreamType
      /\ mCopyState \in StateType /\ mCopyState.cur <= mCopyState.total /\ s.at = "stop"
  BY OneStream DEF StreamStops
<1>2. /\ UNCHANGED <<serviceVars, verdict, rv, mCopyState, locked, m_stopped, unfinished, copied,
                     deleted>>
      /\ streams' = {}
      /\ stack' = <<E>> \o (IF moves THEN <<M>> ELSE <<>>) \o (IF goes THEN <<X>> ELSE <<>>)
  BY <1>1 DEF StreamStops
<1>3. /\ E \in EndCopyFrames /\ E.id = s.id /\ E.n = s.n /\ E.ok = s.ok
      /\ M \in EndMoveFrames /\ M.id = s.id /\ M.n = s.n /\ M.ok = s.ok
      /\ X \in NextFrames /\ X.id = s.id /\ X.n = s.n /\ X.src = s.src
  BY <1>1 DEF EndCopyCall, EndMoveCall, NextMessageCall, EndCopyFrames, EndMoveFrames, NextFrames,
              StreamType
<1>4. Read(s.n, s.ok) /\ s.id = mCopyState.id /\ s.src = mCopyState.src
  BY <1>1 DEF StreamOK
<1>5. moves \in BOOLEAN /\ moves = mCopyState.isMove
  BY <1>1, <1>4, Known DEF StateOK, StateType
<1>6. goes => s.ok /\ mCopyState.multiple /\ s.n < mCopyState.total
  <2> SUFFICES ASSUME goes PROVE s.ok /\ mCopyState.multiple /\ s.n < mCopyState.total
    OBVIOUS
  <2>1. Job[s.src].source = "mailbox" /\ s.n < Job[s.src].total /\ s.ok
    BY DEF MoreInUrl
  <2>2. mCopyState.total = Job[s.src].total /\ mCopyState.total \in Nat
        /\ (mCopyState.multiple <=> Job[s.src].source = "mailbox" /\ mCopyState.total > 1)
    BY <1>1, <1>4, Known DEF StateOK, StateType
  <2>3. s.n \in Nat /\ s.n >= 1
    <3>1. s.n = Len(copied[mCopyState.id]) + 1
      BY <1>4 DEF Read
    <3>2. Len(copied[mCopyState.id]) \in Nat
      BY <1>1, Known, LenProperties DEF Files, StateType
    <3>. QED  BY <3>1, <3>2
  <2>. QED  BY <2>1, <2>2, <2>3
<1>7. {E, M, X} \subseteq LocalFrames
  BY <1>3 DEF LocalFrames
<1> HIDE DEF E, M, X, moves, goes
<1>8. PICK rest :
         /\ stack' = Cons(E, rest) /\ rest \in Seq(LocalFrames)
         /\ IF moves THEN /\ rest # <<>> /\ Head(rest) = M
                          /\ Tail(rest) = IF goes THEN <<X>> ELSE <<>>
                     ELSE rest = IF goes THEN <<X>> ELSE <<>>
  <2>1. PICK after \in Seq(LocalFrames) : after = IF goes THEN <<X>> ELSE <<>>
    <3>1. <<X>> \in Seq(LocalFrames) /\ <<>> \in Seq(LocalFrames)
      BY <1>7
    <3>. QED  BY <3>1
  <2>2. CASE moves
    <3>1. stack' = (<<E>> \o <<M>>) \o after
      BY <1>2, <2>1, <2>2
    <3>2. (<<E>> \o <<M>>) \o after = <<E>> \o (<<M>> \o after)
      BY <1>7, <2>1, ConcatAssociative
    <3>3. stack' = Cons(E, Cons(M, after))
      BY <3>1, <3>2 DEF Cons
    <3>4. /\ Cons(M, after) \in Seq(LocalFrames) /\ Cons(M, after) # <<>>
          /\ Head(Cons(M, after)) = M /\ Tail(Cons(M, after)) = after
      BY <1>7, <2>1, ConsProperties
    <3>. QED  BY <2>1, <2>2, <3>3, <3>4
  <2>3. CASE ~ moves
    <3>1. stack' = (<<E>> \o <<>>) \o after
      BY <1>2, <2>1, <2>3
    <3>2. <<E>> \o <<>> = <<E>>
      BY <1>7, ConcatEmptySeq
    <3>. QED  BY <2>1, <2>3, <3>1, <3>2 DEF Cons
  <2>. QED  BY <2>2, <2>3
<1>9. stack' \in Seq(LocalFrames) /\ stack' # <<>> /\ Frame' = E /\ Beneath' = rest
  BY <1>7, <1>8, PushedFrame
<1>10. ASSUME NEW f, f.ok = s.ok, f.n = s.n, NEW t, t = IF goes THEN <<X>> ELSE <<>>
       PROVE  GoesOn(f, t)
  <2>1. CASE ~ goes
    BY <1>10, <2>1 DEF GoesOn
  <2>2. CASE goes
    <3>1. Head(t) = X /\ Tail(t) = <<>>
      BY <1>10, <2>2
    <3>. QED  BY <1>3, <1>4, <1>6, <1>10, <2>2, <3>1 DEF GoesOn
  <2>. QED  BY <2>1, <2>2
<1>11. IF mCopyState.isMove THEN Moves(E, rest) ELSE GoesOn(E, rest)
  <2>1. CASE moves
    BY <1>3, <1>5, <1>8, <1>10, <2>1 DEF Moves
  <2>2. CASE ~ moves
    BY <1>3, <1>5, <1>8, <1>10, <2>2
  <2>. QED  BY <1>5, <2>1, <2>2
<1>12. AtEndCopy'
  <2>1. Read(E.n, E.ok)'
    BY <1>2, <1>3, <1>4 DEF Read
  <2>2. (IF mCopyState.isMove THEN Moves(E, rest) ELSE GoesOn(E, rest))'
    <3>1. mCopyState' = mCopyState
      BY <1>2
    <3>. QED  BY <1>11, <3>1 DEF Moves, GoesOn
  <2>. QED  BY <1>1, <1>2, <1>3, <1>4, <1>9, <2>1, <2>2 DEF AtEndCopy, NoCopy, Read, Moves, GoesOn
<1>13. Control'
  BY <1>9, <1>12 DEF Control
<1>14. StateOK' /\ ~ NoCopy'
  BY <1>1, <1>2, StateNext
<1>15. Streams' /\ Flags' /\ unfinished' \in Nat /\ verdict' \in [Ids -> Results \cup {"none"}]
  BY <1>2, Known DEF Streams, Flags, Files
<1>. QED  BY <1>2, <1>13, <1>14, <1>15, FolderKeeps

-----------------------------------------------------------------------------
(* The end of a message's copy, and the next one.                          *)

LEMMA AtEndFrames ==
    ASSUME IInv, Running("EndCopy") \/ Running("EndMove") \/ Running("NextMessage")
    PROVE  /\ Frame \in LocalFrames /\ Beneath \in Seq(LocalFrames)
           /\ Running("EndCopy") => AtEndCopy
           /\ Running("EndMove") => AtEndMove
           /\ Running("NextMessage") => AtNextMessage
           /\ ~ NoCopy /\ mCopyState \in StateType /\ mCopyState.cur <= mCopyState.total
           /\ mCopyState.id \in Ids /\ mCopyState.src \in Srcs
           /\ unfinished \in Nat /\ Len(copied[mCopyState.id]) \in Nat
<1>1. stack # <<>>
  BY DEF Running
<1>2. /\ Frame \in LocalFrames /\ Beneath \in Seq(LocalFrames)
      /\ Running("EndCopy") => AtEndCopy
      /\ Running("EndMove") => AtEndMove
      /\ Running("NextMessage") => AtNextMessage
  BY <1>1, Known, Where
<1>3. ~ NoCopy
  BY <1>2 DEF AtEndCopy, AtEndMove, AtNextMessage
<1>4. mCopyState \in StateType /\ mCopyState.cur <= mCopyState.total
  BY <1>3, Known DEF StateOK
<1>5. mCopyState.id \in Ids /\ mCopyState.src \in Srcs
  BY <1>4 DEF StateType
<1>6. unfinished \in Nat /\ Len(copied[mCopyState.id]) \in Nat
  BY <1>5, Known, LenProperties DEF Files
<1>. QED  BY <1>2, <1>3, <1>4, <1>5, <1>6

LEMMA EmptyReturns == <<>> \in Seq(ReturnFrames)
  BY EmptySeq

\* The copy's state and the calls of the folder that are left when one returns.
LEMMA ToEndMove ==
    ASSUME IInv, AtEndCopy, mCopyState.isMove, Running("EndCopy"),
           NEW v, Returns(v), NEW m, mCopyState' = m, ~ NoCopy',
           m.id = mCopyState.id, m.isMove = mCopyState.isMove, m.src = mCopyState.src,
           m.multiple = mCopyState.multiple, m.total = mCopyState.total,
           NEW n, n = Frame.n, Frame.ok => ReadToEnd(n)',
           streams' # {} => Frame.ok /\ Frame.n < m.total /\ ~ m.multiple,
           unfinished' <= 1
    PROVE  Control' /\ rv' = v /\ verdict' = verdict
<1>1. Beneath \in Seq(LocalFrames)
  BY AtEndFrames
<1>2. PICK e \in EndMoveFrames, rest \in Seq(LocalFrames) :
          /\ Beneath # <<>> /\ e = Head(Beneath) /\ rest = Tail(Beneath)
          /\ e.id = Frame.id /\ e.n = Frame.n /\ e.ok = Frame.ok
          /\ GoesOn(Frame, rest)
  <2>1. /\ Beneath # <<>> /\ Head(Beneath) \in EndMoveFrames
        /\ Head(Beneath).id = Frame.id /\ Head(Beneath).n = Frame.n /\ Head(Beneath).ok = Frame.ok
        /\ GoesOn(Frame, Tail(Beneath))
    BY DEF AtEndCopy, Moves
  <2>2. Tail(Beneath) \in Seq(LocalFrames)
    BY <1>1, <2>1
  <2>. QED  BY <2>1, <2>2
<1>3. stack' = Beneath /\ rv' = v /\ verdict' = verdict
  BY DEF Returns
<1>4. Frame' = e /\ Beneath' = rest /\ stack' # <<>> /\ stack' \in Seq(LocalFrames)
  BY <1>1, <1>2, <1>3 DEF Frame, Beneath
<1>5. PICK f : f = Frame /\ GoesOn(f, rest)
  BY <1>2
<1>6. GoesOn(e, rest)'
  BY <1>2, <1>5 DEF GoesOn
<1>7. GoesOn(Frame, Beneath)'
  BY <1>4, <1>6 DEF GoesOn
<1>9. AtEndMove'
  <2>1. Frame.id = mCopyState.id
    BY DEF AtEndCopy
  <2>2. (Frame.ok => ReadToEnd(Frame.n))'
    <3>1. Frame'.n = n
      BY <1>2, <1>4
    <3>. QED  BY <1>2, <1>4, <3>1 DEF ReadToEnd
  <2>. QED  BY <1>2, <1>4, <1>7, <2>1, <2>2 DEF AtEndMove, ReadToEnd
<1>. QED  BY <1>3, <1>4, <1>9 DEF Control

LEMMA EndCopyFailsInv ==
    ASSUME IInv, EndCopyFails
    PROVE  IInv'
<1> DEFINE m == mCopyState
<1>1. /\ AtEndCopy /\ ~ NoCopy /\ m \in StateType /\ m.cur <= m.total
      /\ m.id \in Ids /\ m.src \in Srcs /\ unfinished \in Nat
      /\ Frame \in EndCopyFrames /\ Beneath \in Seq(LocalFrames)
  BY AtEndFrames DEF EndCopyFails, AtEndCopy
<1>2. streams = {} /\ Read(Frame.n, Frame.ok)
  BY <1>1 DEF AtEndCopy
<1>3. ~ Frame.ok
  BY <1>2 DEF EndCopyFails, Failed, Read
<1>4. unfinished' \in Nat /\ unfinished' <= 1
  <2>1. unfinished > 1 => m.open /\ m.dstKey
    BY <1>2 DEF Read
  <2>2. unfinished' = IF m.open /\ m.dstKey THEN 0 ELSE unfinished
    BY DEF EndCopyFails, DiscardNewMessage
  <2>. QED  BY <1>1, <2>1, <2>2
<1>5. UNCHANGED <<serviceVars, streams, locked, m_stopped, copied, deleted>> /\ UNCHANGED m_copyRequests
  BY DEF EndCopyFails, serviceVars
<1>6. CASE m.isMove
  <2>1. Returns("ok") /\ UNCHANGED mCopyState
    BY <1>6 DEF EndCopyFails
  <2>2. StateOK' /\ ~ NoCopy'
    BY <1>1, <1>5, <2>1, StateNext
  <2>3. Control' /\ rv' = "ok" /\ verdict' = verdict
    <3>1. PICK w, n : w = m /\ n = Frame.n
      OBVIOUS
    <3>2. mCopyState' = w /\ streams' = {}
      BY <1>2, <1>5, <2>1, <3>1
    <3>. QED  BY <1>1, <1>3, <1>4, <1>6, <2>1, <2>2, <3>1, <3>2, ToEndMove DEF EndCopyFails
  <2>4. Streams' /\ Flags'
    BY <1>2, <1>5, <2>3, Known DEF Streams, Flags, Results
  <2>. QED  BY <1>4, <1>5, <2>2, <2>3, <2>4, Known, FolderKeeps
<1>7. CASE ~ m.isMove
  <2>1. OnCopyCompleted(m.id, m.src, "ok", Cons(ReturnCall("ok"), Beneath))
    BY <1>7 DEF EndCopyFails
  <2>2. Beneath = <<>>
    BY <1>1, <1>3, <1>7 DEF AtEndCopy, GoesOn
  <2>3. PICK id \in Ids, src \in Srcs, rest \in Seq(ReturnFrames), ok \in Results :
            id = m.id /\ src = m.src /\ rest = Beneath /\ ok = "ok"
    BY <1>1, <2>2, EmptyReturns DEF Results
  <2>4. OnCopyCompleted(id, src, ok, Cons(ReturnCall(ok), rest))
    BY <2>1, <2>3
  <2>5. /\ Control' /\ NoCopy' /\ StateOK' /\ rv' = rv
        /\ verdict' \in [Ids -> Results \cup {"none"}]
    BY <1>5, <2>4, Known, EndsControl
  <2>. QED  BY <1>2, <1>4, <1>5, <2>5, ReportKeeps
<1>. QED  BY <1>6, <1>7

LEMMA EndMoveFailsInv ==
    ASSUME IInv, EndMoveFails
    PROVE  IInv'
<1> DEFINE m == mCopyState
<1>1. /\ AtEndMove /\ ~ NoCopy /\ m \in StateType
      /\ m.id \in Ids /\ m.src \in Srcs /\ unfinished \in Nat
      /\ Frame \in EndMoveFrames /\ Beneath \in Seq(LocalFrames)
  BY AtEndFrames DEF EndMoveFails, AtEndMove
<1>2. ~ Frame.ok
  BY <1>1 DEF EndMoveFails, Failed, AtEndMove, ReadToEnd
<1>3. streams = {} /\ unfinished <= 1
  BY <1>1, <1>2 DEF AtEndMove
<1>4. UNCHANGED <<serviceVars, streams, locked, m_stopped, unfinished, copied, deleted>>
      /\ UNCHANGED m_copyRequests
  BY DEF EndMoveFails, serviceVars
<1>5. OnCopyCompleted(m.id, m.src, "ok", Cons(ReturnCall("ok"), Beneath))
  BY DEF EndMoveFails
<1>6. Beneath = <<>>
  BY <1>1, <1>2 DEF AtEndMove, GoesOn
<1>7. PICK id \in Ids, src \in Srcs, rest \in Seq(ReturnFrames), ok \in Results :
          id = m.id /\ src = m.src /\ rest = Beneath /\ ok = "ok"
  BY <1>1, <1>6, EmptyReturns DEF Results
<1>8. OnCopyCompleted(id, src, ok, Cons(ReturnCall(ok), rest))
  BY <1>5, <1>7
<1>9. /\ Control' /\ NoCopy' /\ StateOK' /\ rv' = rv
      /\ verdict' \in [Ids -> Results \cup {"none"}]
  BY <1>4, <1>8, Known, EndsControl
<1>. QED  BY <1>1, <1>3, <1>4, <1>9, ReportKeeps

LEMMA NextMessageInv ==
    ASSUME IInv, NextMessage
    PROVE  IInv'
<1> DEFINE m == mCopyState
<1>1. /\ AtNextMessage /\ ~ NoCopy /\ m \in StateType /\ m.cur <= m.total
      /\ m.id \in Ids /\ m.src \in Srcs /\ unfinished \in Nat
      /\ Len(copied[m.id]) \in Nat
  BY AtEndFrames DEF NextMessage
<1>2. PICK n \in Nat, src \in Srcs, id \in Ids : n = Frame.n /\ src = Frame.src /\ id = Frame.id
  BY <1>1 DEF AtNextMessage, NextFrames
<1>3. /\ id = m.id /\ src = m.src /\ m.multiple /\ n < m.total /\ streams = {}
      /\ n = Len(copied[m.id]) /\ n = m.cur /\ ~ m.writeFailed /\ m.dstKey /\ unfinished <= 1
      /\ Beneath = <<>>
  BY <1>1, <1>2 DEF AtNextMessage, ReadToEnd
<1>4. PICK opened \in BOOLEAN, reopened \in BOOLEAN :
         /\ mCopyState' = IF opened THEN StartsMessage(m) ELSE [m EXCEPT !.open = FALSE]
         /\ streams' = IF reopened THEN streams \cup {Stream(id, src, n + 1)} ELSE streams
  BY <1>1, <1>2 DEF NextMessage, Works, NoCopy
<1>5. UNCHANGED <<serviceVars, locked, m_stopped, unfinished, copied, deleted>> /\ Returns("ok")
  BY DEF NextMessage
<1>6. PICK w : /\ w = IF opened THEN StartsMessage(m) ELSE [m EXCEPT !.open = FALSE]
               /\ mCopyState' = w
  BY <1>4
<1>7. /\ w \in StateType /\ w.id = m.id /\ w.src = m.src /\ w.isMove = m.isMove
      /\ w.total = m.total /\ w.multiple = m.multiple /\ w.writeFailed = m.writeFailed
      /\ (m.dstKey => w.dstKey)
      /\ IF opened THEN w.cur = n + 1 /\ w.open ELSE w.cur = n /\ ~ w.open
  <2>1. CASE opened
    <3>1. PICK u : u = StartsMessage(m)
      OBVIOUS
    <3>2. /\ u \in StateType /\ u.id = m.id /\ u.src = m.src /\ u.isMove = m.isMove
          /\ u.total = m.total /\ u.writeFailed = m.writeFailed /\ u.multiple = m.multiple
          /\ u.cur = m.cur + 1 /\ u.open /\ (m.dstKey => u.dstKey)
      BY <1>1, <3>1, MessageStarted
    <3>3. m.cur + 1 = n + 1
      BY <1>3
    <3>. QED  BY <1>6, <2>1, <3>1, <3>2, <3>3
  <2>2. CASE ~ opened
    <3>1. w = [m EXCEPT !.open = FALSE]
      BY <1>6, <2>2
    <3>. QED  BY <1>1, <1>3, <2>2, <3>1 DEF StateType
  <2>. QED  BY <2>1, <2>2
<1>8. w.cur <= w.total
  <2>1. m.total \in Nat
    BY <1>1 DEF StateType
  <2>2. w.cur <= n + 1
    BY <1>7
  <2>. QED  BY <1>3, <1>7, <2>1, <2>2 DEF StateType
<1>9. StateOK' /\ ~ NoCopy'
  BY <1>1, <1>5, <1>6, <1>7, <1>8, StateNext
<1>10. Streams'
  <2>1. CASE ~ reopened
    BY <1>3, <1>4, <2>1 DEF Streams
  <2>2. CASE reopened
    <3>1. PICK t : t = Stream(id, src, n + 1)
      OBVIOUS
    <3>2. streams' = {t}
      BY <1>3, <1>4, <2>2, <3>1
    <3>3. /\ t \in StreamType /\ t.id = id /\ t.src = src /\ t.n = n + 1 /\ t.at = "begin" /\ t.ok
      BY <1>1, <1>2, <1>3, <3>1 DEF Stream, StreamType
    <3>4. t.n = Len(copied[m.id]) + 1 /\ t.n <= m.total
      <4>1. m.total \in Nat
        BY <1>1 DEF StateType
      <4>. QED  BY <1>2, <1>3, <3>3, <4>1
    <3>5. w.cur = IF w.multiple /\ w.open THEN t.n ELSE t.n - 1
      BY <1>2, <1>3, <1>7, <3>3
    <3>6. StreamOK(t)'
      BY <1>3, <1>5, <1>6, <1>7, <3>3, <3>4, <3>5 DEF StreamOK
    <3>. QED  BY <1>9, <3>2, <3>6, StreamsNext
  <2>. QED  BY <2>1, <2>2
<1>11. Control'
  <2>1. Waiting(Beneath) /\ ~ HoldsDraft(Beneath)
    BY <1>3, EmptyReturns, ReturnsWait
  <2>. QED  BY <1>5, <2>1, ReturnsControl DEF Returns
<1>12. Flags' /\ verdict' \in [Ids -> Results \cup {"none"}]
  BY <1>5, Known DEF Flags, Returns, Results
<1>. QED  BY <1>1, <1>3, <1>5, <1>9, <1>10, <1>11, <1>12, FolderKeeps

LEMMA ToNextMessage ==
    ASSUME IInv, Running("EndCopy") \/ Running("EndMove"), NEW f, GoesOn(f, Beneath),
           NEW v, Returns(v), NEW m, mCopyState' = m, ~ NoCopy',
           m.id = mCopyState.id, m.src = mCopyState.src,
           m.multiple = mCopyState.multiple, m.total = mCopyState.total,
           ReadToEnd(f.n)', Beneath # <<>> => streams' = {}
    PROVE  Control' /\ rv' = v /\ verdict' = verdict
<1>1. Beneath \in Seq(LocalFrames)
  BY AtEndFrames
<1>2. stack' = Beneath /\ rv' = v /\ verdict' = verdict
  BY DEF Returns
<1>3. CASE Beneath = <<>>
  <2>1. Control'
    BY <1>2, <1>3, EmptySeq DEF Control
  <2>. QED  BY <1>2, <2>1
<1>4. CASE Beneath # <<>>
  <2>1. PICK e : e = Head(Beneath)
    OBVIOUS
  <2>2. /\ e \in NextFrames /\ Tail(Beneath) = <<>>
        /\ mCopyState.multiple /\ f.n < mCopyState.total
        /\ e.n = f.n /\ e.id = mCopyState.id /\ e.src = mCopyState.src
    BY <1>4, <2>1 DEF GoesOn
  <2>3. Frame' = e /\ Beneath' = <<>> /\ stack' # <<>> /\ stack' \in Seq(LocalFrames)
    BY <1>1, <1>2, <1>4, <2>1, <2>2 DEF Frame, Beneath
  <2>4. AtNextMessage'
    BY <1>4, <2>2, <2>3 DEF AtNextMessage, ReadToEnd
  <2>. QED  BY <1>2, <2>3, <2>4 DEF Control
<1>. QED  BY <1>3, <1>4

-----------------------------------------------------------------------------
(* The steps that finish or delete messages: those of the oldest request.  *)

LEMMA QueueIds ==
    ASSUME IInv
    PROVE  /\ \A i \in DOMAIN m_copyRequests : /\ m_copyRequests[i] \in RequestType
                                               /\ m_copyRequests[i].id \in Ids
                                               /\ m_copyRequests[i].id < nextId
           /\ \A i, j \in DOMAIN m_copyRequests :
                 m_copyRequests[i].id = m_copyRequests[j].id => i = j
           /\ nextId \in Nat
           /\ ~ QueueEmpty => 1 \in DOMAIN m_copyRequests
<1>1. /\ m_copyRequests \in Seq(RequestType) /\ nextId \in 1..(MaxRequests + 1)
      /\ MaxRequests \in Nat
  BY Known, ServedAreTypes, CopyAssumption DEF IInv, ServiceTypes
<1>2. /\ \A i \in DOMAIN m_copyRequests : m_copyRequests[i].id < nextId
      /\ \A i, j \in DOMAIN m_copyRequests :
            i < j => m_copyRequests[i].id < m_copyRequests[j].id
  BY DEF IInv, Served!QueueInv, Served!QueueInOrder
<1>3. \A i \in DOMAIN m_copyRequests : m_copyRequests[i] \in RequestType
                                       /\ m_copyRequests[i].id \in Ids
  BY <1>1 DEF RequestType
<1>4. ASSUME NEW i \in DOMAIN m_copyRequests, NEW j \in DOMAIN m_copyRequests,
             m_copyRequests[i].id = m_copyRequests[j].id
      PROVE  i = j
  <2>1. m_copyRequests[i].id \in Nat /\ m_copyRequests[j].id \in Nat
    BY <1>3 DEF Ids
  <2>2. ~ (i < j) /\ ~ (j < i)
    BY <1>2, <1>4, <2>1
  <2>. QED  BY <1>1, <2>2
<1>5. nextId \in Nat
  BY <1>1
<1>6. ~ QueueEmpty => 1 \in DOMAIN m_copyRequests
  BY <1>1 DEF QueueEmpty
<1>. QED  BY <1>2, <1>3, <1>4, <1>5, <1>6

LEMMA HistoryKeeps ==
    ASSUME IInv, UNCHANGED serviceVars, ~ QueueEmpty, Underway(Oldest),
           copied' \in [Ids -> Seq(CopiedType)], deleted' \subseteq Ids,
           \A id \in Ids : id # Oldest.id =>
              copied'[id] = copied[id] /\ (id \in deleted' <=> id \in deleted),
           \A k \in DOMAIN copied'[Oldest.id] : copied'[Oldest.id][k] = [header |-> k, body |-> k],
           Oldest.id \in deleted' => Len(copied'[Oldest.id]) = Job[Oldest.src].total,
           Control', StateOK', Streams', Flags',
           verdict' \in [Ids -> Results \cup {"none"}],
           unfinished' \in Nat, NoCopy' => unfinished' <= 1
    PROVE  IInv'
<1>1. Served!TypeOK' /\ Served!QueueInv'
  BY FolderKeepsService
<1>2. UNCHANGED m_copyRequests /\ UNCHANGED nextId
  BY DEF serviceVars
<1>3. /\ 1 \in DOMAIN m_copyRequests /\ Oldest = m_copyRequests[1] /\ Oldest.id \in Ids
      /\ Oldest.id < nextId /\ nextId \in Nat
      /\ \A i \in DOMAIN m_copyRequests : i # 1 => m_copyRequests[i].id # Oldest.id
  BY QueueIds DEF Oldest
<1>4. ASSUME NEW i \in DOMAIN m_copyRequests, ~ Underway(m_copyRequests[i])
      PROVE  Fresh(m_copyRequests[i].id)'
  <2>1. m_copyRequests[i].id # Oldest.id /\ m_copyRequests[i].id \in Ids
    BY <1>3, <1>4, QueueIds
  <2>2. Fresh(m_copyRequests[i].id)
    BY <1>4, Known DEF JobQueue
  <2>. QED  BY <1>2, <2>1, <2>2 DEF Fresh
<1>5. JobQueue'
  BY <1>2, <1>4, Known DEF JobQueue, Asked, Underway, AllSourcesProcessed
<1>6. Files'
  <2>1. ASSUME NEW id \in Ids, id >= nextId PROVE Fresh(id)'
    <3>1. id # Oldest.id
      <4>1. id \in Nat /\ Oldest.id \in Nat
        BY <1>3 DEF Ids
      <4>. QED  BY <1>3, <2>1, <4>1
    <3>. QED  BY <2>1, <3>1, Known DEF Fresh, Files
  <2>. QED  BY <1>2, <2>1 DEF Files
<1>7. InStep'
  <2>1. ASSUME NEW id \in Ids
        PROVE  \A k \in DOMAIN copied'[id] : copied'[id][k] = [header |-> k, body |-> k]
    <3>1. CASE id = Oldest.id
      BY <3>1
    <3>2. CASE id # Oldest.id
      <4>1. copied'[id] = copied[id]
        BY <3>2
      <4>2. \A k \in DOMAIN copied[id] : copied[id][k] = [header |-> k, body |-> k]
        BY DEF IInv, InStep
      <4>. QED  BY <4>1, <4>2
    <3>. QED  BY <3>1, <3>2
  <2>. QED  BY <2>1 DEF InStep
<1>8. DeletedOnlyIfCopied'
  <2>1. ASSUME NEW id \in deleted', NEW i \in DOMAIN m_copyRequests, m_copyRequests[i].id = id
        PROVE  Len(copied'[id]) = Job[m_copyRequests[i].src].total
    <3>1. CASE i = 1
      BY <1>3, <2>1, <3>1
    <3>2. CASE i # 1
      <4>1. id \in Ids /\ id # Oldest.id
        BY <1>3, <2>1, <3>2, QueueIds
      <4>2. id \in deleted /\ copied'[id] = copied[id]
        BY <2>1, <4>1
      <4>. QED  BY <2>1, <4>2 DEF IInv, DeletedOnlyIfCopied
    <3>. QED  BY <3>1, <3>2
  <2>. QED  BY <1>2, <2>1 DEF DeletedOnlyIfCopied
<1>. QED  BY <1>1, <1>5, <1>6, <1>7, <1>8 DEF IInv

\* Message n of the request is finished.
LEMMA MessageFinished ==
    ASSUME IInv, NEW id \in Ids, NEW n \in Nat, n = Len(copied[id]) + 1,
           copied' = [copied EXCEPT ![id] = Append(@, [header |-> n, body |-> n])]
    PROVE  /\ copied' \in [Ids -> Seq(CopiedType)]
           /\ Len(copied'[id]) = n
           /\ \A k \in DOMAIN copied'[id] : copied'[id][k] = [header |-> k, body |-> k]
           /\ \A other \in Ids : other # id => copied'[other] = copied[other]
<1> DEFINE s == copied[id]
           e == [header |-> n, body |-> n]
<1>1. copied \in [Ids -> Seq(CopiedType)] /\ s \in Seq(CopiedType) /\ e \in CopiedType
  BY Known DEF Files, CopiedType
<1>2. \A k \in DOMAIN s : s[k] = [header |-> k, body |-> k]
  BY DEF IInv, InStep
<1> HIDE DEF e
<1>3. /\ Append(s, e) \in Seq(CopiedType) /\ Len(Append(s, e)) = n
      /\ \A k \in 1..n : Append(s, e)[k] = IF k = n THEN e ELSE s[k]
  BY <1>1
<1>4. copied' = [copied EXCEPT ![id] = Append(s, e)]
  BY <1>1 DEF e
<1>5. copied'[id] = Append(s, e) /\ copied' \in [Ids -> Seq(CopiedType)]
      /\ \A other \in Ids : other # id => copied'[other] = copied[other]
  BY <1>1, <1>3, <1>4
<1>6. ASSUME NEW k \in DOMAIN Append(s, e) PROVE Append(s, e)[k] = [header |-> k, body |-> k]
  <2>1. k \in 1..n /\ (k # n => k \in DOMAIN s)
    BY <1>1, <1>3
  <2>. QED  BY <1>2, <1>3, <2>1 DEF e
<1>. QED  BY <1>3, <1>5, <1>6

LEMMA FileInv ==
    ASSUME IInv, CopyFileMessage
    PROVE  IInv'
<1>1. PICK id \in Ids, src \in Srcs, rest \in Seq(ReturnFrames) :
          id = Frame.id /\ src = Frame.src /\ rest = Beneath
  BY AtCopyFrame DEF CopyFileMessage
<1>2. /\ NoCopy /\ streams = {} /\ unfinished <= 1 /\ unfinished \in Nat
      /\ Taken(Frame) /\ Frame.type = "file"
  BY AtCopyFrame DEF CopyFileMessage
<1>3. /\ UNCHANGED <<serviceVars, streams, locked, m_stopped, deleted>>
      /\ UNCHANGED m_copyRequests
  BY DEF CopyFileMessage, serviceVars
<1>4. PICK opened \in BOOLEAN, written \in BOOLEAN :
         IF opened /\ written
           THEN /\ OnCopyCompleted(id, src, "ok",
                     Cons(IF Job[src].move THEN DraftCall(id, src) ELSE ReturnCall("ok"), rest))
                /\ copied' = [copied EXCEPT ![id] = Append(@, [header |-> 1, body |-> 1])]
                /\ UNCHANGED unfinished
           ELSE /\ OnCopyCompleted(id, src, "failed", Cons(ReturnCall("failed"), rest))
                /\ unfinished' = IF opened THEN 1 ELSE unfinished
                /\ UNCHANGED copied
  BY <1>1 DEF CopyFileMessage, Works
<1>5. CASE ~ (opened /\ written)
  <2>1. "failed" \in Results
    BY DEF Results
  <2>2. /\ Control' /\ NoCopy' /\ StateOK' /\ rv' = rv
        /\ verdict' \in [Ids -> Results \cup {"none"}]
    BY <1>3, <1>4, <1>5, <2>1, Known, EndsControl
  <2>3. unfinished' \in Nat /\ unfinished' <= 1
    BY <1>2, <1>4, <1>5
  <2>. QED  BY <1>2, <1>3, <1>4, <1>5, <2>2, <2>3, ReportKeeps
<1>6. CASE opened /\ written
  <2>1. /\ ~ QueueEmpty /\ Oldest.id = id /\ Oldest.src = src /\ Oldest.type = "file"
        /\ Underway(Oldest) /\ Oldest.processed /\ copied[id] = <<>> /\ id \notin deleted
    BY <1>1, <1>2 DEF Taken, Fresh
  <2>2. 1 \in DOMAIN m_copyRequests /\ Oldest \in RequestType /\ Oldest.dst \in Dsts
    BY <2>1, QueueIds DEF Oldest, RequestType
  <2>3. Asked(Oldest) /\ (IsDraft(src) => Len(m_copyRequests) = 1)
    BY <2>1, <2>2, Known DEF JobQueue, Oldest
  <2>4. Job[src].source = "file" /\ Job[src].move \in BOOLEAN
    BY <2>1, <2>3, AskedFor
  <2>5. PICK f : f = IF Job[src].move THEN DraftCall(id, src) ELSE ReturnCall("ok")
    OBVIOUS
  <2>6. f \in DraftFrames \cup ReturnFrames /\ (f.pc = "Draft" => Job[src].move)
    BY <2>5 DEF DraftCall, ReturnCall, DraftFrames, ReturnFrames, Results
  <2>7. /\ Cons(f, rest) \in Seq(ReturnFrames \cup DraftFrames) /\ Cons(f, rest) # <<>>
        /\ Head(Cons(f, rest)) = f /\ Tail(Cons(f, rest)) = rest
    <3>1. rest \in Seq(ReturnFrames \cup DraftFrames)
      OBVIOUS
    <3>. QED  BY <2>6, <3>1, ConsProperties
  <2>8. Waiting(Cons(f, rest)) /\ (HoldsDraft(Cons(f, rest)) => Job[src].move)
    BY <2>6, <2>7 DEF Waiting, HoldsDraft
  <2>9. OnCopyCompleted(id, src, "ok", Cons(f, rest)) /\ "ok" \in Results
    BY <1>4, <1>6, <2>5 DEF Results
  <2>10. PICK calls : calls = Cons(f, rest)
    OBVIOUS
  <2>11. HoldsDraft(calls) => /\ Len(m_copyRequests) = 1
                              /\ Oldest.processed /\ Oldest.src = src
                              /\ Oldest.dst \in Dsts
    BY <2>1, <2>2, <2>3, <2>4, <2>8, <2>10 DEF IsDraft
  <2>12. /\ Control' /\ NoCopy' /\ StateOK' /\ rv' = rv
         /\ verdict' \in [Ids -> Results \cup {"none"}]
    BY <1>3, <2>8, <2>9, <2>10, <2>11, Known, CompletesControl
  <2>13. /\ copied' \in [Ids -> Seq(CopiedType)]
         /\ \A k \in DOMAIN copied'[id] : copied'[id][k] = [header |-> k, body |-> k]
         /\ \A other \in Ids : other # id => copied'[other] = copied[other]
    <3>1. Len(copied[id]) = 0
      BY <2>1, EmptySeq
    <3>2. PICK n \in Nat : n = 1
      OBVIOUS
    <3>3. n = Len(copied[id]) + 1
      BY <3>1, <3>2
    <3>4. copied' = [copied EXCEPT ![id] = Append(@, [header |-> n, body |-> n])]
      BY <1>4, <1>6, <3>2
    <3>. QED  BY <3>3, <3>4, MessageFinished
  <2>14. Streams' /\ Flags' /\ unfinished' \in Nat /\ unfinished' <= 1 /\ deleted' = deleted
    BY <1>2, <1>3, <1>4, <1>6, <2>12, Known DEF Streams, Flags
  <2>. QED  BY <1>3, <2>1, <2>12, <2>13, <2>14, Known, HistoryKeeps DEF Files
<1>. QED  BY <1>5, <1>6

LEMMA EndCopySucceedsInv ==
    ASSUME IInv, EndCopySucceeds
    PROVE  IInv'
<1> DEFINE m == mCopyState
           finished == [m EXCEPT !.dstKey = TRUE]
<1>1. /\ AtEndCopy /\ ~ NoCopy /\ m \in StateType /\ m.cur <= m.total
      /\ m.id \in Ids /\ m.src \in Srcs /\ Len(copied[m.id]) \in Nat
      /\ Frame \in EndCopyFrames /\ Beneath \in Seq(LocalFrames) /\ Running("EndCopy")
  BY AtEndFrames DEF EndCopySucceeds, AtEndCopy
<1>2. PICK n \in Nat, id \in Ids, src \in Srcs : n = Frame.n /\ id = m.id /\ src = m.src
  BY <1>1 DEF EndCopyFrames
<1>3. /\ streams = {} /\ Frame.ok /\ n = Len(copied[id]) + 1 /\ n = m.cur /\ m.message = n
      /\ ~ m.writeFailed /\ n <= m.total
  BY <1>1, <1>2 DEF AtEndCopy, Read, EndCopySucceeds, Failed
<1>4. /\ copied' = [copied EXCEPT ![id] = Append(@, [header |-> n, body |-> n])]
      /\ unfinished' = 0
      /\ UNCHANGED <<serviceVars, locked, m_stopped, deleted>>
      /\ UNCHANGED m_copyRequests
  BY <1>2, <1>3 DEF EndCopySucceeds, serviceVars
<1>5. /\ copied' \in [Ids -> Seq(CopiedType)] /\ Len(copied'[id]) = n
      /\ \A k \in DOMAIN copied'[id] : copied'[id][k] = [header |-> k, body |-> k]
      /\ \A other \in Ids : other # id => copied'[other] = copied[other]
  BY <1>3, <1>4, MessageFinished
<1>6. /\ ~ QueueEmpty /\ Underway(Oldest) /\ Oldest.id = id /\ id \notin deleted
      /\ Job[m.src].source # "file" /\ m.total \in Nat
  BY <1>1, <1>2, Known DEF StateOK, StateType
<1>7. ASSUME Control', StateOK', Streams', rv' \in Results,
             verdict' \in [Ids -> Results \cup {"none"}]
      PROVE  IInv'
  <2>1. Flags'
    BY <1>4, <1>7, Known DEF Flags
  <2>. QED  BY <1>4, <1>5, <1>6, <1>7, <2>1, Known, HistoryKeeps DEF Files
<1>8. PICK w : /\ w = finished /\ w \in StateType /\ w.id = m.id /\ w.src = m.src
               /\ w.isMove = m.isMove /\ w.total = m.total /\ w.multiple = m.multiple
               /\ w.writeFailed = m.writeFailed /\ w.dstKey /\ w.cur = m.cur
  <2>1. m \in StateType
    BY <1>1
  <2>2. /\ finished \in StateType /\ finished.id = m.id /\ finished.src = m.src
        /\ finished.isMove = m.isMove /\ finished.total = m.total /\ finished.multiple = m.multiple
        /\ finished.writeFailed = m.writeFailed /\ finished.dstKey = TRUE /\ finished.cur = m.cur
    BY <2>1 DEF StateType
  <2>. QED  BY <2>2
<1>9. ASSUME mCopyState' = w, NEW v \in Results, Returns(v),
             streams' # {} => n < m.total /\ ~ m.multiple
      PROVE  Control' /\ StateOK' /\ rv' \in Results /\ ~ NoCopy'
             /\ verdict' \in [Ids -> Results \cup {"none"}]
  <2>1. StateOK' /\ ~ NoCopy'
    BY <1>1, <1>4, <1>8, <1>9, StateNext
  <2>2. ReadToEnd(n)'
    BY <1>2, <1>3, <1>4, <1>5, <1>8, <1>9 DEF ReadToEnd
  <2>3. Control' /\ rv' = v /\ verdict' = verdict
    <3>1. CASE m.isMove
      <4>1. unfinished' <= 1
        BY <1>4
      <4>. QED  BY <1>1, <1>2, <1>3, <1>8, <1>9, <2>1, <2>2, <3>1, <4>1, ToEndMove
    <3>2. CASE ~ m.isMove
      <4>1. PICK f : f = Frame /\ GoesOn(f, Beneath)
        BY <1>1, <3>2 DEF AtEndCopy
      <4>2. f.n = n
        BY <1>2, <4>1
      <4>3. ReadToEnd(f.n)'
        BY <2>2, <4>2
      <4>4. Beneath # <<>> => streams' = {}
        BY <1>9, <4>1 DEF GoesOn
      <4>. QED  BY <1>1, <1>8, <1>9, <2>1, <4>1, <4>3, <4>4, ToNextMessage
    <3>. QED  BY <3>1, <3>2
  <2>. QED  BY <1>9, <2>1, <2>3, Known
<1>10. CASE ~ multipleCopiesFinished /\ ~ m.multiple
  <2>1. PICK up \in BOOLEAN :
          /\ streams' = IF up THEN streams \cup {Stream(id, src, m.cur + 1)} ELSE streams
          /\ Returns(IF up THEN "ok" ELSE "failed")
          /\ mCopyState' = w
    BY <1>2, <1>8, <1>10 DEF EndCopySucceeds, Works
  <2>2. PICK v \in Results : v = IF up THEN "ok" ELSE "failed"
    BY DEF Results
  <2>3. n < m.total
    BY <1>3, <1>6, <1>10 DEF multipleCopiesFinished
  <2>4. Control' /\ StateOK' /\ rv' \in Results /\ ~ NoCopy'
        /\ verdict' \in [Ids -> Results \cup {"none"}]
    BY <1>9, <1>10, <2>1, <2>2, <2>3
  <2>5. Streams'
    <3>1. CASE ~ up
      BY <1>3, <2>1, <3>1 DEF Streams
    <3>2. CASE up
      <4>1. PICK t : t = Stream(id, src, n + 1)
        OBVIOUS
      <4>2. streams' = {t}
        BY <1>3, <2>1, <3>2, <4>1
      <4>3. t \in StreamType /\ t.id = id /\ t.src = src /\ t.n = n + 1 /\ t.at = "begin" /\ t.ok
        BY <4>1 DEF Stream, StreamType
      <4>4. t.n = Len(copied'[id]) + 1 /\ t.n <= w.total
        BY <1>5, <1>6, <1>8, <2>3, <4>3
      <4>5. w.cur = IF w.multiple /\ w.open THEN t.n ELSE t.n - 1
        BY <1>3, <1>8, <1>10, <4>3
      <4>6. StreamOK(t)'
        BY <1>2, <1>3, <1>4, <1>8, <2>1, <4>3, <4>4, <4>5 DEF StreamOK
      <4>. QED  BY <2>4, <4>2, <4>6, StreamsNext
    <3>. QED  BY <3>1, <3>2
  <2>. QED  BY <1>7, <2>4, <2>5
<1>11. CASE /\ ~ (~ multipleCopiesFinished /\ ~ m.multiple)
            /\ ~ m.isMove /\ multipleCopiesFinished
  <2>1. OnCopyCompleted(m.id, m.src, "ok", Cons(ReturnCall("ok"), Beneath)) /\ UNCHANGED streams
    BY <1>11 DEF EndCopySucceeds
  <2>2. Beneath = <<>>
    <3>1. GoesOn(Frame, Beneath)
      BY <1>1, <1>11 DEF AtEndCopy
    <3>2. ~ (n < m.total)
      BY <1>3, <1>6, <1>11 DEF multipleCopiesFinished
    <3>. QED  BY <1>2, <3>1, <3>2 DEF GoesOn
  <2>3. PICK rest \in Seq(ReturnFrames), ok \in Results : rest = Beneath /\ ok = "ok"
    BY <2>2, EmptyReturns DEF Results
  <2>4. OnCopyCompleted(id, src, ok, Cons(ReturnCall(ok), rest))
    BY <1>2, <2>1, <2>3
  <2>5. /\ Control' /\ NoCopy' /\ StateOK' /\ rv' = rv
        /\ verdict' \in [Ids -> Results \cup {"none"}]
    BY <1>4, <2>4, Known, EndsControl
  <2>6. Streams' /\ rv' \in Results
    BY <1>3, <2>1, <2>5, Known DEF Streams, Flags
  <2>. QED  BY <1>7, <2>5, <2>6
<1>12. CASE /\ ~ (~ multipleCopiesFinished /\ ~ m.multiple)
            /\ ~ (~ m.isMove /\ multipleCopiesFinished)
  <2>1. Returns("ok") /\ mCopyState' = w /\ UNCHANGED streams
    BY <1>8, <1>12 DEF EndCopySucceeds
  <2>2. streams' = {} /\ "ok" \in Results
    BY <1>3, <2>1 DEF Results
  <2>3. Control' /\ StateOK' /\ rv' \in Results /\ verdict' \in [Ids -> Results \cup {"none"}]
    BY <1>9, <2>1, <2>2
  <2>. QED  BY <1>7, <2>2, <2>3 DEF Streams
<1>. QED  BY <1>10, <1>11, <1>12

LEMMA EndMoveSucceedsInv ==
    ASSUME IInv, EndMoveSucceeds
    PROVE  IInv'
<1> DEFINE m == mCopyState
<1>1. /\ AtEndMove /\ ~ NoCopy /\ m \in StateType /\ m.cur <= m.total
      /\ m.id \in Ids /\ m.src \in Srcs /\ unfinished \in Nat /\ Len(copied[m.id]) \in Nat
      /\ Frame \in EndMoveFrames /\ Beneath \in Seq(LocalFrames) /\ Running("EndMove")
  BY AtEndFrames DEF EndMoveSucceeds, AtEndMove
<1>2. PICK f \in EndMoveFrames, n \in Nat, id \in Ids, src \in Srcs :
          f = Frame /\ n = Frame.n /\ id = m.id /\ src = m.src
  BY <1>1 DEF EndMoveFrames
<1>3. /\ Frame.ok /\ ReadToEnd(n) /\ GoesOn(f, Beneath) /\ unfinished <= 1
      /\ streams # {} => n < m.total /\ ~ m.multiple
  BY <1>1, <1>2 DEF AtEndMove, EndMoveSucceeds, Failed
<1>4. UNCHANGED <<serviceVars, streams, locked, m_stopped, unfinished, copied>>
      /\ UNCHANGED m_copyRequests
  BY DEF EndMoveSucceeds, serviceVars
<1>5. /\ ~ QueueEmpty /\ Underway(Oldest) /\ Oldest.id = id /\ Oldest.src = src
      /\ m.total = Job[src].total /\ m.total \in Nat
  BY <1>1, <1>2, Known DEF StateOK, StateType
<1>6. CASE ~ multipleCopiesFinished
  <2>1. Returns("ok") /\ UNCHANGED <<mCopyState, deleted>>
    BY <1>6 DEF EndMoveSucceeds
  <2>2. StateOK' /\ ~ NoCopy'
    BY <1>1, <1>4, <2>1, StateNext
  <2>3. Control' /\ rv' = "ok" /\ verdict' = verdict
    <3>1. PICK w : w = m
      OBVIOUS
    <3>2. mCopyState' = w
      BY <2>1, <3>1
    <3>3. ReadToEnd(f.n)'
      <4>1. f.n = n
        BY <1>2
      <4>. QED  BY <1>3, <1>4, <2>1, <4>1 DEF ReadToEnd
    <3>4. Beneath # <<>> => streams' = {}
      BY <1>3, <1>4 DEF GoesOn
    <3>. QED  BY <1>1, <1>3, <2>1, <2>2, <3>1, <3>2, <3>3, <3>4, ToNextMessage
  <2>4. Streams' /\ Flags'
    BY <1>1, <1>4, <2>1, <2>2, <2>3, Known DEF Streams, StreamOK, Read, Flags, Results, NoCopy
  <2>. QED  BY <1>1, <1>3, <1>4, <2>1, <2>2, <2>3, <2>4, Known, FolderKeeps
<1>7. CASE multipleCopiesFinished
  <2>1. PICK gone \in BOOLEAN, ok \in Results :
          /\ ok = IF gone THEN "ok" ELSE "failed"
          /\ deleted' = IF gone THEN deleted \cup {id} ELSE deleted
          /\ OnCopyCompleted(id, src, ok, Cons(ReturnCall("ok"), Beneath))
    BY <1>2, <1>7 DEF EndMoveSucceeds, Works, Results
  <2>2. n = m.total /\ n = Len(copied[id])
    BY <1>1, <1>2, <1>3, <1>5, <1>7 DEF multipleCopiesFinished, ReadToEnd
  <2>3. Beneath = <<>> /\ streams = {}
    BY <1>2, <1>3, <1>5, <2>2 DEF GoesOn
  <2>4. PICK rest \in Seq(ReturnFrames), v \in Results : rest = Beneath /\ v = "ok"
    BY <2>3, EmptyReturns DEF Results
  <2>5. OnCopyCompleted(id, src, ok, Cons(ReturnCall(v), rest))
    BY <2>1, <2>4
  <2>6. /\ Control' /\ NoCopy' /\ StateOK' /\ rv' = rv
        /\ verdict' \in [Ids -> Results \cup {"none"}]
    BY <1>4, <2>5, Known, EndsControl
  <2>7. Streams' /\ Flags'
    BY <1>4, <2>3, <2>6, Known DEF Streams, Flags
  <2>8. /\ copied' = copied /\ copied' \in [Ids -> Seq(CopiedType)] /\ deleted' \subseteq Ids
        /\ \A other \in Ids : other # id =>
              copied'[other] = copied[other] /\ (other \in deleted' <=> other \in deleted)
        /\ unfinished' \in Nat /\ unfinished' <= 1
    BY <1>1, <1>3, <1>4, <2>1, Known DEF Files
  <2>9. \A k \in DOMAIN copied[id] : copied[id][k] = [header |-> k, body |-> k]
    BY DEF IInv, InStep
  <2>10. Len(copied[id]) = Job[Oldest.src].total
    BY <1>5, <2>2
  <2>. QED  BY <1>4, <1>5, <2>6, <2>7, <2>8, <2>9, <2>10, HistoryKeeps
<1>. QED  BY <1>6, <1>7

-----------------------------------------------------------------------------
(* The steps of the service are steps of the instance, and keep the rest.   *)

LEMMA ServedSequences ==
    /\ \A e, s : Served!Cons(e, s) = Cons(e, s)
    /\ \A s, i : Served!RemoveAt(s, i) = RemoveAt(s, i)
  BY DEF Served!Cons, Cons, Served!RemoveAt, RemoveAt

\* The requests keep their numbers and what they copy, but for one that is new.
Inherits ==
    \A i \in DOMAIN m_copyRequests' :
       \/ \E j \in DOMAIN m_copyRequests : /\ m_copyRequests[j].id = m_copyRequests'[i].id
                                           /\ m_copyRequests[j].src = m_copyRequests'[i].src
       \/ m_copyRequests'[i].id \notin deleted

LEMMA ServiceKeeps ==
    ASSUME IInv, Served!Next, UNCHANGED folderVars, Control', JobQueue', StateOK',
           rv' \in Results, nextId' \in {nextId, nextId + 1}, Inherits
    PROVE  IInv'
<1>1. Served!TypeOK' /\ Served!QueueInv'
  BY ServedKept DEF IInv
<1>2. UNCHANGED <<mCopyState, streams, locked, m_stopped, unfinished, copied, deleted>>
  BY DEF folderVars
<1>3. Streams'
  BY <1>2, Known DEF Streams, StreamOK, Read, NoCopy
<1>4. Files'
  <2>1. \A id \in Ids : id >= nextId' => id >= nextId
    <3>1. nextId \in Nat /\ Ids \subseteq Nat
      BY QueueIds DEF Ids
    <3>. QED  BY <3>1
  <2>. QED  BY <1>2, <2>1, Known DEF Files, Fresh, NoCopy
<1>5. Flags' /\ InStep'
  BY <1>2, Known DEF Flags, IInv, InStep
<1>6. DeletedOnlyIfCopied'
  <2>1. ASSUME NEW id \in deleted, NEW i \in DOMAIN m_copyRequests', m_copyRequests'[i].id = id
        PROVE  Len(copied[id]) = Job[m_copyRequests'[i].src].total
    <3>1. PICK j \in DOMAIN m_copyRequests : /\ m_copyRequests[j].id = id
                                             /\ m_copyRequests[j].src = m_copyRequests'[i].src
      BY <2>1 DEF Inherits
    <3>. QED  BY <3>1 DEF IInv, DeletedOnlyIfCopied
  <2>. QED  BY <1>2, <2>1 DEF DeletedOnlyIfCopied
<1>. QED  BY <1>1, <1>3, <1>4, <1>5, <1>6 DEF IInv

LEMMA ListenerReturnsServed ==
    ASSUME IInv, ListenerReturns, UNCHANGED folderVars
    PROVE  Served!ListenerReturns /\ Control'
<1>1. stack # <<>> /\ Control /\ Running("OnStopCopy")
  BY Known DEF ListenerReturns, Running
<1>2. AtOnStopCopy /\ Beneath \in Seq(LocalFrames)
  BY <1>1, Where
<1>3. ServiceCalls(stack) = <<Frame, Head(Beneath)>>
  BY <1>1, <1>2, CallsAt DEF CallsLocated
<1>4. stack' = Beneath /\ UNCHANGED <<m_copyRequests, nextId, starts, stopped, verdict, mCopyState>>
  BY DEF ListenerReturns, Return, Beneath, folderVars
<1>5. stack' # <<>> /\ stack' \in Seq(LocalFrames)
      /\ Frame' = Head(Beneath) /\ Beneath' = Tail(Beneath)
  BY <1>2, <1>4 DEF AtOnStopCopy, Frame, Beneath
<1>6. AtNotify'
  BY <1>2, <1>4, <1>5 DEF AtNotify, AtOnStopCopy, NoCopy, QueueEmpty, Waiting, HoldsDraft
<1>7. Control'
  BY <1>5, <1>6 DEF Control
<1>8. ServiceCalls(stack)' = <<Head(Beneath)>>
  BY <1>5, <1>6, <1>7, CallsAtNext DEF CallsLocated
<1>9. TheCopy' = TheCopy
  BY <1>4 DEF TheCopy
<1>10. Served!Running("OnStopCopy")
  BY <1>1, <1>3 DEF Served!Running, Running, Frame
<1>11. Served!Return
  BY <1>3, <1>8 DEF Served!Return
<1>. QED  BY <1>4, <1>7, <1>9, <1>10, <1>11 DEF Served!ListenerReturns

LEMMA ListenerReturnsInv ==
    ASSUME IInv, ListenerReturns, UNCHANGED folderVars, rv' \in Results
    PROVE  IInv'
<1>1. Served!ListenerReturns /\ Control'
  BY ListenerReturnsServed
<1>2. Served!Next
  BY <1>1 DEF Served!Next, Served!Code
<1>3. UNCHANGED <<m_copyRequests, nextId, mCopyState, copied, deleted>>
  BY DEF ListenerReturns, folderVars
<1>4. JobQueue' /\ StateOK'
  BY <1>3, Known DEF JobQueue, StateOK, Fresh, Asked, Underway, AllSourcesProcessed, NoCopy,
         QueueEmpty, Oldest
<1>5. Inherits
  BY <1>3 DEF Inherits
<1>. QED  BY <1>1, <1>2, <1>3, <1>4, <1>5, ServiceKeeps

LEMMA NoDraftWaits ==
    ASSUME NEW s, Waiting(s), ~ HoldsDraft(s)
    PROVE  s \in Seq(ReturnFrames)
<1>1. CASE s = <<>>
  BY <1>1, EmptyReturns
<1>2. CASE s # <<>>
  <2>1. Head(s) \in ReturnFrames /\ Tail(s) \in Seq(ReturnFrames)
    BY <1>2, WaitingCalls DEF HoldsDraft, DraftFrames
  <2>2. s = Cons(Head(s), Tail(s))
    <3>1. s \in Seq(LocalFrames)
      BY WaitingCalls
    <3>. QED  BY <1>2, <3>1 DEF Cons
  <2>. QED  BY <2>1, <2>2, ConsProperties
<1>. QED  BY <1>1, <1>2

\* What every step of DoNextCopy finds.
LEMMA AtDoNextCopyFrame ==
    ASSUME IInv, Running("DoNextCopy")
    PROVE  /\ AtDoNextCopy /\ Beneath \in Seq(LocalFrames) /\ Beneath = Tail(stack)
           /\ ServiceCalls(stack) = <<DoNextCopyCall>>
           /\ Served!Running("DoNextCopy")
<1>1. stack # <<>> /\ Control
  BY Known DEF Running
<1>2. AtDoNextCopy /\ Beneath \in Seq(LocalFrames)
  BY <1>1, Where
<1>3. ServiceCalls(stack) = <<DoNextCopyCall>>
  BY <1>1, <1>2, CallsAt DEF CallsLocated, AtDoNextCopy
<1>4. Served!Running("DoNextCopy")
  BY <1>3 DEF Served!Running, DoNextCopyCall
<1>. QED  BY <1>2, <1>3, <1>4 DEF Beneath

LEMMA DoNextCopyStartsServed ==
    ASSUME IInv, DoNextCopyStarts, UNCHANGED folderVars
    PROVE  Served!DoNextCopyStarts /\ Control' /\ AtCopy' /\ Frame' = CopyCall(Oldest, Oldest.src)
<1>1. /\ AtDoNextCopy /\ Beneath \in Seq(LocalFrames) /\ Beneath = Tail(stack)
      /\ ServiceCalls(stack) = <<DoNextCopyCall>>
      /\ Served!Running("DoNextCopy")
  BY AtDoNextCopyFrame DEF DoNextCopyStarts
<1>2. /\ Len(m_copyRequests) >= 1 /\ ~ Underway(Oldest)
      /\ m_copyRequests' \in Seq(RequestType)
      /\ Len(m_copyRequests') = Len(m_copyRequests)
      /\ Oldest'.id = Oldest.id /\ Oldest'.src = Oldest.src /\ Oldest'.type = Oldest.type
      /\ Underway(Oldest')
      /\ Oldest.type = "file" => Oldest'.processed
      /\ stack' = Cons(CopyCall(Oldest, Oldest.src), Beneath)
  BY Known, StartsOldest
<1>3. UNCHANGED <<nextId, stopped, verdict, mCopyState, copied, deleted>>
  BY DEF DoNextCopyStarts, folderVars
<1>4. 1 \in DOMAIN m_copyRequests /\ ~ QueueEmpty
  BY <1>2, Known, EmptySeq DEF QueueEmpty
<1>5. Oldest \in RequestType /\ Fresh(Oldest.id)
  BY <1>2, <1>4, QueueIds, Known DEF JobQueue, Oldest
<1>6. PICK f : f = CopyCall(Oldest, Oldest.src)
  OBVIOUS
<1>7. /\ f \in CopyFrames /\ f.id = Oldest.id /\ f.src = Oldest.src /\ f.type = Oldest.type
  BY <1>5, <1>6 DEF CopyCall, CopyFrames, RequestType
<1>8. Beneath \in Seq(ReturnFrames)
  BY <1>1, <1>4, NoDraftWaits DEF AtDoNextCopy
<1>9. stack' \in Seq(LocalFrames) /\ stack' # <<>> /\ Frame' = f /\ Beneath' = Beneath
  <2>1. f \in LocalFrames
    BY <1>7 DEF LocalFrames
  <2>2. PICK rest \in Seq(LocalFrames) : rest = Beneath
    BY <1>1
  <2>. QED  BY <1>2, <1>6, <2>1, <2>2, PushedFrame
<1>10. AtCopy'
  <2>1. ~ QueueEmpty'
    BY <1>2, EmptySeq DEF QueueEmpty
  <2>2. Taken(f)'
    BY <1>2, <1>3, <1>5, <1>7, <2>1 DEF Taken, Fresh, Underway, AllSourcesProcessed
  <2>. QED  BY <1>1, <1>3, <1>7, <1>8, <1>9, <2>2 DEF AtCopy, AtDoNextCopy, NoCopy, Taken, Fresh
<1>11. Control'
  BY <1>9, <1>10 DEF Control
<1>12. ServiceCalls(stack)' = <<f>>
  BY <1>9, <1>10, <1>11, CallsAtNext DEF CallsLocated
<1>13. TheCopy' = TheCopy
  BY <1>3 DEF TheCopy
<1>14. Served!DoNextCopyStarts
  <2> DEFINE q == m_copyRequests
             i == Found(q)
             r == q[i]
             k == FirstSource(r)
             g == CopyCall(r, IF r.type = "file" THEN r.src ELSE r.sources[k].folder)
  <2>1. stack' = Cons(g, Beneath)
    BY <1>1 DEF DoNextCopyStarts, ReturnAndCall
  <2>2. g = f
    <3>1. PICK rest \in Seq(LocalFrames), e \in {g} : e = g /\ rest = Beneath
      BY <1>1
    <3>2. Cons(e, rest) = Cons(f, rest)
      BY <1>2, <1>6, <2>1, <3>1
    <3>3. Cons(e, rest)[1] = e /\ Cons(f, rest)[1] = f
      BY DEF Cons
    <3>. QED  BY <3>1, <3>2, <3>3
  <2>3. Served!ReturnAndCall(g)
    <3>1. Tail(ServiceCalls(stack)) = <<>>
      BY <1>1
    <3>2. Cons(f, <<>>) = <<f>>
      BY DEF Cons
    <3>. QED  BY <1>12, <2>2, <3>1, <3>2, ServedSequences DEF Served!ReturnAndCall
  <2>4. Served!Found(q) = i /\ Served!FirstSource(r) = k /\ Served!MarkUnderway(q, i) = MarkUnderway(q, i)
    BY ServedQueueOps
  <2>5. Served!CopyCall(r, IF r.type = "file" THEN r.src ELSE r.sources[k].folder) = g
    BY ServedCalls
  <2>6. \E j \in DOMAIN m_copyRequests : Served!Startable(m_copyRequests, j)
    BY ServedQueueOps DEF DoNextCopyStarts
  <2>7. /\ m_copyRequests' = [MarkUnderway(q, i) EXCEPT
             ![i] = [(IF r.sources # <<>> THEN [r EXCEPT !.sources[k].processed = TRUE] ELSE r)
                       EXCEPT !.processed = (r.type = "file")]]
        /\ starts' = [starts EXCEPT ![r.id] = @ + 1]
    BY DEF DoNextCopyStarts
  <2> HIDE DEF g, k, r, i
  <2>. QED  BY <1>1, <1>3, <1>13, <2>3, <2>4, <2>5, <2>6, <2>7 DEF Served!DoNextCopyStarts, r
<1>. QED  BY <1>6, <1>9, <1>10, <1>11, <1>14

LEMMA DoNextCopyStartsInv ==
    ASSUME IInv, DoNextCopyStarts, UNCHANGED folderVars, rv' \in Results
    PROVE  IInv'
<1> DEFINE q == m_copyRequests
<1>1. Served!DoNextCopyStarts /\ Control' /\ AtCopy'
  BY DoNextCopyStartsServed
<1>2. Served!Next
  BY <1>1 DEF Served!Next, Served!Code
<1>3. UNCHANGED <<nextId, mCopyState, copied, deleted>>
  BY DEF DoNextCopyStarts, folderVars
<1>4. /\ Len(q) >= 1 /\ ~ Underway(Oldest)
      /\ m_copyRequests' \in Seq(RequestType) /\ Len(m_copyRequests') = Len(q)
      /\ \A i \in 2..Len(q) : m_copyRequests'[i] = q[i]
      /\ Oldest'.id = Oldest.id /\ Oldest'.src = Oldest.src
      /\ Underway(Oldest') /\ Asked(Oldest')
  BY Known, StartsOldest
<1>5. /\ q \in Seq(RequestType) /\ DOMAIN m_copyRequests' = DOMAIN q
      /\ \A i \in DOMAIN q : i = 1 \/ m_copyRequests'[i] = q[i]
      /\ 1 \in DOMAIN q
  <2>1. q \in Seq(RequestType)
    BY Known
  <2>2. \A i \in DOMAIN q : i = 1 \/ i \in 2..Len(q)
    BY <2>1
  <2>. QED  BY <1>4, <2>1, <2>2
<1>6. Oldest = q[1] /\ Oldest' = m_copyRequests'[1]
  BY DEF Oldest
<1>7. Inherits
  BY <1>4, <1>5, <1>6 DEF Inherits
<1>8. StateOK'
  BY <1>1 DEF AtCopy, StateOK, NoCopy
<1>9. JobQueue'
  <2>1. ASSUME NEW i \in DOMAIN q
        PROVE  /\ Asked(m_copyRequests'[i])
               /\ Underway(m_copyRequests'[i]) => i = 1
               /\ ~ Underway(m_copyRequests'[i]) => Fresh(m_copyRequests'[i].id)
               /\ IsDraft(m_copyRequests'[i].src) => Len(q) = 1
    <3>1. CASE i = 1
      BY <1>4, <1>5, <1>6, <3>1, Known DEF JobQueue
    <3>2. CASE i # 1
      BY <1>5, <3>2, Known DEF JobQueue
    <3>. QED  BY <3>1, <3>2
  <2>. QED  BY <1>3, <1>4, <1>5, <2>1 DEF JobQueue, Fresh, Asked, Underway, AllSourcesProcessed
<1>. QED  BY <1>1, <1>2, <1>3, <1>7, <1>8, <1>9, ServiceKeeps

LEMMA IdleKeepsRequest ==
    ASSUME m_copyRequests \in Seq(RequestType), DoNextCopyIdle, NEW i \in DOMAIN m_copyRequests
    PROVE  LET r == m_copyRequests[i]
               s == m_copyRequests'[i]
           IN  /\ s.id = r.id /\ s.src = r.src /\ s.dst = r.dst /\ s.type = r.type
               /\ s.sources = r.sources
               /\ Underway(s) <=> Underway(r)
<1> DEFINE r == m_copyRequests[i]
<1>1. r \in RequestType
  OBVIOUS
<1>2. m_copyRequests' = MarkUnderway(m_copyRequests, Len(m_copyRequests))
  BY DEF DoNextCopyIdle
<1>3. m_copyRequests'[i] = r \/ (Underway(r) /\ m_copyRequests'[i] = [r EXCEPT !.processed = TRUE])
  BY <1>2 DEF MarkUnderway
<1>4. CASE m_copyRequests'[i] = r
  BY <1>4
<1>5. CASE Underway(r) /\ m_copyRequests'[i] = [r EXCEPT !.processed = TRUE]
  <2>1. PICK s : s = m_copyRequests'[i]
    OBVIOUS
  <2>2. /\ s.id = r.id /\ s.src = r.src /\ s.dst = r.dst /\ s.type = r.type
        /\ s.sources = r.sources /\ s.processed = TRUE
    BY <1>1, <1>5, <2>1 DEF RequestType
  <2>. QED  BY <1>5, <2>1, <2>2 DEF Underway
<1>. QED  BY <1>3, <1>4, <1>5

LEMMA DoNextCopyIdleInv ==
    ASSUME IInv, DoNextCopyIdle, UNCHANGED folderVars, rv' = "ok"
    PROVE  IInv' /\ Served!DoNextCopyIdle
<1> DEFINE q == m_copyRequests
<1>1. /\ AtDoNextCopy /\ Beneath \in Seq(LocalFrames) /\ Beneath = Tail(stack)
      /\ ServiceCalls(stack) = <<DoNextCopyCall>>
      /\ Served!Running("DoNextCopy")
  BY AtDoNextCopyFrame DEF DoNextCopyIdle
<1>2. /\ UNCHANGED <<nextId, starts, stopped, verdict, mCopyState, copied, deleted>>
      /\ stack' = Beneath
      /\ m_copyRequests' = MarkUnderway(q, Len(q))
      /\ \A i \in DOMAIN q : ~ Startable(q, i)
  BY <1>1 DEF DoNextCopyIdle, folderVars, Return
<1>3. Waiting(Beneath) /\ NoCopy
  BY <1>1 DEF AtDoNextCopy
<1>4. PICK v : v = "ok"
  OBVIOUS
<1>5. Control'
  BY <1>2, <1>3, <1>4, ReturnsControl
<1>6. ServiceCalls(stack)' = <<>>
  <2>1. stack' # <<>> => AtRest'
    BY <1>2, <1>3 DEF AtRest, Waiting, HoldsDraft
  <2>. QED  BY <1>5, <2>1, CallsAtNext DEF CallsLocated
<1>7. TheCopy' = TheCopy
  BY <1>2 DEF TheCopy
<1>8. Served!DoNextCopyIdle
  <2>1. Served!Return
    BY <1>1, <1>6 DEF Served!Return
  <2>2. /\ \A i \in DOMAIN q : ~ Served!Startable(q, i)
        /\ m_copyRequests' = Served!MarkUnderway(q, Len(q))
    BY <1>2, ServedQueueOps
  <2>. QED  BY <1>1, <1>2, <1>7, <2>1, <2>2 DEF Served!DoNextCopyIdle
<1>9. Served!Next
  BY <1>8 DEF Served!Next, Served!Code
<1>10. q \in Seq(RequestType) /\ DOMAIN m_copyRequests' = DOMAIN q /\ Len(m_copyRequests') = Len(q)
  <2>1. q \in Seq(RequestType)
    BY Known
  <2>2. MarkUnderway(q, Len(q)) \in Seq(RequestType) /\ Len(MarkUnderway(q, Len(q))) = Len(q)
    BY <2>1, MarkUnderwayType
  <2>. QED  BY <1>2, <2>1, <2>2
<1>11. Inherits
  BY <1>10, IdleKeepsRequest DEF Inherits
<1>12. StateOK'
  BY <1>2, <1>3 DEF StateOK, NoCopy
<1>13. JobQueue'
  <2>1. ASSUME NEW i \in DOMAIN q
        PROVE  /\ Asked(m_copyRequests'[i])
               /\ Underway(m_copyRequests'[i]) => i = 1
               /\ ~ Underway(m_copyRequests'[i]) => Fresh(m_copyRequests'[i].id)
               /\ IsDraft(m_copyRequests'[i].src) => Len(q) = 1
    <3>1. PICK r, s : r = q[i] /\ s = m_copyRequests'[i]
      OBVIOUS
    <3>2. /\ s.id = r.id /\ s.src = r.src /\ s.dst = r.dst /\ s.type = r.type
          /\ s.sources = r.sources /\ (Underway(s) <=> Underway(r))
      BY <1>10, <3>1, IdleKeepsRequest
    <3>3. /\ Asked(r) /\ (Underway(r) => i = 1) /\ (~ Underway(r) => Fresh(r.id))
          /\ IsDraft(r.src) => Len(q) = 1
      BY <3>1, Known DEF JobQueue
    <3>4. Asked(s)
      BY <3>2, <3>3 DEF Asked
    <3>. QED  BY <3>1, <3>2, <3>3, <3>4
  <2>. QED  BY <1>2, <1>10, <2>1 DEF JobQueue, Fresh, Asked, Underway, AllSourcesProcessed
<1>14. rv' \in Results /\ nextId' \in {nextId, nextId + 1}
  BY <1>2 DEF Results
<1>. QED  BY <1>5, <1>8, <1>9, <1>11, <1>12, <1>13, <1>14, ServiceKeeps

LEMMA AtNotifyFrame ==
    ASSUME IInv, Running("NotifyCompletion")
    PROVE  /\ AtNotify /\ Beneath \in Seq(LocalFrames) /\ Beneath = Tail(stack)
           /\ Frame \in NotifyFrames /\ Frame = Head(stack)
           /\ ServiceCalls(stack) = <<Frame>>
           /\ Served!Running("NotifyCompletion")
           /\ Head(ServiceCalls(stack)) = Frame /\ Tail(ServiceCalls(stack)) = <<>>
           /\ Served!Hit(Frame) = Hit(Frame) /\ (Served!Clears(Frame) <=> Clears(Frame))
<1>1. stack # <<>> /\ Control
  BY Known DEF Running
<1>2. AtNotify /\ Beneath \in Seq(LocalFrames)
  BY <1>1, Where
<1>3. ServiceCalls(stack) = <<Frame>>
  BY <1>1, <1>2, CallsAt DEF CallsLocated
<1>4. Served!Running("NotifyCompletion")
  BY <1>3 DEF Served!Running, Running, Frame
<1>5. Head(ServiceCalls(stack)) = Frame /\ Tail(ServiceCalls(stack)) = <<>>
  BY <1>3
<1>. QED  BY <1>2, <1>3, <1>4, <1>5, ServedHit DEF Beneath, AtNotify, Frame

LEMMA HitRange ==
    ASSUME m_copyRequests \in Seq(RequestType), NEW f, f.orig \in Nat, Clears(f)
    PROVE  /\ Hit(f) \in 1..Len(m_copyRequests)
           /\ f.orig - 1 \in Nat
<1>1. Hit(f) \in 0..Len(m_copyRequests)
  BY FindRequestRange DEF Hit
<1>2. Hit(f) # 0 /\ Hit(f) <= f.orig
  BY DEF Clears, Considered
<1>3. Len(m_copyRequests) \in Nat
  OBVIOUS
<1>. QED  BY <1>1, <1>2, <1>3

\* A request that is out of the queue leaves the others as they are.
LEMMA RemovedRequests ==
    ASSUME IInv, NEW i \in 1..Len(m_copyRequests),
           m_copyRequests' = RemoveAt(m_copyRequests, i), UNCHANGED <<copied, deleted>>
    PROVE  JobQueue' /\ Inherits /\ Len(m_copyRequests') = Len(m_copyRequests) - 1
           /\ m_copyRequests' \in Seq(RequestType)
<1> DEFINE q == m_copyRequests
<1>1. q \in Seq(RequestType) /\ Len(q) \in Nat
  BY Known
<1>2. /\ m_copyRequests' \in Seq(RequestType) /\ Len(m_copyRequests') = Len(q) - 1
      /\ \A j \in 1..(Len(q) - 1) : m_copyRequests'[j] = IF j < i THEN q[j] ELSE q[j + 1]
  BY <1>1, RemoveAtProperties
<1>3. DOMAIN m_copyRequests' = 1..(Len(q) - 1)
  BY <1>2
<1>4. ASSUME NEW j \in DOMAIN m_copyRequests'
      PROVE  \E k \in DOMAIN q : m_copyRequests'[j] = q[k] /\ (k = 1 => j = 1) /\ Len(q) # 1
  <2>1. j \in 1..(Len(q) - 1) /\ Len(q) # 1
    <3>1. j \in 1..(Len(q) - 1)
      BY <1>3
    <3>2. PICK n \in Nat : n = Len(q)
      BY <1>1
    <3>3. j \in 1..(n - 1)
      BY <3>1, <3>2
    <3>4. n # 1
      BY <3>2, <3>3
    <3>. QED  BY <3>1, <3>2, <3>4
  <2>2. CASE j < i
    <3>1. j \in DOMAIN q
      BY <1>1, <2>1
    <3>. QED  BY <1>2, <2>1, <2>2, <3>1
  <2>3. CASE ~ (j < i)
    <3>1. j + 1 \in DOMAIN q /\ j + 1 # 1
      BY <1>1, <2>1
    <3>. QED  BY <1>2, <2>1, <2>3, <3>1
  <2>. QED  BY <2>2, <2>3
<1>5. Inherits
  BY <1>4 DEF Inherits
<1>6. ASSUME NEW j \in DOMAIN m_copyRequests'
      PROVE  /\ Asked(m_copyRequests'[j])
             /\ Underway(m_copyRequests'[j]) => j = 1
             /\ ~ Underway(m_copyRequests'[j]) => Fresh(m_copyRequests'[j].id)
             /\ ~ IsDraft(m_copyRequests'[j].src)
  <2>1. PICK k \in DOMAIN q : m_copyRequests'[j] = q[k] /\ (k = 1 => j = 1) /\ Len(q) # 1
    BY <1>4
  <2>. QED  BY <2>1, Known DEF JobQueue
<1>7. JobQueue'
  BY <1>6 DEF JobQueue, Fresh, Asked, Underway, AllSourcesProcessed
<1>. QED  BY <1>2, <1>5, <1>7

LEMMA NotifyClearsInv ==
    ASSUME IInv, NotifyClears, UNCHANGED folderVars, rv' \in Results
    PROVE  IInv' /\ Served!NotifyClears
<1>1. /\ AtNotify /\ Beneath \in Seq(LocalFrames) /\ Beneath = Tail(stack)
      /\ Frame \in NotifyFrames /\ Frame = Head(stack)
      /\ ServiceCalls(stack) = <<Frame>>
      /\ Served!Running("NotifyCompletion")
      /\ Head(ServiceCalls(stack)) = Frame /\ Tail(ServiceCalls(stack)) = <<>>
      /\ Served!Hit(Frame) = Hit(Frame) /\ (Served!Clears(Frame) <=> Clears(Frame))
  BY AtNotifyFrame DEF NotifyClears
<1>2. PICK f \in NotifyFrames, rest \in Seq(LocalFrames) : f = Frame /\ rest = Beneath
  BY <1>1
<1>3. /\ Clears(f) /\ Waiting(rest) /\ NoCopy /\ f.orig \in Nat
      /\ HoldsDraft(rest) => QueueEmpty \/ Told(f)
  BY <1>1, <1>2 DEF NotifyClears, AtNotify, NotifyFrames
<1>4. PICK i \in 1..Len(m_copyRequests) : i = Hit(f) /\ f.orig - 1 \in Nat
  BY <1>3, Known, HitRange
<1>5. PICK r : r = m_copyRequests[i]
  OBVIOUS
<1>6. r.id \in Ids /\ m_copyRequests \in Seq(RequestType)
  BY <1>4, <1>5, QueueIds, Known
<1>7. PICK g, c : g = [f EXCEPT !.orig = @ - 1] /\ c = OnStopCopyCall(r.id)
  OBVIOUS
<1>8. g \in NotifyFrames /\ c \in {OnStopCopyCall(id) : id \in Ids}
      /\ g \in LocalFrames /\ c \in LocalFrames
  BY <1>2, <1>4, <1>6, <1>7 DEF NotifyFrames, LocalFrames
<1>9. /\ stack' = Cons(c, Cons(g, rest))
      /\ m_copyRequests' = RemoveAt(m_copyRequests, i)
      /\ stopped' = [stopped EXCEPT ![r.id] = f.rv]
      /\ UNCHANGED <<nextId, starts, verdict, mCopyState, copied, deleted>>
  BY <1>1, <1>2, <1>4, <1>5, <1>7 DEF NotifyClears, ClearRequest, folderVars
<1>10. PICK s : /\ s = Cons(g, rest) /\ s \in Seq(LocalFrames) /\ s # <<>>
                /\ Head(s) = g /\ Tail(s) = rest
  BY <1>8, ConsProperties
<1>11. stack' \in Seq(LocalFrames) /\ stack' # <<>> /\ Frame' = c /\ Beneath' = s
  BY <1>8, <1>9, <1>10, PushedFrame
<1>12. /\ JobQueue' /\ Inherits /\ Len(m_copyRequests') = Len(m_copyRequests) - 1
       /\ m_copyRequests' \in Seq(RequestType)
  BY <1>9, RemovedRequests
<1>13. HoldsDraft(rest) => QueueEmpty'
  <2>1. Told(f) => Len(m_copyRequests') = 0
    BY <1>12 DEF Told
  <2>2. Len(m_copyRequests) # 0
    BY <1>4
  <2>3. ~ QueueEmpty
    BY <2>2, EmptySeq DEF QueueEmpty
  <2>4. Len(m_copyRequests') = 0 => m_copyRequests' = <<>>
    BY <1>12
  <2>. QED  BY <1>3, <2>1, <2>3, <2>4 DEF QueueEmpty
<1>14. AtOnStopCopy'
  BY <1>3, <1>8, <1>9, <1>10, <1>11, <1>13 DEF AtOnStopCopy, NoCopy, Waiting, HoldsDraft
<1>15. Control'
  BY <1>11, <1>14 DEF Control
<1>16. ServiceCalls(stack)' = <<c, g>>
  BY <1>10, <1>11, <1>14, <1>15, CallsAtNext DEF CallsLocated
<1>17. TheCopy' = TheCopy
  BY <1>9 DEF TheCopy
<1>18. Served!NotifyClears
  <2>1. Served!OnStopCopyCall(r.id) = c
    BY <1>7, ServedCalls
  <2>2. ServiceCalls(stack)' = Served!Cons(c, Served!Cons(g, <<>>))
    <3>1. Cons(c, Cons(g, <<>>)) = <<c, g>>
      <4>1. <<g>> \o <<>> = <<g>>
        BY <1>8, ConcatEmptySeq
      <4>2. <<c>> \in Seq(LocalFrames) /\ <<g>> \in Seq(LocalFrames)
        BY <1>8
      <4>3. PICK cg : cg = <<c>> \o <<g>>
        OBVIOUS
      <4>4. cg \in Seq(LocalFrames) /\ Len(cg) = 2 /\ cg[1] = c /\ cg[2] = g
        <5>1. /\ cg \in Seq(LocalFrames) /\ Len(cg) = Len(<<c>>) + Len(<<g>>)
              /\ \A k \in 1..(Len(<<c>>) + Len(<<g>>)) :
                    cg[k] = IF k <= Len(<<c>>) THEN <<c>>[k] ELSE <<g>>[k - Len(<<c>>)]
          BY <4>2, <4>3, ConcatProperties, Zenon
        <5>2. Len(<<c>>) = 1 /\ Len(<<g>>) = 1 /\ <<c>>[1] = c /\ <<g>>[1] = g
          OBVIOUS
        <5>. QED  BY <5>1, <5>2
      <4>5. /\ <<c, g>> \in Seq(LocalFrames) /\ Len(<<c, g>>) = 2
            /\ <<c, g>>[1] = c /\ <<c, g>>[2] = g
        BY <1>8
      <4>6. \A k \in 1..2 : cg[k] = <<c, g>>[k]
        <5>1. \A k \in 1..2 : k = 1 \/ k = 2
          OBVIOUS
        <5>. QED  BY <4>4, <4>5, <5>1, Zenon
      <4>7. cg = <<c, g>>
        BY <4>4, <4>5, <4>6, SeqEqual
      <4>. QED  BY <4>1, <4>3, <4>7 DEF Cons
    <3>. QED  BY <1>16, <3>1, ServedSequences
  <2>3. Served!ClearRequest(i, f.rv)
    BY <1>5, <1>9, ServedSequences DEF Served!ClearRequest
  <2>4. /\ Head(ServiceCalls(stack)) = f /\ Tail(ServiceCalls(stack)) = <<>>
        /\ Served!Hit(f) = i /\ Served!Clears(f)
    BY <1>1, <1>2, <1>3, <1>4
  <2>. QED  BY <1>1, <1>5, <1>7, <1>9, <1>17, <2>1, <2>2, <2>3, <2>4 DEF Served!NotifyClears
<1>19. Served!Next
  BY <1>18 DEF Served!Next, Served!Code
<1>20. StateOK'
  BY <1>3, <1>9 DEF StateOK, NoCopy
<1>21. nextId' \in {nextId, nextId + 1}
  BY <1>9
<1>. QED  BY <1>12, <1>15, <1>18, <1>19, <1>20, <1>21, ServiceKeeps

LEMMA NotifyEndsInv ==
    ASSUME IInv, NotifyEnds, UNCHANGED folderVars, rv' \in Results
    PROVE  IInv' /\ Served!NotifyEnds
<1>1. /\ AtNotify /\ Beneath \in Seq(LocalFrames) /\ Beneath = Tail(stack)
      /\ Frame \in NotifyFrames /\ Frame = Head(stack)
      /\ ServiceCalls(stack) = <<Frame>>
      /\ Served!Running("NotifyCompletion")
      /\ Head(ServiceCalls(stack)) = Frame /\ Tail(ServiceCalls(stack)) = <<>>
      /\ Served!Hit(Frame) = Hit(Frame) /\ (Served!Clears(Frame) <=> Clears(Frame))
  BY AtNotifyFrame DEF NotifyEnds
<1>2. PICK f \in NotifyFrames, rest \in Seq(LocalFrames) : f = Frame /\ rest = Beneath
  BY <1>1
<1>3. /\ ~ Clears(f) /\ Waiting(rest) /\ NoCopy /\ f.orig \in Nat
      /\ HoldsDraft(rest) => QueueEmpty \/ Told(f)
  BY <1>1, <1>2 DEF NotifyEnds, AtNotify, NotifyFrames
<1>4. ~ Told(f)
  <2> SUFFICES ASSUME Told(f) PROVE FALSE
    OBVIOUS
  <2>1. /\ Len(m_copyRequests) = 1 /\ f.orig >= 1 /\ m_copyRequests[1].processed
        /\ m_copyRequests[1].src = f.src /\ m_copyRequests[1].dst = f.dst
    BY DEF Told, Oldest
  <2>2. {k \in DOMAIN m_copyRequests : Matches(m_copyRequests[k], f.src, f.dst)} = {1}
    <3>1. DOMAIN m_copyRequests = {1}
      BY <2>1, Known
    <3>2. Matches(m_copyRequests[1], f.src, f.dst)
      BY <2>1 DEF Matches
    <3>. QED  BY <3>1, <3>2
  <2>3. Min({1}) = 1
    BY MinNat
  <2>4. Hit(f) = 1
    BY <2>2, <2>3 DEF Hit, FindRequest
  <2>. QED  BY <1>3, <2>1, <2>4 DEF Clears, Considered
<1>5. /\ stack' = Cons(DoNextCopyCall, rest)
      /\ UNCHANGED <<m_copyRequests, nextId, starts, stopped, verdict, mCopyState, copied, deleted>>
  BY <1>1, <1>2 DEF NotifyEnds, ReturnAndCall, folderVars
<1>6. stack' \in Seq(LocalFrames) /\ stack' # <<>> /\ Frame' = DoNextCopyCall /\ Beneath' = rest
  <2>1. PICK d \in LocalFrames : d = DoNextCopyCall
    BY DEF LocalFrames
  <2>. QED  BY <1>5, <2>1, PushedFrame
<1>7. AtDoNextCopy'
  BY <1>3, <1>4, <1>5, <1>6 DEF AtDoNextCopy, NoCopy, QueueEmpty, Waiting, HoldsDraft,
        DoNextCopyCall
<1>8. Control'
  BY <1>6, <1>7 DEF Control
<1>9. ServiceCalls(stack)' = <<DoNextCopyCall>>
  BY <1>6, <1>7, <1>8, CallsAtNext DEF CallsLocated
<1>10. TheCopy' = TheCopy
  BY <1>5 DEF TheCopy
<1>11. Served!NotifyEnds
  <2>1. Served!DoNextCopyCall = DoNextCopyCall
    BY ServedCalls
  <2>2. Cons(DoNextCopyCall, <<>>) = <<DoNextCopyCall>>
    BY DEF Cons
  <2>3. Served!ReturnAndCall(DoNextCopyCall)
    BY <1>1, <1>9, <2>2, ServedSequences DEF Served!ReturnAndCall
  <2>4. ~ Served!Clears(Head(ServiceCalls(stack)))
    BY <1>1, <1>2, <1>3
  <2>. QED  BY <1>1, <1>5, <1>10, <2>1, <2>3, <2>4 DEF Served!NotifyEnds
<1>12. Served!Next
  BY <1>11 DEF Served!Next, Served!Code
<1>13. StateOK'
  BY <1>3, <1>5 DEF StateOK, NoCopy
<1>14. JobQueue' /\ Inherits /\ nextId' \in {nextId, nextId + 1}
  BY <1>5, Known DEF JobQueue, Inherits, Fresh, Asked, Underway, AllSourcesProcessed
<1>. QED  BY <1>8, <1>11, <1>12, <1>13, <1>14, ServiceKeeps

\* A client's request joins the queue: it is not under way, and nothing of it has
\* been copied.
LEMMA NewRequestWaits ==
    ASSUME NEW o \in Offers, NEW id \in Ids
    PROVE  LET r == NewRequest(id, o)
           IN  /\ r \in RequestType /\ r.id = id /\ r.src = o.src /\ r.dst = o.dst
               /\ Asked(r) /\ ~ Underway(r)
<1> DEFINE sources == [k \in DOMAIN o.from |->
                         [folder |-> o.from[k], processed |-> o.from[k] = o.dst]]
<1>1. PICK r : r = NewRequest(id, o)
  OBVIOUS
<1>2. /\ r.id = id /\ r.type = o.type /\ r.src = o.src /\ r.dst = o.dst
      /\ r.sources = sources /\ r.processed = FALSE
  BY <1>1 DEF NewRequest
<1>3. r \in RequestType
  BY <1>1, OfferTypes
<1>4. OfferType(o) /\ o.type # "folder" /\ (o.type = "messages" => o.from = <<o.src>>)
      /\ (o.type = "file" => \A k \in DOMAIN o.from : o.from[k] # o.dst)
  BY CopyAssumption, LocalAssumption
<1>5. o.from \in Seq(Srcs) /\ o.type \in {"messages", "file"}
      /\ (o.type = "messages" => o.src # o.dst)
  BY <1>4 DEF OfferType, Types
<1>6. \A k \in DOMAIN o.from : o.from[k] # o.dst
  <2>1. CASE o.type = "messages"
    BY <1>4, <1>5, <2>1
  <2>2. CASE o.type = "file"
    BY <1>4, <2>2
  <2>. QED  BY <1>5, <2>1, <2>2
<1>7. DOMAIN sources = DOMAIN o.from /\ \A k \in DOMAIN o.from :
         sources[k].folder = o.from[k] /\ sources[k].processed = (o.from[k] = o.dst)
  OBVIOUS
<1> HIDE DEF sources
<1>8. sources \in Seq(SourceType)
  BY <1>2, <1>3 DEF RequestType
<1>9. sources # <<>> => ~ AllSourcesProcessed(r)
  <2> SUFFICES ASSUME sources # <<>>, AllSourcesProcessed(r) PROVE FALSE
    OBVIOUS
  <2>1. 1 \in DOMAIN sources
    BY <1>8
  <2>. QED  BY <1>2, <1>6, <1>7, <2>1 DEF AllSourcesProcessed
<1>10. ~ Underway(r)
  BY <1>2, <1>9 DEF Underway
<1>11. ASSUME r.type = "messages"
       PROVE  Len(r.sources) = 1 /\ r.sources[1].folder = r.src
  <2>1. o.from = <<o.src>>
    BY <1>2, <1>4, <1>11
  <2>2. DOMAIN o.from = 1..1 /\ o.from[1] = o.src
    BY <2>1
  <2>3. Len(sources) = 1
    BY <1>7, <1>8, <2>2
  <2>. QED  BY <1>2, <1>7, <2>2, <2>3
<1>12. Asked(r)
  BY <1>2, <1>11 DEF Asked
<1>. QED  BY <1>1, <1>2, <1>3, <1>10, <1>12

\* There being one folder, a request waits behind any other.
LEMMA AllClash ==
    ASSUME IInv, NEW o \in Offers, NEW i \in DOMAIN m_copyRequests
    PROVE  Clashes(o, m_copyRequests[i])
<1>1. m_copyRequests[i].dst \in Dsts
  BY Known, AskedFor DEF JobQueue
<1>2. o.dst \in Dsts /\ o.type # "folder"
  BY LocalAssumption DEF Dsts
<1>. QED  BY <1>1, <1>2, TheFolder DEF Clashes

LEMMA ClientAsksInv ==
    ASSUME QuietDrafts, IInv, NEW o \in Offers, ClientAsks(o)
    PROVE  IInv' /\ Served!ClientCopies(o)
<1> DEFINE q == m_copyRequests
<1>1. /\ EventLoop /\ DoCopy(o)
      /\ UNCHANGED <<rv, mCopyState, streams, locked, m_stopped, unfinished, copied, deleted>>
      /\ UNCHANGED folderVars
  BY DEF ClientAsks, ClientCopies, folderVars
<1>2. \A x \in ToSet(q) \cup {o} : Job[x.src].source = "file" /\ Job[x.src].move => q = <<>>
  BY DEF ClientAsks
<1>3. PICK id \in Ids : id = nextId
  BY <1>1 DEF DoCopy
<1>4. PICK r : r = NewRequest(id, o)
  OBVIOUS
<1>5. /\ r \in RequestType /\ r.id = id /\ r.src = o.src /\ r.dst = o.dst
      /\ Asked(r) /\ ~ Underway(r)
  BY <1>4, NewRequestWaits
<1>6. /\ m_copyRequests' = Append(q, r) /\ nextId' = nextId + 1
      /\ UNCHANGED <<starts, stopped, verdict>>
      /\ IF \E i \in DOMAIN q : Clashes(o, q[i]) THEN UNCHANGED stack ELSE Call(DoNextCopyCall)
  BY <1>1, <1>3, <1>4 DEF DoCopy
<1>7. /\ q \in Seq(RequestType) /\ Len(q) \in Nat /\ DOMAIN q = 1..Len(q)
      /\ DOMAIN m_copyRequests' = 1..(Len(q) + 1) /\ Len(m_copyRequests') = Len(q) + 1
      /\ \A i \in DOMAIN q : m_copyRequests'[i] = q[i]
      /\ m_copyRequests'[Len(q) + 1] = r
  <2>1. q \in Seq(RequestType)
    BY Known
  <2>. QED  BY <1>5, <1>6, <2>1
<1>8. /\ Fresh(id)
      /\ id \notin deleted
  <2>1. id >= nextId
    BY <1>3 DEF Ids
  <2>. QED  BY <1>3, <2>1, Known DEF Files, Fresh
<1>9. ASSUME NEW i \in DOMAIN q PROVE q[i] \in ToSet(q)
  BY DEF ToSet
<1>10. JobQueue'
  <2>1. ASSUME NEW i \in DOMAIN q
        PROVE  /\ Asked(q[i]) /\ (Underway(q[i]) => i = 1)
               /\ ~ Underway(q[i]) => Fresh(q[i].id)
               /\ ~ IsDraft(q[i].src)
    <3>1. q # <<>>
      BY <1>7
    <3>2. ~ IsDraft(q[i].src)
      BY <1>2, <1>9, <3>1 DEF IsDraft
    <3>. QED  BY <3>2, Known DEF JobQueue
  <2>2. IsDraft(r.src) => Len(q) = 0
    <3>1. IsDraft(o.src) => q = <<>>
      BY <1>2 DEF IsDraft
    <3>. QED  BY <1>5, <3>1, EmptySeq
  <2>3. ASSUME NEW i \in DOMAIN m_copyRequests'
        PROVE  /\ Asked(m_copyRequests'[i])
               /\ Underway(m_copyRequests'[i]) => i = 1
               /\ ~ Underway(m_copyRequests'[i]) => Fresh(m_copyRequests'[i].id)
               /\ IsDraft(m_copyRequests'[i].src) => Len(m_copyRequests') = 1
    <3>1. i \in DOMAIN q \/ i = Len(q) + 1
      BY <1>7
    <3>2. CASE i \in DOMAIN q
      BY <1>7, <2>1, <3>2
    <3>3. CASE i = Len(q) + 1
      BY <1>5, <1>7, <1>8, <2>2, <3>3
    <3>. QED  BY <3>1, <3>2, <3>3
  <2>. QED  BY <1>1, <2>3 DEF JobQueue, Fresh, Asked, Underway, AllSourcesProcessed
<1>11. Inherits
  <2>1. ASSUME NEW i \in DOMAIN m_copyRequests'
        PROVE  \/ \E j \in DOMAIN q : q[j].id = m_copyRequests'[i].id
                                      /\ q[j].src = m_copyRequests'[i].src
               \/ m_copyRequests'[i].id \notin deleted
    <3>1. i \in DOMAIN q \/ i = Len(q) + 1
      BY <1>7
    <3>. QED  BY <1>5, <1>7, <1>8, <3>1
  <2>. QED  BY <2>1 DEF Inherits
<1>12. ~ QueueEmpty => ~ QueueEmpty' /\ Oldest' = Oldest
  <2>1. ~ QueueEmpty => 1 \in DOMAIN q
    BY QueueIds
  <2>2. ~ QueueEmpty'
    BY <1>6, <1>7, EmptySeq DEF QueueEmpty
  <2>. QED  BY <1>7, <2>1, <2>2 DEF Oldest
<1>13. StateOK'
  BY <1>1, <1>12, Known DEF StateOK, NoCopy, Underway, AllSourcesProcessed
<1>14. TheCopy' = TheCopy
  BY <1>1 DEF TheCopy
<1>15. UNCHANGED nextId \/ nextId' = nextId + 1
  BY <1>6
<1>16. ASSUME Control', ServiceCalls(stack)' = IF QueueEmpty THEN <<DoNextCopyCall>>
                                                             ELSE ServiceCalls(stack),
              QueueEmpty => ServiceCalls(stack) = <<>>,
              Served!EventLoop
       PROVE  IInv' /\ Served!ClientCopies(o)
  <2>1. (\E i \in DOMAIN q : Clashes(o, q[i])) <=> ~ QueueEmpty
    BY <1>7, AllClash, QueueIds, EmptySeq DEF QueueEmpty
  <2>2. Served!NewRequest(nextId, o) = r
    BY <1>3, <1>4, ServedQueueOps
  <2>3. Cons(DoNextCopyCall, <<>>) = <<DoNextCopyCall>>
    BY DEF Cons
  <2>4. IF \E i \in DOMAIN q : Served!Clashes(o, q[i])
          THEN ServiceCalls(stack)' = ServiceCalls(stack)
          ELSE Served!Call(Served!DoNextCopyCall)
    BY <1>16, <2>1, <2>3, ServedQueueOps, ServedCalls, ServedSequences DEF Served!Call
  <2>5. nextId \in Served!Ids /\ (UniquePairs => \A i \in DOMAIN q : q[i].src # o.src \/ q[i].dst # o.dst)
    BY <1>1, ServedSets DEF DoCopy
  <2>6. Served!DoCopy(o)
    BY <1>6, <1>14, <2>2, <2>4, <2>5 DEF Served!DoCopy
  <2>7. Served!ClientCopies(o)
    BY <1>16, <2>6 DEF Served!ClientCopies
  <2>8. Served!Next
    BY <2>7 DEF Served!Next
  <2>9. rv' \in Results
    BY <1>1, Known DEF Flags
  <2>. QED  BY <1>1, <1>6, <1>10, <1>11, <1>13, <1>16, <2>7, <2>8, <2>9, ServiceKeeps
<1>17. CASE stack = <<>>
  <2>1. ServiceCalls(stack) = <<>>
    BY <1>17, Known, CallsAt DEF CallsLocated
  <2>2. Served!EventLoop
    BY <2>1 DEF Served!EventLoop
  <2>3. CASE ~ QueueEmpty
    <3>1. stack' = stack
      BY <1>6, <2>3, AllClash, QueueIds
    <3>2. Control'
      BY <1>17, <3>1, EmptySeq DEF Control
    <3>3. ServiceCalls(stack)' = ServiceCalls(stack)
      BY <3>1
    <3>. QED  BY <1>16, <2>2, <2>3, <3>2, <3>3
  <2>4. CASE QueueEmpty
    <3>1. DOMAIN q = {}
      BY <1>7, <2>4, EmptySeq DEF QueueEmpty
    <3>2. PICK d \in LocalFrames, rest \in Seq(LocalFrames) : d = DoNextCopyCall /\ rest = <<>>
      BY EmptySeq DEF LocalFrames
    <3>3. stack' = Cons(d, rest)
      BY <1>6, <1>17, <3>1, <3>2 DEF Call
    <3>4. stack' \in Seq(LocalFrames) /\ stack' # <<>> /\ Frame' = d /\ Beneath' = rest
      BY <3>3, PushedFrame
    <3>5. Waiting(<<>>) /\ ~ HoldsDraft(<<>>)
      BY EmptyReturns, ReturnsWait
    <3>6. NoCopy'
      BY <1>1, <2>4, Known DEF StateOK, NoCopy
    <3>7. AtDoNextCopy'
      BY <3>2, <3>4, <3>5, <3>6 DEF AtDoNextCopy, HoldsDraft, Waiting, DoNextCopyCall
    <3>8. Control'
      BY <3>4, <3>7 DEF Control
    <3>9. ServiceCalls(stack)' = <<DoNextCopyCall>>
      BY <3>2, <3>4, <3>7, <3>8, CallsAtNext DEF CallsLocated
    <3>. QED  BY <1>16, <2>1, <2>2, <2>4, <3>8, <3>9
  <2>. QED  BY <2>3, <2>4
<1>18. CASE Dialogs /\ Running("Copy")
  <2>1. /\ NoCopy /\ Taken(Frame) /\ ~ QueueEmpty
    BY <1>18, AtCopyFrame DEF Taken
  <2>2. stack' = stack /\ stack # <<>> /\ Control
    BY <1>6, <1>18, <2>1, AllClash, QueueIds, Known DEF Running
  <2>3. AtCopy
    BY <1>18, <2>2, Where
  <2>4. AtCopy'
    <3>1. Frame' = Frame /\ Beneath' = Beneath
      BY <2>2 DEF Frame, Beneath
    <3>2. PICK f : f = Frame
      OBVIOUS
    <3>3. Taken(f)'
      BY <1>1, <1>12, <2>1, <3>2 DEF Taken, Fresh
    <3>. QED  BY <1>1, <2>3, <3>1, <3>2, <3>3 DEF AtCopy, NoCopy, Taken
  <2>5. Control'
    BY <2>2, <2>4 DEF Control
  <2>6. ServiceCalls(stack)' = ServiceCalls(stack)
    BY <2>2
  <2>7. ServiceCalls(stack) = <<Frame>>
    BY <2>2, <2>3, CallsAt DEF CallsLocated
  <2>8. Served!EventLoop
    BY <1>18, <2>7 DEF Served!EventLoop, Served!Running, Running, Frame
  <2>. QED  BY <1>16, <2>1, <2>5, <2>6, <2>8
<1>. QED  BY <1>1, <1>17, <1>18 DEF EventLoop

-----------------------------------------------------------------------------
(* The invariant.                                                          *)

LEMMA InitInv == LocalInit => IInv
<1> SUFFICES ASSUME LocalInit PROVE IInv
  OBVIOUS
<1>1. /\ Init /\ NoCopy /\ streams = {} /\ rv = "ok" /\ locked = FALSE /\ m_stopped = FALSE
      /\ unfinished = 0 /\ copied = [id \in Ids |-> <<>>] /\ deleted = {}
  BY DEF LocalInit, NoCopy
<1>2. m_copyRequests = <<>> /\ stack = <<>>
  BY <1>1 DEF Init
<1>3. ServiceTypes /\ QueueInv
  BY <1>1, TypeInit, QueueInvInit DEF TypeOK, ServiceTypes
<1>4. Control /\ StateOK /\ Streams /\ Flags
  BY <1>1, <1>2, EmptySeq DEF Control, StateOK, Streams, Flags, Results
<1>5. JobQueue
  BY <1>2 DEF JobQueue
<1>6. Files
  <2>1. <<>> \in Seq(CopiedType)
    BY EmptySeq
  <2>. QED  BY <1>1, <2>1 DEF Files, Fresh
<1>7. InStep /\ DeletedOnlyIfCopied
  <2>1. DOMAIN <<>> = {}
    BY EmptySeq
  <2>. QED  BY <1>1, <2>1 DEF InStep, DeletedOnlyIfCopied
<1>8. Served!TypeOK
  BY <1>3, <1>4, TypesServed
<1>9. Served!QueueInv
  BY <1>3 DEF QueueInv, QueueInOrder, StoppedIffGone, Untouched, Accepted, Queued, Ids,
         Served!QueueInv, Served!QueueInOrder, Served!StoppedIffGone,
         Served!Untouched, Served!Accepted, Served!Queued, Served!Ids
<1>. QED  BY <1>4, <1>5, <1>6, <1>7, <1>8, <1>9 DEF IInv

LEMMA StutterInv ==
    ASSUME IInv, UNCHANGED localVars
    PROVE  IInv'
<1>1. UNCHANGED <<serviceVars, folderVars, verdict, stack, rv>>
  BY DEF localVars, serviceVars, folderVars
<1>2. /\ stack' = stack /\ rv' = rv /\ mCopyState' = mCopyState /\ streams' = streams
      /\ m_copyRequests' = m_copyRequests /\ copied' = copied /\ deleted' = deleted
      /\ unfinished' = unfinished
  BY <1>1 DEF serviceVars, folderVars
<1>3. Frame' = Frame /\ Beneath' = Beneath /\ (NoCopy' <=> NoCopy)
  BY <1>2 DEF Frame, Beneath, NoCopy
<1>4. /\ AtRest' <=> AtRest
      /\ AtDoNextCopy' <=> AtDoNextCopy
      /\ AtCopy' <=> AtCopy
      /\ AtNotify' <=> AtNotify
      /\ AtOnStopCopy' <=> AtOnStopCopy
  <2>1. /\ AtRest' <=> AtRest
        /\ AtDoNextCopy' <=> AtDoNextCopy
    BY <1>2, <1>3 DEF AtRest, AtDoNextCopy, QueueEmpty, Waiting, HoldsDraft
  <2>2. AtCopy' <=> AtCopy
    BY <1>2, <1>3 DEF AtCopy, Taken, QueueEmpty, Oldest, Fresh, Underway, AllSourcesProcessed
  <2>3. /\ AtNotify' <=> AtNotify
        /\ AtOnStopCopy' <=> AtOnStopCopy
    BY <1>2, <1>3 DEF AtNotify, AtOnStopCopy, QueueEmpty, Oldest, Told, Waiting, HoldsDraft
  <2>. QED  BY <2>1, <2>2, <2>3
<1>5. /\ AtEndCopy' <=> AtEndCopy
      /\ AtEndMove' <=> AtEndMove
      /\ AtNextMessage' <=> AtNextMessage
  BY <1>2, <1>3 DEF AtEndCopy, AtEndMove, AtNextMessage, Moves, GoesOn, Read, ReadToEnd
<1>6. Control'
  BY <1>2, <1>4, <1>5, Known DEF Control
<1>7. rv' \in Results
  BY <1>2, Known DEF Flags
<1>. QED  BY <1>1, <1>6, <1>7, ReturnKeeps

LEMMA ServiceStepsInv ==
    ASSUME IInv, ServiceSteps
    PROVE  IInv' /\ Served!Code
<1>1. UNCHANGED folderVars /\ Code /\ rv' = IF DoNextCopyIdle THEN "ok" ELSE rv
  BY DEF ServiceSteps
<1>2. rv' \in Results
  BY <1>1, Known DEF Flags, Results
<1>3. CASE ListenerReturns
  BY <1>1, <1>2, <1>3, ListenerReturnsServed, ListenerReturnsInv DEF Served!Code
<1>4. CASE DoNextCopyStarts
  BY <1>1, <1>2, <1>4, DoNextCopyStartsServed, DoNextCopyStartsInv DEF Served!Code
<1>5. CASE DoNextCopyIdle
  BY <1>1, <1>5, DoNextCopyIdleInv DEF Served!Code
<1>6. CASE NotifyClears
  BY <1>1, <1>2, <1>6, NotifyClearsInv DEF Served!Code
<1>7. CASE NotifyEnds
  BY <1>1, <1>2, <1>7, NotifyEndsInv DEF Served!Code
<1>. QED  BY <1>1, <1>3, <1>4, <1>5, <1>6, <1>7 DEF Code

LEMMA InvNext == QuietDrafts /\ IInv /\ [LocalNext]_localVars => IInv'
<1> SUFFICES ASSUME QuietDrafts, IInv, [LocalNext]_localVars PROVE IInv'
  OBVIOUS
<1>1. ASSUME NEW o \in Offers, ClientAsks(o) PROVE IInv'
  BY <1>1, ClientAsksInv
<1>2. CASE ServiceSteps
  BY <1>2, ServiceStepsInv
<1>3. CASE FolderSteps
  <2>1. CASE CopyMessagesRefused \/ CopyBusy \/ CopyMessagesStarts
    BY <2>1, RefusedInv, BusyInv, StartsInv
  <2>2. CASE CopyFileMessage \/ CopyFileMessageReports \/ ReturnsWith
    BY <2>2, FileInv, ReportsInv, ReturnsWithInv
  <2>3. CASE EndCopyFails \/ EndCopySucceeds
    BY <2>3, EndCopyFailsInv, EndCopySucceedsInv
  <2>4. CASE EndMoveFails \/ EndMoveSucceeds
    BY <2>4, EndMoveFailsInv, EndMoveSucceedsInv
  <2>5. CASE NextMessage
    BY <2>5, NextMessageInv
  <2>. QED  BY <1>3, <2>1, <2>2, <2>3, <2>4, <2>5 DEF FolderSteps
<1>4. CASE StreamSteps
  <2>1. PICK s \in streams : BeginCopy(s) \/ CopyData(s) \/ StreamStops(s)
    BY <1>4 DEF StreamSteps
  <2>. QED  BY <2>1, BeginInv, DataInv, StreamStopsInv
<1>5. CASE UserStops
  BY <1>5, StopInv
<1>6. CASE OthersLock
  BY <1>6, LockInv
<1>7. CASE UNCHANGED localVars
  BY <1>7, StutterInv
<1>. QED  BY <1>1, <1>2, <1>3, <1>4, <1>5, <1>6, <1>7 DEF LocalNext

LEMMA InvAlways ==
    ASSUME QuietDrafts
    PROVE  LocalSpec => []IInv
<1>1. IInv /\ [LocalNext]_localVars => IInv'
  BY InvNext
<1>. QED  BY InitInv, <1>1, PTL DEF LocalSpec

-----------------------------------------------------------------------------
(* What follows for the folder and for the messages.                       *)

\* The folder's variables keep their types, and m_curCopyIndex never passes the
\* number of messages, in whatever order EndCopy, CopyNextStreamMessage and
\* StartMessage move it.
THEOREM FolderTypeCorrect ==
    ASSUME QuietDrafts
    PROVE  LocalSpec => []LocalTypeOK
<1>1. IInv => LocalTypeOK
  <2> SUFFICES ASSUME IInv PROVE LocalTypeOK
    OBVIOUS
  <2>1. mCopyState # NoState => mCopyState \in StateType /\ mCopyState.cur <= mCopyState.total
    BY Known DEF StateOK, NoCopy
  <2>2. ASSUME NEW s \in streams
        PROVE  /\ DOMAIN s = {"id", "src", "n", "at", "ok"}
               /\ s.id \in Ids /\ s.src \in Srcs /\ s.n \in 1..Job[s.src].total
               /\ s.at \in {"begin", "data", "stop"} /\ s.ok \in BOOLEAN
    <3>1. ~ NoCopy /\ StreamOK(s)
      BY Known DEF Streams
    <3>2. /\ s \in StreamType /\ s.src = mCopyState.src
          /\ s.n = Len(copied[mCopyState.id]) + 1 /\ s.n <= mCopyState.total
          /\ s.id = mCopyState.id
      BY <3>1 DEF StreamOK
    <3>3. mCopyState.total = Job[mCopyState.src].total /\ mCopyState \in StateType
      BY <3>1, Known DEF StateOK
    <3>4. mCopyState.id \in Ids /\ mCopyState.total \in Nat
      BY <3>3 DEF StateType
    <3>5. copied[mCopyState.id] \in Seq(CopiedType)
      BY <3>4, Known DEF Files
    <3>6. Len(copied[mCopyState.id]) \in Nat
      BY <3>5
    <3>7. s.n \in 1..Job[s.src].total
      BY <3>2, <3>3, <3>4, <3>6
    <3>. QED  BY <3>2, <3>7 DEF StreamType
  <2>3. rv \in Results /\ locked \in BOOLEAN /\ m_stopped \in BOOLEAN
    BY Known DEF Flags
  <2>4. unfinished \in Nat /\ deleted \subseteq Ids /\ DOMAIN copied = Ids
    BY Known DEF Files
  <2>. QED  BY <2>1, <2>2, <2>3, <2>4 DEF LocalTypeOK
<1>. QED  BY <1>1, InvAlways, PTL

\* Whatever is started, fails, is stopped or is refused, a stream that runs finds
\* in mCopyState the copy it was started for (OnStartRequest, OnDataAvailable and
\* OnStopRequest use it without a look at whose it is).
THEOREM StreamsOwnTheState ==
    ASSUME QuietDrafts
    PROVE  LocalSpec => []OwnState
<1>1. IInv => OwnState
  BY Known DEF Streams, StreamOK, NoCopy, OwnState
<1>. QED  BY <1>1, InvAlways, PTL

\* m_curCopyIndex, the url's own count of messages and the messages finished so
\* far stay in step: each message gets its own header, once and in order.
THEOREM MessagesInStep ==
    ASSUME QuietDrafts
    PROVE  LocalSpec => []InStep
<1>1. IInv => InStep
  BY DEF IInv
<1>. QED  BY <1>1, InvAlways, PTL

\* EndMove deletes the messages in the source only when every one of them is in
\* the folder.
THEOREM NothingLostInAMove ==
    ASSUME QuietDrafts
    PROVE  LocalSpec => []DeletedOnlyIfCopied
<1>1. IInv => DeletedOnlyIfCopied
  BY DEF IInv
<1>. QED  BY <1>1, InvAlways, PTL

\* Between copies no half of a second or later message is left at the end of the
\* file: DiscardNewMessage knows its key by then and truncates the file.
THEOREM LaterMessagesTruncated ==
    ASSUME QuietDrafts
    PROVE  LocalSpec => []LaterTruncated
<1>1. IInv => LaterTruncated
  BY Known DEF LaterTruncated, FolderIdle, NoCopy
<1>. QED  BY <1>1, InvAlways, PTL

-----------------------------------------------------------------------------
(* The folder keeps the contract of CopyService: its steps are those of a  *)
(* folder there, or change nothing the service sees.                       *)

\* What the service sees of the copy is whose it is.
LEMMA SameCopy ==
    ASSUME ~ NoCopy, ~ NoCopy', mCopyState'.id = mCopyState.id, mCopyState'.src = mCopyState.src
    PROVE  TheCopy' = TheCopy
  BY DEF TheCopy, NoCopy

\* A step between calls that are not the service's.
LEMMA Unseen ==
    ASSUME IInv, Control', UNCHANGED <<serviceVars, verdict>>, TheCopy' = TheCopy,
           NoService(stack), NoService(stack')
    PROVE  UNCHANGED Served!vars
<1>1. stack \in Seq(LocalFrames) /\ stack' \in Seq(LocalFrames)
  BY Known DEF Control
<1>2. ServiceCalls(stack) = <<>> /\ ServiceCalls(stack') = <<>>
  BY <1>1, NoCalls
<1>. QED  BY <1>2 DEF Served!vars, serviceVars

\* OnCopyCompleted inside the call of the service.
LEMMA CompletesAtOnceServed ==
    ASSUME IInv, CanFail, Dsts \subseteq AtOnce, Running("Copy"), UNCHANGED serviceVars,
           NEW ok \in Results, NEW rest, Waiting(rest),
           OnCopyCompleted(Frame.id, Frame.src, ok, rest)
    PROVE  Served!FolderCompletesAtOnce
<1> DEFINE d == CHOOSE d \in Dsts : TRUE
           f == NotifyCall(Frame.src, d, ok, Len(m_copyRequests))
<1>1. AtCopy /\ NoCopy /\ Taken(Frame) /\ stack # <<>> /\ Control
  BY AtCopyFrame, Where, Known DEF Running
<1>2. ServiceCalls(stack) = <<Frame>>
  BY <1>1, CallsAt DEF CallsLocated
<1>3. Frame \in CopyFrames /\ Frame.pc = "Copy"
  BY <1>1 DEF AtCopy, CopyFrames
<1>4. Frame.type # "folder"
  <2>1. 1 \in DOMAIN m_copyRequests
    BY <1>1, Known DEF Taken, QueueEmpty
  <2>2. Asked(Oldest) /\ Oldest.type = Frame.type
    BY <1>1, <2>1, Known DEF JobQueue, Oldest, Taken
  <2>. QED  BY <2>2, AskedFor
<1>5. d \in Dsts /\ Frame.dst = d
  BY <1>3, TheFolder DEF CopyFrames
<1>6. NoService(rest) /\ rest \in Seq(LocalFrames)
  BY WaitingCalls
<1>7. f \in NotifyFrames
  <2>1. Len(m_copyRequests) \in Nat /\ Frame.src \in Srcs
    BY <1>3, Known DEF CopyFrames
  <2>. QED  BY <1>5, <2>1 DEF NotifyCall, NotifyFrames
<1>8. f \in LocalFrames /\ IsServiceCall(f)
  BY <1>7 DEF LocalFrames, NotifyFrames, IsServiceCall
<1>9. stack' = Cons(f, rest)
  BY DEF OnCopyCompleted
<1> HIDE DEF f, d
<1>10. ServiceCalls(stack') = <<f>>
  BY <1>6, <1>8, <1>9, OneCall
<1>11. TheCopy = {} /\ TheCopy' = {}
  BY <1>1 DEF OnCopyCompleted, TheCopy, NoCopy
<1>12. verdict' = [verdict EXCEPT ![Frame.id] = ok]
  BY DEF OnCopyCompleted
<1>13. ok \in Served!Outcomes
  BY ServedSets DEF Served!Outcomes
<1>14. Head(ServiceCalls(stack)) = Frame /\ Tail(ServiceCalls(stack)) = <<>>
       /\ ServiceCalls(stack) # <<>>
  BY <1>2
<1>15. d \in Served!PlacesAtOnce(Frame) /\ Frame.dst \in AtOnce
  BY <1>4, <1>5 DEF Served!PlacesAtOnce
<1>16. Served!Running("Copy")
  BY <1>3, <1>14 DEF Served!Running
<1>17. Served!ReturnAndCall(f)
  <2>1. Served!Cons(f, <<>>) = <<f>>
    <3>1. <<f>> \o <<>> = <<f>>
      BY <1>8, ConcatEmptySeq
    <3>. QED  BY <3>1 DEF Served!Cons
  <2>. QED  BY <1>10, <1>14, <2>1 DEF Served!ReturnAndCall
<1>18. Served!NotifyCall(Frame.src, d, ok, Len(m_copyRequests)) = f
  BY ServedCalls DEF f
<1>. QED  BY <1>11, <1>12, <1>13, <1>14, <1>15, <1>16, <1>17, <1>18
             DEF Served!FolderCompletesAtOnce, serviceVars

\* OnCopyCompleted by EndCopy or EndMove, called by a stream.
LEMMA CompletesServed ==
    ASSUME IInv, CanFail, stack # <<>>, AtEndCopy \/ AtEndMove, UNCHANGED serviceVars,
           NEW ok \in Results,
           OnCopyCompleted(mCopyState.id, mCopyState.src, ok, Cons(ReturnCall("ok"), Beneath))
    PROVE  \E c \in TheCopy : Served!FolderCompletes(c)
<1> DEFINE d == CHOOSE d \in Dsts : TRUE
           f == NotifyCall(mCopyState.src, d, ok, Len(m_copyRequests))
           rest == Cons(ReturnCall("ok"), Beneath)
           c == [id |-> mCopyState.id, src |-> mCopyState.src, dst |-> d, place |-> d]
<1>1. ~ NoCopy /\ Control /\ mCopyState \in StateType
  BY Known DEF AtEndCopy, AtEndMove, StateOK
<1>2. ServiceCalls(stack) = <<>>
  BY <1>1, CallsAt DEF CallsLocated
<1>3. d \in Dsts /\ \A e \in Dsts : e = d
  BY TheFolder
<1>4. Beneath \in Seq(LocalFrames) /\ NoService(Beneath)
  BY <1>1, OutsideCalls, Where
<1>5. ReturnCall("ok") \in LocalFrames /\ ~ IsServiceCall(ReturnCall("ok"))
  BY DEF ReturnCall, LocalFrames, ReturnFrames, Results, IsServiceCall
<1>6. rest \in Seq(LocalFrames) /\ NoService(rest)
  <2>1. PICK r : r = rest
    OBVIOUS
  <2>2. r \in Seq(LocalFrames) /\ r # <<>> /\ Head(r) = ReturnCall("ok") /\ Tail(r) = Beneath
    BY <1>4, <1>5, <2>1, ConsProperties
  <2>3. \A i \in DOMAIN r : \/ i = 1 /\ r[i] = ReturnCall("ok")
                            \/ i - 1 \in DOMAIN Beneath /\ r[i] = Beneath[i - 1]
    BY <2>2
  <2>. QED  BY <1>4, <1>5, <2>1, <2>2, <2>3 DEF NoService
<1>7. f \in LocalFrames /\ IsServiceCall(f)
  <2>1. Len(m_copyRequests) \in Nat /\ mCopyState.src \in Srcs
    BY <1>1, Known DEF StateType
  <2>2. f \in NotifyFrames
    BY <1>3, <2>1 DEF NotifyCall, NotifyFrames
  <2>. QED  BY <2>2 DEF LocalFrames, NotifyFrames, IsServiceCall
<1>8. stack' = Cons(f, rest)
  BY DEF OnCopyCompleted
<1>9. Served!NotifyCall(mCopyState.src, d, ok, Len(m_copyRequests)) = f
  BY ServedCalls
<1> HIDE DEF f, d, rest
<1>10. ServiceCalls(stack') = <<f>>
  BY <1>6, <1>7, <1>8, OneCall
<1>11. TheCopy = {c} /\ TheCopy' = {}
  BY <1>1, <1>3 DEF OnCopyCompleted, TheCopy, NoCopy
<1>12. verdict' = [verdict EXCEPT ![c.id] = ok]
  BY DEF OnCopyCompleted
<1>13. ok \in Served!Outcomes
  BY ServedSets DEF Served!Outcomes
<1>14. Served!EventLoop
  BY <1>2 DEF Served!EventLoop
<1>15. Served!Call(f)
  <2>1. Served!Cons(f, <<>>) = <<f>>
    <3>1. <<f>> \o <<>> = <<f>>
      BY <1>7, ConcatEmptySeq
    <3>. QED  BY <3>1 DEF Served!Cons
  <2>. QED  BY <1>2, <1>10, <2>1 DEF Served!Call
<1>16. Served!FolderCompletes(c)
  <2>1. Served!NotifyCall(c.src, c.place, ok, Len(m_copyRequests)) = f
    BY <1>9
  <2>2. TheCopy' = TheCopy \ {c}
    BY <1>11
  <2>3. c \in TheCopy
    BY <1>11
  <2> HIDE DEF c
  <2>. QED  BY <1>12, <1>13, <1>14, <1>15, <2>1, <2>2, <2>3
               DEF Served!FolderCompletes, serviceVars
<1>. QED  BY <1>11, <1>16

\* CopyMessages and CopyFileMessage that report before they return.
LEMMA CopyServed ==
    ASSUME IInv, CanFail, Dsts \subseteq AtOnce,
           CopyMessagesRefused \/ CopyBusy \/ CopyFileMessage
    PROVE  Served!FolderCompletesAtOnce
<1>1. Running("Copy") /\ UNCHANGED serviceVars
  BY DEF CopyMessagesRefused, CopyBusy, CopyFileMessage
<1>2. /\ Frame.id \in Ids /\ Frame.src \in Srcs /\ Beneath \in Seq(ReturnFrames)
  BY <1>1, AtCopyFrame
<1>3. ASSUME NEW v \in Results
      PROVE  Waiting(Cons(ReturnCall(v), Beneath))
  <2>1. ReturnCall(v) \in ReturnFrames
    BY DEF ReturnCall, ReturnFrames
  <2>2. Cons(ReturnCall(v), Beneath) \in Seq(ReturnFrames)
    BY <1>2, <2>1, ConsProperties
  <2>. QED  BY <2>2, ReturnsWait
<1>4. Waiting(Cons(DraftCall(Frame.id, Frame.src), Beneath))
  <2>1. PICK f : f = DraftCall(Frame.id, Frame.src)
    OBVIOUS
  <2>2. f \in DraftFrames
    BY <1>2, <2>1 DEF DraftCall, DraftFrames
  <2>3. PICK s : s = Cons(f, Beneath)
    OBVIOUS
  <2>4. Beneath \in Seq(ReturnFrames \cup DraftFrames)
    BY <1>2
  <2>5. s \in Seq(ReturnFrames \cup DraftFrames) /\ Tail(s) = Beneath
    <3>1. f \in ReturnFrames \cup DraftFrames
      BY <2>2
    <3>2. /\ Cons(f, Beneath) \in Seq(ReturnFrames \cup DraftFrames)
          /\ Tail(Cons(f, Beneath)) = Beneath
      BY <2>4, <3>1, ConsProperties, Zenon
    <3>. QED  BY <2>3, <3>2
  <2>. QED  BY <1>2, <2>1, <2>3, <2>5 DEF Waiting
<1>5. "ok" \in Results /\ "failed" \in Results
  BY DEF Results
<1>6. PICK ok \in Results, k \in 1..4 :
         /\ k = 1 => OnCopyCompleted(Frame.id, Frame.src, ok, Beneath)
         /\ k = 2 => OnCopyCompleted(Frame.id, Frame.src, ok, Cons(ReturnCall("ok"), Beneath))
         /\ k = 3 => OnCopyCompleted(Frame.id, Frame.src, ok, Cons(ReturnCall("failed"), Beneath))
         /\ k = 4 => OnCopyCompleted(Frame.id, Frame.src, ok,
                                     Cons(DraftCall(Frame.id, Frame.src), Beneath))
  <2>1. CASE CopyMessagesRefused
    BY <1>5, <2>1 DEF CopyMessagesRefused
  <2>2. CASE CopyBusy
    BY <1>5, <2>2 DEF CopyBusy
  <2>3. CASE CopyFileMessage
    BY <1>5, <2>3 DEF CopyFileMessage
  <2>. QED  BY <2>1, <2>2, <2>3
<1>7. Waiting(Beneath)
  BY <1>2, ReturnsWait
<1>8. k = 1 \/ k = 2 \/ k = 3 \/ k = 4
  OBVIOUS
<1>9. PICK rest : Waiting(rest) /\ OnCopyCompleted(Frame.id, Frame.src, ok, rest)
  BY <1>3, <1>4, <1>5, <1>6, <1>7, <1>8
<1>. QED  BY <1>1, <1>9, CompletesAtOnceServed

\* CopyMessages takes the copy on, or reports that it does not start.
LEMMA StartsServed ==
    ASSUME IInv, CanFail, Dsts \subseteq AtOnce, CopyMessagesStarts
    PROVE  Served!Folder
<1>1. PICK id \in Ids, src \in Srcs, rest \in Seq(ReturnFrames) :
          id = Frame.id /\ src = Frame.src /\ rest = Beneath
  BY AtCopyFrame DEF CopyMessagesStarts
<1> DEFINE state == InitCopyState(id, src)
<1>2. PICK started \in BOOLEAN, opened \in BOOLEAN :
         IF started
           THEN /\ mCopyState' = IF state.multiple /\ opened THEN StartsMessage(state)
                                                             ELSE state
                /\ Returns("ok")
           ELSE OnCopyCompleted(id, src, "failed", Cons(ReturnCall("failed"), rest))
  BY <1>1 DEF CopyMessagesStarts, Works
<1>3. Running("Copy") /\ UNCHANGED serviceVars /\ Frame.type = "messages"
  BY DEF CopyMessagesStarts
<1>4. AtCopy /\ NoCopy /\ Taken(Frame) /\ stack # <<>> /\ Control
  BY <1>3, AtCopyFrame, Where, Known DEF Running
<1> HIDE DEF state
<1>5. CASE ~ started
  <2>1. "failed" \in Results /\ ReturnCall("failed") \in ReturnFrames
    BY DEF Results, ReturnCall, ReturnFrames
  <2>2. Cons(ReturnCall("failed"), rest) \in Seq(ReturnFrames)
    BY <2>1, ConsProperties
  <2>3. Waiting(Cons(ReturnCall("failed"), rest))
    BY <2>2, ReturnsWait
  <2>4. OnCopyCompleted(Frame.id, Frame.src, "failed", Cons(ReturnCall("failed"), rest))
    BY <1>1, <1>2, <1>5
  <2>5. Served!FolderCompletesAtOnce
    BY <1>3, <2>1, <2>3, <2>4, CompletesAtOnceServed
  <2>. QED  BY <2>5 DEF Served!Folder
<1>6. CASE started
  <2>1. JobType(Job[src]) /\ Job[src].source # "file"
    <3>1. 1 \in DOMAIN m_copyRequests
      BY <1>4, Known DEF Taken, QueueEmpty
    <3>2. Oldest.src = src /\ Oldest.type = "messages" /\ Asked(Oldest)
      BY <1>1, <1>3, <1>4, <3>1, Known DEF Taken, JobQueue, Oldest
    <3>3. PICK o \in Offers : o.src = src /\ o.type = "messages"
      BY <3>2 DEF Asked
    <3>. QED  BY <3>3, LocalAssumption
  <2>2. PICK s : mCopyState' = s /\ StateStarted(s, id, src)
    BY <1>2, <1>6, <2>1, InitialState DEF state
  <2>3. PICK d \in Dsts : Frame.dst = d /\ \A e \in Dsts : e = d
    BY <1>4, TheFolder DEF AtCopy, CopyFrames
  <2>4. s # NoState /\ s.id = id /\ s.src = src
    BY <2>2, LocalAssumption DEF StateStarted
  <2>5. PICK c : c = [id |-> Frame.id, src |-> Frame.src, dst |-> Frame.dst, place |-> Frame.dst]
    OBVIOUS
  <2>6. TheCopy = {} /\ TheCopy' = {c}
    BY <1>1, <1>4, <2>2, <2>3, <2>4, <2>5 DEF TheCopy, NoCopy
  <2>7. ServiceCalls(stack) = <<Frame>> /\ Frame.pc = "Copy"
    BY <1>4, CallsAt DEF CallsLocated, AtCopy, CopyFrames
  <2>8. ServiceCalls(stack') = <<>>
    <3>1. stack' = rest
      BY <1>1, <1>2, <1>6 DEF Returns
    <3>. QED  BY <3>1, ReturnsWait, WaitingCalls, NoCalls
  <2>9. Head(ServiceCalls(stack)) = Frame /\ Tail(ServiceCalls(stack)) = <<>>
        /\ ServiceCalls(stack) # <<>>
    BY <2>7
  <2>10. Frame.dst \in Served!LaterPlaces(Frame)
    BY <1>3 DEF Served!LaterPlaces
  <2>11. Served!Running("Copy") /\ Served!Return
    BY <2>7, <2>8, <2>9 DEF Served!Running, Served!Return
  <2>12. TheCopy' = TheCopy \cup {c}
    BY <2>6
  <2>13. UNCHANGED verdict
    BY <1>2, <1>6 DEF Returns
  <2>14. Served!FolderAccepts
    BY <1>3, <2>5, <2>9, <2>10, <2>11, <2>12, <2>13 DEF Served!FolderAccepts, serviceVars
  <2>. QED  BY <2>14 DEF Served!Folder
<1>. QED  BY <1>5, <1>6

\* A call of the folder's own that returns.
LEMMA RestUnseen ==
    ASSUME IInv, Control', CopyFileMessageReports \/ ReturnsWith
    PROVE  UNCHANGED Served!vars
<1>1. Running("Return") \/ Running("Draft")
  BY DEF CopyFileMessageReports, ReturnsWith
<1>2. Waiting(Beneath) /\ stack # <<>> /\ Waiting(stack)
  BY <1>1, AtRestFrame, Known, Where DEF Running, AtRest
<1>3. /\ stack' = Beneath /\ UNCHANGED <<serviceVars, verdict, mCopyState>>
  <2>1. CASE CopyFileMessageReports
    <3>1. rv = "ok"
      BY <2>1, AtRestFrame DEF CopyFileMessageReports, Running, Frame
    <3>. QED  BY <2>1, <3>1 DEF CopyFileMessageReports, Returns
  <2>2. CASE ReturnsWith
    BY <2>2 DEF ReturnsWith, Returns, folderVars
  <2>. QED  BY <2>1, <2>2
<1>4. TheCopy' = TheCopy
  BY <1>3 DEF TheCopy
<1>5. NoService(stack) /\ NoService(stack')
  BY <1>2, <1>3, WaitingCalls
<1>. QED  BY <1>3, <1>4, <1>5, Unseen

\* EndCopy, EndMove or StartMessage that returns, whatever it did to its state.
LEMMA OutsideUnseen ==
    ASSUME IInv, Control', UNCHANGED <<serviceVars, verdict>>, stack' = Beneath,
           Running("EndCopy") \/ Running("EndMove") \/ Running("NextMessage"),
           ~ NoCopy', mCopyState'.id = mCopyState.id, mCopyState'.src = mCopyState.src
    PROVE  UNCHANGED Served!vars
<1>1. AtEndCopy \/ AtEndMove \/ AtNextMessage
  BY AtEndFrames
<1>2. NoService(stack) /\ NoService(stack')
  BY <1>1, Known, OutsideCalls DEF Running
<1>3. ~ NoCopy
  BY AtEndFrames
<1>4. TheCopy' = TheCopy
  BY <1>3, SameCopy
<1>. QED  BY <1>2, <1>4, Unseen

LEMMA EndsServed ==
    ASSUME IInv, Control', CanFail,
           EndCopyFails \/ EndCopySucceeds \/ EndMoveFails \/ EndMoveSucceeds \/ NextMessage
    PROVE  (\E c \in TheCopy : Served!FolderCompletes(c)) \/ UNCHANGED Served!vars
<1>1. /\ Running("EndCopy") \/ Running("EndMove") \/ Running("NextMessage")
      /\ UNCHANGED serviceVars
  BY DEF EndCopyFails, EndCopySucceeds, EndMoveFails, EndMoveSucceeds, NextMessage
<1>2. /\ stack # <<>> /\ ~ NoCopy /\ mCopyState \in StateType
      /\ Running("EndCopy") => AtEndCopy
      /\ Running("EndMove") => AtEndMove
  BY <1>1, AtEndFrames DEF Running
<1>3. "ok" \in Results /\ "failed" \in Results
  BY DEF Results
<1>4. PICK m : m = mCopyState
  OBVIOUS
<1>5. ASSUME NEW t, t \in StateType, mCopyState' = t, t.id = m.id, t.src = m.src, Returns("ok") \/ Returns("failed")
      PROVE  UNCHANGED Served!vars
  <2>1. ~ NoCopy'
    BY <1>5, LocalAssumption DEF NoCopy
  <2>2. mCopyState'.id = mCopyState.id /\ mCopyState'.src = mCopyState.src
    BY <1>4, <1>5
  <2>3. stack' = Beneath /\ UNCHANGED verdict
    BY <1>5 DEF Returns
  <2>. QED  BY <1>1, <2>1, <2>2, <2>3, OutsideUnseen
<1>6. ASSUME NEW ok \in Results, AtEndCopy \/ AtEndMove,
             OnCopyCompleted(mCopyState.id, mCopyState.src, ok, Cons(ReturnCall("ok"), Beneath))
      PROVE  \E c \in TheCopy : Served!FolderCompletes(c)
  BY <1>1, <1>2, <1>6, CompletesServed
<1>7. CASE EndCopyFails
  <2>1. CASE mCopyState.isMove
    BY <1>2, <1>4, <1>5, <1>7, <2>1 DEF EndCopyFails
  <2>2. CASE ~ mCopyState.isMove
    BY <1>2, <1>3, <1>6, <1>7, <2>2 DEF EndCopyFails
  <2>. QED  BY <2>1, <2>2
<1>8. CASE EndCopySucceeds
  <2>1. PICK t : t = [m EXCEPT !.dstKey = TRUE]
    OBVIOUS
  <2>2. t \in StateType /\ t.id = m.id /\ t.src = m.src
    BY <1>2, <1>4, <2>1 DEF StateType
  <2>3. \/ OnCopyCompleted(mCopyState.id, mCopyState.src, "ok", Cons(ReturnCall("ok"), Beneath))
        \/ mCopyState' = t /\ (Returns("ok") \/ Returns("failed"))
    BY <1>4, <1>8, <2>1 DEF EndCopySucceeds
  <2>4. AtEndCopy
    BY <1>2, <1>8 DEF EndCopySucceeds
  <2>. QED  BY <1>3, <1>5, <1>6, <2>2, <2>3, <2>4
<1>9. CASE EndMoveFails
  <2>1. AtEndMove
    BY <1>2, <1>9 DEF EndMoveFails
  <2>. QED  BY <1>3, <1>6, <1>9, <2>1 DEF EndMoveFails
<1>10. CASE EndMoveSucceeds
  <2>1. AtEndMove
    BY <1>2, <1>10 DEF EndMoveSucceeds
  <2>2. \/ Returns("ok") /\ mCopyState' = m
        \/ \E ok \in Results :
              OnCopyCompleted(mCopyState.id, mCopyState.src, ok, Cons(ReturnCall("ok"), Beneath))
    BY <1>3, <1>4, <1>10 DEF EndMoveSucceeds
  <2>. QED  BY <1>2, <1>4, <1>5, <1>6, <2>1, <2>2
<1>11. CASE NextMessage
  <2>1. PICK a, b : a = StartsMessage(m) /\ b = [m EXCEPT !.open = FALSE]
    OBVIOUS
  <2>2. /\ a \in StateType /\ a.id = m.id /\ a.src = m.src
    BY <1>2, <1>4, <2>1, MessageStarted
  <2>3. /\ b \in StateType /\ b.id = m.id /\ b.src = m.src
    BY <1>2, <1>4, <2>1 DEF StateType
  <2>4. (mCopyState' = a \/ mCopyState' = b) /\ Returns("ok")
    BY <1>2, <1>4, <1>11, <2>1 DEF NextMessage, NoCopy
  <2>. QED  BY <1>5, <2>2, <2>3, <2>4
<1>. QED  BY <1>7, <1>8, <1>9, <1>10, <1>11

\* Streams tell the service nothing.
LEMMA EventsUnseen ==
    ASSUME IInv, Control', StreamSteps \/ UserStops \/ OthersLock \/ UNCHANGED localVars
    PROVE  UNCHANGED Served!vars
<1>1. ASSUME stack' = stack, UNCHANGED <<serviceVars, verdict>>, TheCopy' = TheCopy
      PROVE  UNCHANGED Served!vars
  BY <1>1 DEF Served!vars, serviceVars
<1>2. CASE UserStops \/ OthersLock \/ UNCHANGED localVars
  <2>1. stack' = stack /\ UNCHANGED <<serviceVars, verdict, mCopyState>>
    BY <1>2 DEF UserStops, OthersLock, localVars, serviceVars
  <2>2. TheCopy' = TheCopy
    BY <2>1 DEF TheCopy
  <2>. QED  BY <1>1, <2>1, <2>2
<1>3. CASE StreamSteps
  <2>1. PICK s \in streams : BeginCopy(s) \/ CopyData(s) \/ StreamStops(s)
    BY <1>3 DEF StreamSteps
  <2>2. PICK m \in StateType : m = mCopyState /\ m # NoState
    BY <2>1, OneStream DEF NoCopy
  <2>3. ASSUME stack' = stack, UNCHANGED <<serviceVars, verdict>>,
               NEW t \in StateType, mCopyState' = t, t.id = m.id, t.src = m.src
        PROVE  UNCHANGED Served!vars
    <3>1. ~ NoCopy /\ ~ NoCopy'
      BY <2>2, <2>3, LocalAssumption DEF NoCopy
    <3>2. TheCopy' = TheCopy
      BY <2>2, <2>3, <3>1, SameCopy
    <3>. QED  BY <1>1, <2>3, <3>2
  <2>4. CASE BeginCopy(s)
    <3>1. PICK a, b, c : /\ a = StartsMessage(m) /\ b = [m EXCEPT !.message = m.cur]
                         /\ c = [a EXCEPT !.message = m.cur + 1]
      OBVIOUS
    <3>2. a \in StateType /\ a.id = m.id /\ a.src = m.src
      BY <3>1, MessageStarted
    <3>3. b \in StateType /\ b.id = m.id /\ b.src = m.src
      BY <3>1 DEF StateType
    <3>4. c \in StateType /\ c.id = m.id /\ c.src = m.src
      <4>1. m.cur + 1 \in Nat
        BY DEF StateType
      <4>. QED  BY <3>1, <3>2, <4>1 DEF StateType
    <3>5. /\ stack' = stack /\ UNCHANGED <<serviceVars, verdict>>
          /\ mCopyState' = m \/ mCopyState' = b \/ mCopyState' = c
      BY <2>2, <2>4, <3>1 DEF BeginCopy
    <3>. QED  BY <2>3, <3>3, <3>4, <3>5
  <2>5. CASE CopyData(s)
    <3>1. PICK written \in BOOLEAN :
             mCopyState' = [m EXCEPT !.writeFailed = m.writeFailed \/ ~ written]
      BY <2>2, <2>5 DEF CopyData, Works
    <3>2. PICK w \in BOOLEAN : w = (m.writeFailed \/ ~ written)
      BY DEF StateType
    <3>3. PICK t : t = [m EXCEPT !.writeFailed = w]
      OBVIOUS
    <3>4. t \in StateType /\ t.id = m.id /\ t.src = m.src
      BY <3>3 DEF StateType
    <3>5. stack' = stack /\ UNCHANGED <<serviceVars, verdict>>
      BY <2>5 DEF CopyData
    <3>. QED  BY <2>3, <3>1, <3>2, <3>3, <3>4, <3>5
  <2>6. CASE StreamStops(s)
    <3>1. stack = <<>> /\ UNCHANGED <<serviceVars, verdict, mCopyState>>
      BY <2>6 DEF StreamStops
    <3>2. TheCopy' = TheCopy
      BY <3>1 DEF TheCopy
    <3>3. NoService(stack)
      BY <3>1, EmptySeq DEF NoService
    <3>4. NoService(stack')
      <4>1. stack' = <<EndCopyCall(s, s.ok)>>
                  \o (IF Job[s.src].move THEN <<EndMoveCall(s, s.ok)>> ELSE <<>>)
                  \o (IF MoreInUrl(s) /\ s.ok /\ ~ m_stopped THEN <<NextMessageCall(s)>>
                                                             ELSE <<>>)
        BY <2>6 DEF StreamStops
      <4>2. PICK a, b, c : /\ a = EndCopyCall(s, s.ok) /\ b = EndMoveCall(s, s.ok)
                           /\ c = NextMessageCall(s)
        OBVIOUS
      <4>3. ~ IsServiceCall(a) /\ ~ IsServiceCall(b) /\ ~ IsServiceCall(c)
        BY <4>2 DEF EndCopyCall, EndMoveCall, NextMessageCall, IsServiceCall
      <4>4. PICK x, y : /\ x = IF Job[s.src].move THEN <<b>> ELSE <<>>
                        /\ y = IF MoreInUrl(s) /\ s.ok /\ ~ m_stopped THEN <<c>> ELSE <<>>
        OBVIOUS
      <4>5. <<a>> \in Seq({a, b, c}) /\ x \in Seq({a, b, c}) /\ y \in Seq({a, b, c})
        <5>1. <<a>> \in Seq({a, b, c}) /\ <<b>> \in Seq({a, b, c}) /\ <<c>> \in Seq({a, b, c})
          OBVIOUS
        <5>2. <<>> \in Seq({a, b, c})
          OBVIOUS
        <5>. QED  BY <4>4, <5>1, <5>2
      <4>6. stack' = <<a>> \o x \o y
        BY <4>1, <4>2, <4>4
      <4>7. <<a>> \o x \o y \in Seq({a, b, c})
        BY <4>5, ConcatProperties
      <4>8. \A i \in DOMAIN stack' : stack'[i] \in {a, b, c}
        BY <4>6, <4>7
      <4>. QED  BY <4>3, <4>8 DEF NoService
    <3>. QED  BY <3>1, <3>2, <3>3, <3>4, Unseen
  <2>. QED  BY <2>1, <2>4, <2>5, <2>6
<1>. QED  BY <1>2, <1>3

LEMMA StepServed ==
    ASSUME QuietDrafts, CanFail, Dsts \subseteq AtOnce, IInv, [LocalNext]_localVars
    PROVE  [Served!Next]_(Served!vars)
<1>1. Control'
  BY InvNext DEF IInv
<1>2. ASSUME NEW o \in Offers, ClientAsks(o) PROVE Served!Next
  <2>1. Served!ClientCopies(o)
    BY <1>2, ClientAsksInv
  <2>. QED  BY <2>1 DEF Served!Next
<1>3. CASE ServiceSteps
  <2>1. Served!Code
    BY <1>3, ServiceStepsInv
  <2>. QED  BY <2>1 DEF Served!Next
<1>4. CASE FolderSteps
  <2>1. CASE CopyMessagesRefused \/ CopyBusy \/ CopyFileMessage
    <3>1. Served!FolderCompletesAtOnce
      BY <2>1, CopyServed
    <3>. QED  BY <3>1 DEF Served!Next, Served!Folder
  <2>2. CASE CopyMessagesStarts
    <3>1. Served!Folder
      BY <2>2, StartsServed
    <3>. QED  BY <3>1 DEF Served!Next
  <2>3. CASE CopyFileMessageReports \/ ReturnsWith
    <3>1. UNCHANGED Served!vars
      BY <1>1, <2>3, RestUnseen
    <3>. QED  BY <3>1
  <2>4. CASE EndCopyFails \/ EndCopySucceeds \/ EndMoveFails \/ EndMoveSucceeds \/ NextMessage
    <3>1. (\E c \in TheCopy : Served!FolderCompletes(c)) \/ UNCHANGED Served!vars
      BY <1>1, <2>4, EndsServed
    <3>. QED  BY <3>1 DEF Served!Next
  <2>. QED  BY <1>4, <2>1, <2>2, <2>3, <2>4 DEF FolderSteps
<1>5. CASE StreamSteps \/ UserStops \/ OthersLock \/ UNCHANGED localVars
  <2>1. UNCHANGED Served!vars
    BY <1>1, <1>5, EventsUnseen
  <2>. QED  BY <2>1
<1>. QED  BY <1>2, <1>3, <1>4, <1>5 DEF LocalNext

LEMMA InitServed == LocalInit => Served!Init
<1> SUFFICES ASSUME LocalInit PROVE Served!Init
  OBVIOUS
<1>1. Init /\ mCopyState = NoState
  BY DEF LocalInit
<1>2. ServiceCalls(<<>>) = <<>>
  <2>1. <<>> \in Seq(LocalFrames) /\ NoService(<<>>)
    BY EmptySeq DEF NoService
  <2>. QED  BY <2>1, NoCalls
<1>3. Served!Ids = Ids
  BY ServedSets
<1>. QED  BY <1>1, <1>2, <1>3 DEF Init, Served!Init, TheCopy

\* The two names of the instance stand for one specification.
LEMMA SameSpec ==
    /\ Contract!Init <=> Served!Init
    /\ Contract!Next <=> Served!Next
<1>1. Contract!Init <=> Served!Init
  BY DEF Contract!Init, Served!Init, Contract!Ids, Served!Ids
<1>2. \A T : Contract!Min(T) = Served!Min(T)
  BY DEF Contract!Min, Served!Min
<1>3. /\ \A e, q : Contract!Cons(e, q) = Served!Cons(e, q)
      /\ \A q, i : Contract!RemoveAt(q, i) = Served!RemoveAt(q, i)
  BY DEF Contract!Cons, Served!Cons, Contract!RemoveAt, Served!RemoveAt
<1>4. /\ Contract!Dsts = Served!Dsts /\ Contract!Names = Served!Names
      /\ Contract!Outcomes = Served!Outcomes /\ Contract!Ids = Served!Ids
  BY DEF Contract!Dsts, Served!Dsts, Contract!Names, Served!Names, Contract!Outcomes,
         Served!Outcomes, Contract!Results, Served!Results, Contract!Ids, Served!Ids
<1>5. /\ \A id, o : Contract!NewRequest(id, o) = Served!NewRequest(id, o)
      /\ \A o, r : Contract!Clashes(o, r) <=> Served!Clashes(o, r)
      /\ \A r : Contract!AllSourcesProcessed(r) <=> Served!AllSourcesProcessed(r)
  BY DEF Contract!NewRequest, Served!NewRequest, Contract!Clashes, Served!Clashes,
         Contract!AllSourcesProcessed, Served!AllSourcesProcessed
<1>6. \A r : Contract!Underway(r) <=> Served!Underway(r)
  BY <1>5 DEF Contract!Underway, Served!Underway
<1>7. \A q, i : Contract!ActiveTargets(q, i) = Served!ActiveTargets(q, i)
  BY <1>6 DEF Contract!ActiveTargets, Served!ActiveTargets
<1>8. \A q, i : Contract!Startable(q, i) <=> Served!Startable(q, i)
  BY <1>6, <1>7 DEF Contract!Startable, Served!Startable
<1>9. /\ \A q : Contract!Found(q) = Served!Found(q)
      /\ \A r : Contract!FirstSource(r) = Served!FirstSource(r)
  BY <1>2, <1>8 DEF Contract!Found, Served!Found, Contract!FirstSource, Served!FirstSource
<1>10. \A q, i : Contract!MarkUnderway(q, i) = Served!MarkUnderway(q, i)
  BY <1>6, <1>7 DEF Contract!MarkUnderway, Served!MarkUnderway
<1>11. \A place, dst : Contract!IsChildOf(place, dst) <=> Served!IsChildOf(place, dst)
  BY <1>4 DEF Contract!IsChildOf, Served!IsChildOf
<1>12. \A r, src, place : Contract!FolderInPlace(r, src, place) <=> Served!FolderInPlace(r, src, place)
  BY <1>11 DEF Contract!FolderInPlace, Served!FolderInPlace
<1>13. \A r, src, place : Contract!Matches(r, src, place) <=> Served!Matches(r, src, place)
  BY <1>12 DEF Contract!Matches, Served!Matches
<1>14. \A q, src, place : Contract!FindRequest(q, src, place) = Served!FindRequest(q, src, place)
  BY <1>2, <1>12, <1>13 DEF Contract!FindRequest, Served!FindRequest
<1>15. /\ \A f : Contract!Hit(f) = Served!Hit(f)
       /\ \A f : Contract!Clears(f) <=> Served!Clears(f)
  BY <1>5, <1>14 DEF Contract!Hit, Served!Hit, Contract!Clears, Served!Clears,
     Contract!Considered, Served!Considered
<1>16. /\ Contract!DoNextCopyCall = Served!DoNextCopyCall
       /\ \A r, from : Contract!CopyCall(r, from) = Served!CopyCall(r, from)
       /\ \A src, place, v, n : Contract!NotifyCall(src, place, v, n) = Served!NotifyCall(src, place, v, n)
       /\ \A id : Contract!OnStopCopyCall(id) = Served!OnStopCopyCall(id)
  BY DEF Contract!DoNextCopyCall, Served!DoNextCopyCall, Contract!CopyCall, Served!CopyCall,
         Contract!NotifyCall, Served!NotifyCall, Contract!OnStopCopyCall, Served!OnStopCopyCall
<1>17. /\ \A pc : Contract!Running(pc) <=> Served!Running(pc)
       /\ Contract!Return <=> Served!Return
       /\ \A f : Contract!Call(f) <=> Served!Call(f)
       /\ \A f : Contract!ReturnAndCall(f) <=> Served!ReturnAndCall(f)
       /\ Contract!EventLoop <=> Served!EventLoop
       /\ \A i, v : Contract!ClearRequest(i, v) <=> Served!ClearRequest(i, v)
  BY <1>3 DEF Contract!Running, Served!Running, Contract!Return, Served!Return, Contract!Call,
     Served!Call, Contract!ReturnAndCall, Served!ReturnAndCall, Contract!EventLoop,
     Served!EventLoop, Contract!ClearRequest, Served!ClearRequest
<1>18. \A o : Contract!DoCopy(o) <=> Served!DoCopy(o)
  BY <1>4, <1>5, <1>16, <1>17 DEF Contract!DoCopy, Served!DoCopy
<1>19. \A o : /\ Contract!ClientCopies(o) <=> Served!ClientCopies(o)
              /\ Contract!ListenerCopies(o) <=> Served!ListenerCopies(o)
  BY <1>17, <1>18 DEF Contract!ClientCopies, Served!ClientCopies, Contract!ListenerCopies,
     Served!ListenerCopies
<1>20. /\ Contract!ListenerReturns <=> Served!ListenerReturns
       /\ Contract!DoNextCopyIdle <=> Served!DoNextCopyIdle
       /\ Contract!NotifyEnds <=> Served!NotifyEnds
  BY <1>8, <1>10, <1>15, <1>16, <1>17 DEF Contract!ListenerReturns, Served!ListenerReturns,
     Contract!DoNextCopyIdle, Served!DoNextCopyIdle, Contract!NotifyEnds, Served!NotifyEnds
<1>21. Contract!DoNextCopyStarts <=> Served!DoNextCopyStarts
  BY <1>8, <1>9, <1>10, <1>16, <1>17 DEF Contract!DoNextCopyStarts, Served!DoNextCopyStarts
<1>22. Contract!NotifyClears <=> Served!NotifyClears
  BY <1>3, <1>15, <1>16, <1>17 DEF Contract!NotifyClears, Served!NotifyClears
<1>23. /\ \A c : Contract!LaterPlaces(c) = Served!LaterPlaces(c)
       /\ \A c : Contract!PlacesAtOnce(c) = Served!PlacesAtOnce(c)
  BY DEF Contract!LaterPlaces, Served!LaterPlaces, Contract!PlacesAtOnce, Served!PlacesAtOnce
<1>24. /\ Contract!FolderAccepts <=> Served!FolderAccepts
       /\ Contract!FolderCompletesAtOnce <=> Served!FolderCompletesAtOnce
       /\ Contract!FolderRefuses <=> Served!FolderRefuses
  BY <1>4, <1>16, <1>17, <1>23 DEF Contract!FolderAccepts, Served!FolderAccepts,
     Contract!FolderCompletesAtOnce, Served!FolderCompletesAtOnce, Contract!FolderRefuses,
     Served!FolderRefuses
<1>25. \A c : Contract!FolderCompletes(c) <=> Served!FolderCompletes(c)
  BY <1>4, <1>16, <1>17 DEF Contract!FolderCompletes, Served!FolderCompletes
<1>26. Contract!Next <=> Served!Next
  BY <1>19, <1>20, <1>21, <1>22, <1>24, <1>25 DEF Contract!Next, Served!Next, Contract!Code,
     Served!Code, Contract!Folder, Served!Folder
<1>. QED  BY <1>1, <1>26

\* Whatever goes wrong in it, the folder reports each copy it takes on to the
\* service once and disturbs nothing in between: CopyMessages, CopyFileMessage and
\* OnCopyCompleted do what CopyService takes every folder to do.
THEOREM FolderKeepsContract ==
    ASSUME QuietDrafts, CanFail, Dsts \subseteq AtOnce
    PROVE  LocalSpec => Contract!Spec
<1>1. LocalInit => Contract!Init
  BY InitServed, SameSpec
<1>2. IInv /\ [LocalNext]_localVars => [Contract!Next]_(Contract!vars)
  <2> SUFFICES ASSUME IInv, [LocalNext]_localVars PROVE [Contract!Next]_(Contract!vars)
    OBVIOUS
  <2>1. Served!Next \/ UNCHANGED Served!vars
    BY StepServed
  <2>2. UNCHANGED Served!vars => UNCHANGED Contract!vars
    BY DEF Served!vars, Contract!vars
  <2>. QED  BY <2>1, <2>2, SameSpec
<1>. QED  BY <1>1, <1>2, InvAlways, PTL DEF LocalSpec, Contract!Spec

-----------------------------------------------------------------------------
(* What the service promises of its requests, for this folder.             *)

LEMMA ServedSpec ==
    ASSUME QuietDrafts, CanFail, Dsts \subseteq AtOnce
    PROVE  LocalSpec => Served!Spec
<1>1. IInv /\ [LocalNext]_localVars => [Served!Next]_(Served!vars)
  BY StepServed
<1>. QED  BY InitServed, <1>1, InvAlways, PTL DEF LocalSpec, Served!Spec

\* Between events, a folder that copies nothing has been handed every request
\* for it, and has reported the end of each: none waits in m_copyRequests for a
\* folder that is not at work (DoNextCopy, OnCopyCompleted).
NothingWaits == FolderIdle => m_copyRequests = <<>>

THEOREM IdleMeansDone ==
    ASSUME QuietDrafts, CanFail, Dsts \subseteq AtOnce, Served!Restrained
    PROVE  LocalSpec => []NothingWaits
<1>1. Served!Spec => []Served!NoneForgotten
  BY ServedAssumption, Served!NothingLeftBehind, Zenon
<1>2. Served!Spec => []Served!WaitsForACopy
  BY ServedAssumption, Served!NobodyStranded, Zenon
<1>3. IInv /\ Served!NoneForgotten /\ Served!WaitsForACopy => NothingWaits
  <2> SUFFICES ASSUME IInv, Served!NoneForgotten, Served!WaitsForACopy, FolderIdle,
                      m_copyRequests # <<>>
               PROVE  FALSE
    BY DEF NothingWaits
  <2>1. mCopyState = NoState /\ stack = <<>>
    BY DEF FolderIdle
  <2>2. ServiceCalls(stack) = <<>> /\ TheCopy = {}
    BY <2>1, Known, CallsAt DEF CallsLocated, TheCopy
  <2>3. 1 \in DOMAIN m_copyRequests
    BY Known
  <2>4. m_copyRequests[1].id \in Ids
    BY <2>3, QueueIds
  <2>5. starts[m_copyRequests[1].id] \in Nat
    BY <2>4, ServedAreTypes DEF IInv, ServiceTypes
  <2>6. starts[m_copyRequests[1].id] # 0
    BY <2>2, <2>3 DEF Served!WaitsForACopy
  <2>7. ~ (starts[m_copyRequests[1].id] > 0)
    BY <2>2, <2>3 DEF Served!NoneForgotten
  <2>. QED  BY <2>5, <2>6, <2>7
<1>. QED  BY <1>1, <1>2, <1>3, ServedSpec, InvAlways, PTL

\* The listener of a copy is told what the folder said of that copy, though the
\* folder is asked for the next one before NotifyCompletion returns to it
\* (ClearRequest, OnCopyCompleted).
THEOREM ToldOfItsOwnCopy ==
    ASSUME QuietDrafts, CanFail, Dsts \subseteq AtOnce, Served!Restrained
    PROVE  LocalSpec => []StopMatchesVerdict
<1>1. Served!Spec => []Served!StopMatchesVerdict
  BY ServedAssumption, Served!ToldTheOutcome, Zenon
<1>2. Served!StopMatchesVerdict => StopMatchesVerdict
  BY ServedSets DEF Served!StopMatchesVerdict, StopMatchesVerdict
<1>. QED  BY <1>1, <1>2, ServedSpec, PTL

\* A folder and the service in front of it are one line of requests, each begun
\* in its turn and answered once, whatever fails and whoever stops it: the steps
\* of EndCopy and EndMove, of the streams and of the protocol do not show.
THEOREM FolderServesALine ==
    ASSUME QuietDrafts, CanFail, Dsts \subseteq AtOnce
    PROVE  LocalSpec => Served!KeepsLine
<1>1. Served!Spec => Served!KeepsLine
  BY ServedAssumption, Served!ImplementsLine, Zenon
<1>. QED  BY <1>1, ServedSpec, PTL
=============================================================================
