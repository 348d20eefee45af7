----------------------------- MODULE LocalFolder -----------------------------
(***************************************************************************)
(* A local folder as the destination of copies, composed with the message  *)
(* copy service that hands it one request at a time: the copy code of      *)
(* mailnews/local/src/nsLocalMailFolder.cpp, the stream listener between   *)
(* the source and the folder (base/src/nsCopyMessageStreamListener.cpp)    *)
(* and the mailbox protocol's loop over the messages of one copy           *)
(* (local/src/nsMailboxProtocol.cpp).                                      *)
(*                                                                         *)
(* The folder keeps one mCopyState, whoever calls it.  Streams run from    *)
(* the event loop and call the folder; the folder calls the service, which *)
(* starts the next copy into the same folder before it returns.  Calls of  *)
(* the folder and of the protocol are frames on CopyService's stack.  The  *)
(* semaphore is held exactly while mCopyState exists.                      *)
(***************************************************************************)
EXTENDS CopyService

CONSTANTS
    Job,         \* Job[src]: what is copied, see JobType
    Faults,      \* what may go wrong, see AllFaults
    QuietDrafts, \* are drafts replaced only while no other copy is queued?
    NoState      \* mCopyState is null

\* source: "mailbox" (a local folder), "offline" (another one, read from its
\* offline store, one message at a time) or "file".  A file with move set
\* replaces an older draft.
JobType(j) == /\ DOMAIN j = {"source", "move", "total"}
              /\ j.source \in {"mailbox", "offline", "file"}
              /\ j.move \in BOOLEAN
              /\ j.total \in Nat
              /\ j.source # "file" => j.total > 0
              /\ j.source = "file" => j.total = IF j.move THEN 1 ELSE 0

\* space: no room, the root folder or no bodies offline; locked: another user
\* has the folder; open: no stream on the folder's file; start, next, reopen:
\* the source does not start; read: the source fails; write: the folder's file
\* does; delete: the moved messages are not deleted; stop: the user's Stop.
AllFaults == {"space", "locked", "open", "start", "next", "reopen", "read",
              "write", "delete", "stop"}

StateType == [id : Ids, src : Srcs, isMove : BOOLEAN, total : Nat, cur : Nat,
              multiple : BOOLEAN, open : BOOLEAN, message : Nat, dstKey : BOOLEAN,
              writeFailed : BOOLEAN]

\* The source CopyFileMessage adds for a message to replace is no folder (nullptr).
ASSUME LocalAssumption ==
    /\ \A o \in Offers : o.src \in DOMAIN Job /\ JobType(Job[o.src]) /\ o.type # "folder"
    /\ \A o \in Offers : o.type = "file" <=> Job[o.src].source = "file"
    /\ \A o \in Offers : o.type = "messages" => o.from = <<o.src>>
    /\ \A o \in Offers : o.type = "file" => \A k \in DOMAIN o.from : o.from[k] # o.dst
    /\ \E d \in Dsts : Dsts = {d}
    /\ NoState \notin StateType
    /\ Faults \subseteq AllFaults
    /\ QuietDrafts \in BOOLEAN

VARIABLES
    mCopyState,  \* the copy the folder believes it is making, or NoState
    streams,     \* the streams on source messages that are running
    rv,          \* what the last call that returned has returned
    locked,      \* does another user of the folder hold its semaphore?
    m_stopped,   \* the window's flag, set by Stop, reset by the next mailbox url
    unfinished,  \* 0, or the message left half written at the end of the file
    copied,      \* history: the messages of each request that were finished
    deleted      \* history: the requests whose source messages were deleted

folderVars == <<mCopyState, streams, locked, m_stopped, unfinished, copied, deleted>>
localVars == <<m_copyRequests, stack, running, nextId, starts, stopped, verdict, rv,
               mCopyState, streams, locked, m_stopped, unfinished, copied, deleted>>
serviceVars == <<m_copyRequests, running, nextId, starts, stopped>>

\* Does what f may break work this time?
Works(f) == IF f \in Faults THEN BOOLEAN ELSE {TRUE}

-----------------------------------------------------------------------------
(* Calls.                                                                  *)

Frame == Head(stack)
Beneath == Tail(stack)

ReturnCall(v) == [pc |-> "Return", rv |-> v]
DraftCall(id, src) == [pc |-> "Draft", id |-> id, src |-> src]
EndCopyCall(s, ok) == [pc |-> "EndCopy", id |-> s.id, n |-> s.n, ok |-> ok]
EndMoveCall(s, ok) == [pc |-> "EndMove", id |-> s.id, n |-> s.n, ok |-> ok]
NextMessageCall(s) == [pc |-> "NextMessage", id |-> s.id, n |-> s.n, src |-> s.src]

Returns(v) == stack' = Beneath /\ rv' = v /\ UNCHANGED verdict

\* fault: the state of the copy is kept
CompletesKeepsState(id, src, ok, rest) ==
    /\ UNCHANGED mCopyState
    /\ verdict' = [verdict EXCEPT ![id] = ok]
    /\ stack' = Cons(NotifyCall(src, CHOOSE d \in Dsts : TRUE, ok, Len(m_copyRequests)), rest)
    /\ UNCHANGED rv

\* OnCopyCompleted: whatever state there is goes, and the service is told; rest
\* are the calls that are left when NotifyCompletion returns.
OnCopyCompleted(id, src, ok, rest) ==
    /\ mCopyState' = NoState
    /\ verdict' = [verdict EXCEPT ![id] = ok]
    /\ stack' = Cons(NotifyCall(src, CHOOSE d \in Dsts : TRUE, ok, Len(m_copyRequests)), rest)
    /\ UNCHANGED rv

\* fault: a copy of many messages starts with the second one
InitCopyStateLate(id, src) ==
    [id |-> id, src |-> src, isMove |-> Job[src].move, total |-> Job[src].total,
     cur |-> 1, multiple |-> Job[src].source = "mailbox" /\ Job[src].total > 1,
     open |-> FALSE, message |-> 0, dstKey |-> FALSE, writeFailed |-> FALSE]

InitCopyState(id, src) ==
    [id |-> id, src |-> src, isMove |-> Job[src].move, total |-> Job[src].total,
     cur |-> 0, multiple |-> Job[src].source = "mailbox" /\ Job[src].total > 1,
     open |-> FALSE, message |-> 0, dstKey |-> FALSE, writeFailed |-> FALSE]

\* m_curDstKey is known early only when a parser goes along, which it does for
\* sources that are not local.
StartsMessage(state) ==
    [state EXCEPT !.cur = @ + 1, !.open = TRUE,
                  !.dstKey = @ \/ Job[state.src].source # "mailbox"]

Stream(id, src, n) == [id |-> id, src |-> src, n |-> n, at |-> "begin", ok |-> TRUE]

-----------------------------------------------------------------------------
(* CopyMessages and CopyFileMessage, called by DoNextCopy.                 *)

CopyMessagesRefused ==
    /\ Running("Copy") /\ "space" \in Faults
    /\ \E rest \in {Beneath, Cons(ReturnCall("ok"), Beneath)} :
          OnCopyCompleted(Frame.id, Frame.src, "failed", rest)
    /\ UNCHANGED <<serviceVars, streams, locked, m_stopped, unfinished, copied, deleted>>

FolderBusy == mCopyState # NoState \/ locked

CopyBusy ==
    /\ Running("Copy") /\ FolderBusy
    /\ OnCopyCompleted(Frame.id, Frame.src, "failed", Cons(ReturnCall("failed"), Beneath))
    /\ UNCHANGED <<serviceVars, streams, locked, m_stopped, unfinished, copied, deleted>>

\* CopyMessagesTo opens the first message itself and does not look at the
\* result; CopyMessageTo leaves that to BeginCopy.
CopyMessagesStarts ==
    /\ Running("Copy") /\ Frame.type = "messages" /\ ~ FolderBusy
    /\ \E started \in Works("start"), opened \in Works("open") :
       LET state == InitCopyState(Frame.id, Frame.src)
       IN  IF started
             THEN /\ mCopyState' = IF state.multiple /\ opened THEN StartsMessage(state)
                                                               ELSE state
                  /\ streams' = streams \cup {Stream(Frame.id, Frame.src, 1)}
                  /\ m_stopped' = (m_stopped /\ Job[Frame.src].source # "mailbox")
                  /\ Returns("ok")
             ELSE /\ OnCopyCompleted(Frame.id, Frame.src, "failed",
                                     Cons(ReturnCall("failed"), Beneath))
                  /\ UNCHANGED <<streams, m_stopped>>
    /\ UNCHANGED <<serviceVars, locked, unfinished, copied, deleted>>

\* The whole file goes through BeginCopy, CopyData and EndCopy in one call.
\* EndCopy reports a new message itself; for one that replaces a draft
\* CopyFileMessage reports, and takes the result for its own.
CopyFileMessage ==
    /\ Running("Copy") /\ Frame.type = "file" /\ ~ FolderBusy
    /\ \E opened \in Works("open"), written \in Works("write") :
       LET replaces == Job[Frame.src].move
       IN  IF opened /\ written
             THEN /\ OnCopyCompleted(Frame.id, Frame.src, "ok",
                       Cons(IF replaces THEN DraftCall(Frame.id, Frame.src)
                                        ELSE ReturnCall("ok"), Beneath))
                  /\ copied' = [copied EXCEPT ![Frame.id] =
                                              Append(@, [header |-> 1, body |-> 1])]
                  /\ UNCHANGED unfinished
             ELSE /\ OnCopyCompleted(Frame.id, Frame.src, "failed",
                                     Cons(ReturnCall("failed"), Beneath))
                  /\ unfinished' = IF opened THEN 1 ELSE unfinished
                  /\ UNCHANGED copied
    /\ UNCHANGED <<serviceVars, streams, locked, m_stopped, deleted>>

\* rv is what NotifyCompletion returned: that of starting the next copy.
CopyFileMessageReports ==
    /\ Running("Draft")
    /\ IF rv = "failed"
         THEN OnCopyCompleted(Frame.id, Frame.src, "failed",
                              Cons(ReturnCall("failed"), Beneath))
         ELSE Returns("ok") /\ UNCHANGED mCopyState
    /\ UNCHANGED <<serviceVars, streams, locked, m_stopped, unfinished, copied, deleted>>

ReturnsWith ==
    /\ Running("Return")
    /\ Returns(Frame.rv)
    /\ UNCHANGED <<serviceVars, folderVars>>

-----------------------------------------------------------------------------
(* The streams: OnStartRequest, OnDataAvailable and OnStopRequest.         *)

Becomes(s, t) == streams' = (streams \ {s}) \cup {t}

\* BeginCopy, by OnStartRequest: an error cancels the stream.
BeginCopy(s) ==
    /\ stack = <<>> /\ s.at = "begin"
    /\ \E opened \in Works("open") :
       IF \/ mCopyState = NoState
          \/ mCopyState.multiple /\ ~ mCopyState.open
          \/ ~ mCopyState.multiple /\ ~ opened
         THEN /\ Becomes(s, [s EXCEPT !.at = "stop", !.ok = FALSE])
              /\ UNCHANGED mCopyState
         ELSE /\ Becomes(s, [s EXCEPT !.at = "data"])
              /\ mCopyState' = IF mCopyState.multiple
                                 THEN [mCopyState EXCEPT !.message = mCopyState.cur]
                                 ELSE [StartsMessage(mCopyState) EXCEPT
                                         !.message = mCopyState.cur + 1]
    /\ UNCHANGED <<serviceVars, stack, verdict, rv, locked, m_stopped, unfinished, copied,
                   deleted>>

\* CopyData, by OnDataAvailable; the source may fail too, with any part written.
CopyData(s) ==
    /\ stack = <<>> /\ s.at = "data"
    /\ \E written \in Works("write"), read \in Works("read") :
         /\ Becomes(s, [s EXCEPT !.at = "stop", !.ok = written /\ read /\ mCopyState # NoState])
         /\ IF mCopyState = NoState
              THEN UNCHANGED <<mCopyState, unfinished>>
              ELSE /\ mCopyState' = [mCopyState EXCEPT !.writeFailed = @ \/ ~ written]
                   /\ unfinished' = s.n
    /\ UNCHANGED <<serviceVars, stack, verdict, rv, locked, m_stopped, copied, deleted>>

\* Stop cancels the streams of the window's load group, which a mailbox url
\* leaves after its first message.
UserStops ==
    /\ stack = <<>> /\ "stop" \in Faults
    /\ streams # {} /\ ~ m_stopped
    /\ m_stopped' = TRUE
    /\ streams' = {IF s.n = 1 \/ Job[s.src].source # "mailbox"
                     THEN [s EXCEPT !.at = "stop", !.ok = FALSE] ELSE s : s \in streams}
    /\ UNCHANGED <<serviceVars, stack, verdict, rv, mCopyState, locked, unfinished, copied,
                   deleted>>

MoreInUrl(s) == Job[s.src].source = "mailbox" /\ s.n < Job[s.src].total

\* OnStopRequest.  nsMailboxProtocol ends the copy of one message and goes on
\* with the next; or the url is done and the listener's own OnStopRequest
\* ends the copy.  EndMove follows EndCopy in a move.
StreamStops(s) ==
    /\ stack = <<>> /\ s.at = "stop"
    /\ streams' = streams \ {s}
    /\ stack' = <<EndCopyCall(s, s.ok)>>
                \o (IF Job[s.src].move THEN <<EndMoveCall(s, s.ok)>> ELSE <<>>)
                \o (IF MoreInUrl(s) /\ s.ok /\ ~ m_stopped THEN <<NextMessageCall(s)>>
                                                           ELSE <<>>)
    /\ UNCHANGED <<serviceVars, verdict, rv, mCopyState, locked, m_stopped, unfinished, copied,
                   deleted>>

\* The protocol starts the next message, then reads it.
NextMessage ==
    /\ Running("NextMessage")
    /\ \E opened \in Works("open"), reopened \in Works("reopen") :
         /\ mCopyState' = IF mCopyState = NoState THEN NoState
                          ELSE IF opened THEN StartsMessage(mCopyState)
                          ELSE [mCopyState EXCEPT !.open = FALSE]
         /\ streams' = IF reopened THEN streams \cup {Stream(Frame.id, Frame.src, Frame.n + 1)}
                                   ELSE streams
    /\ Returns("ok")
    /\ UNCHANGED <<serviceVars, locked, m_stopped, unfinished, copied, deleted>>

-----------------------------------------------------------------------------
(* EndCopy and EndMove, by the listener's EndCopy.  Both do nothing when   *)
(* there is no copy state; then OwnState is violated before they are       *)
(* called.                                                                 *)

Failed == ~ Frame.ok \/ mCopyState.writeFailed

\* fault: what was written stays
DiscardNothing == UNCHANGED unfinished

\* The file is truncated, if it is open and the message's key is known.
DiscardNewMessage ==
    unfinished' = IF mCopyState.open /\ mCopyState.dstKey THEN 0 ELSE unfinished

\* Messages copied before are in place: a copy reports success.
EndCopyFails ==
    /\ Running("EndCopy") /\ mCopyState # NoState /\ Failed
    /\ DiscardNewMessage
    /\ IF mCopyState.isMove
         THEN Returns("ok") /\ UNCHANGED mCopyState
         ELSE OnCopyCompleted(mCopyState.id, mCopyState.src, "ok",
                              Cons(ReturnCall("ok"), Beneath))
    /\ UNCHANGED <<serviceVars, streams, locked, m_stopped, copied, deleted>>

\* fault: the last message is not waited for
AllStarted == mCopyState.cur + 1 >= mCopyState.total

multipleCopiesFinished == mCopyState.cur >= mCopyState.total

\* The message is finished; then the next one, or the end of a copy.
EndCopySucceeds ==
    /\ Running("EndCopy") /\ mCopyState # NoState /\ ~ Failed
    /\ copied' = [copied EXCEPT ![mCopyState.id] =
                    Append(@, [header |-> mCopyState.message, body |-> Frame.n])]
    /\ unfinished' = 0
    /\ LET finished == [mCopyState EXCEPT !.dstKey = TRUE]
       IN  IF ~ multipleCopiesFinished /\ ~ mCopyState.multiple
             THEN /\ \E up \in Works("next") :
                        /\ streams' = IF up THEN streams \cup {Stream(mCopyState.id, mCopyState.src,
                                                                    mCopyState.cur + 1)}
                                            ELSE streams
                        /\ Returns(IF up THEN "ok" ELSE "failed")
                  /\ mCopyState' = finished
             ELSE /\ IF ~ mCopyState.isMove /\ multipleCopiesFinished
                       THEN OnCopyCompleted(mCopyState.id, mCopyState.src, "ok",
                                            Cons(ReturnCall("ok"), Beneath))
                       ELSE Returns("ok") /\ mCopyState' = finished
                  /\ UNCHANGED streams
    /\ UNCHANGED <<serviceVars, locked, m_stopped, deleted>>

EndMoveFails ==
    /\ Running("EndMove") /\ mCopyState # NoState /\ Failed
    /\ OnCopyCompleted(mCopyState.id, mCopyState.src, "ok", Cons(ReturnCall("ok"), Beneath))
    /\ UNCHANGED <<serviceVars, streams, locked, m_stopped, unfinished, copied, deleted>>

\* Once all messages are there those in the source are deleted.
EndMoveSucceeds ==
    /\ Running("EndMove") /\ mCopyState # NoState /\ ~ Failed
    /\ IF multipleCopiesFinished
         THEN \E gone \in Works("delete") :
                /\ deleted' = IF gone THEN deleted \cup {mCopyState.id} ELSE deleted
                /\ OnCopyCompleted(mCopyState.id, mCopyState.src, IF gone THEN "ok" ELSE "failed",
                                   Cons(ReturnCall("ok"), Beneath))
         ELSE Returns("ok") /\ UNCHANGED <<mCopyState, deleted>>
    /\ UNCHANGED <<serviceVars, streams, locked, m_stopped, unfinished, copied>>

-----------------------------------------------------------------------------
\* Compaction, a download or a parse takes the folder, or gives it back.
OthersLock ==
    /\ stack = <<>> /\ "locked" \in Faults /\ mCopyState = NoState
    /\ locked' = ~ locked
    /\ UNCHANGED <<serviceVars, stack, verdict, rv, mCopyState, streams, m_stopped, unfinished,
                   copied, deleted>>

\* The service's own steps; DoNextCopy that starts nothing returns NS_OK.
ServiceSteps ==
    /\ Code
    /\ rv' = IF DoNextCopyIdle THEN "ok" ELSE rv
    /\ UNCHANGED folderVars

\* A draft is replaced while other copies are queued, or it is not.
ClientAsks(o) ==
    /\ ClientCopies(o)
    /\ QuietDrafts => \A r \in ToSet(m_copyRequests) \cup {o} :
                         Job[r.src].source = "file" /\ Job[r.src].move => m_copyRequests = <<>>
    /\ UNCHANGED <<rv, folderVars>>

LocalInit ==
    /\ Init
    /\ mCopyState = NoState
    /\ streams = {}
    /\ rv = "ok"
    /\ locked = FALSE
    /\ m_stopped = FALSE
    /\ unfinished = 0
    /\ copied = [id \in Ids |-> <<>>]
    /\ deleted = {}

FolderSteps ==
    \/ CopyMessagesRefused \/ CopyBusy \/ CopyMessagesStarts
    \/ CopyFileMessage \/ CopyFileMessageReports \/ ReturnsWith
    \/ EndCopyFails \/ EndCopySucceeds \/ EndMoveFails \/ EndMoveSucceeds
    \/ NextMessage

StreamSteps == \E s \in streams : BeginCopy(s) \/ CopyData(s) \/ StreamStops(s)

LocalNext ==
    \/ \E o \in Offers : ClientAsks(o)
    \/ ServiceSteps
    \/ FolderSteps
    \/ StreamSteps
    \/ UserStops
    \/ OthersLock

\* Calls return, and the event loop serves every stream.
LocalSpec == /\ LocalInit /\ [][LocalNext]_localVars
             /\ WF_localVars(ServiceSteps) /\ WF_localVars(FolderSteps)
             /\ WF_localVars(StreamSteps)
-----------------------------------------------------------------------------
(* Properties.                                                             *)

\* The types of the folder's variables; m_curCopyIndex never passes the total,
\* which would index m_messages beyond its end.
LocalTypeOK ==
    /\ mCopyState # NoState => mCopyState \in StateType /\ mCopyState.cur <= mCopyState.total
    /\ \A s \in streams : /\ DOMAIN s = {"id", "src", "n", "at", "ok"}
                          /\ s.id \in Ids /\ s.src \in Srcs /\ s.n \in 1..Job[s.src].total
                          /\ s.at \in {"begin", "data", "stop"} /\ s.ok \in BOOLEAN
    /\ rv \in Results /\ locked \in BOOLEAN /\ m_stopped \in BOOLEAN
    /\ unfinished \in Nat /\ deleted \subseteq Ids
    /\ DOMAIN copied = Ids

\* A stream that runs writes into its own copy's state: nobody else's copy has
\* taken the folder over, and the state was not deleted under it.
OwnState == \A s \in streams : mCopyState # NoState /\ mCopyState.id = s.id

\* The protocol counts messages in the url, the folder in m_curCopyIndex, and
\* the header of a copied message comes from the one, its body from the other:
\* every message gets its own header, once, in order.
InStep == \A id \in Ids : \A k \in DOMAIN copied[id] :
             copied[id][k] = [header |-> k, body |-> k]

\* A move deletes its source messages only when all of them are in the folder.
DeletedOnlyIfCopied ==
    \A id \in deleted : \A i \in DOMAIN m_copyRequests :
       m_copyRequests[i].id = id => Len(copied[id]) = Job[m_copyRequests[i].src].total

FolderIdle == mCopyState = NoState /\ stack = <<>>

\* A copy that fails at its second message or a later one leaves no part of it
\* in the file, where the next message would be appended to it.
LaterTruncated == FolderIdle => unfinished <= 1

\* What the copy service relies on: each copy the folder takes on is reported
\* to the service once, with nothing the folder does in between disturbing it.
IsServiceCall(f) == f.pc \in {"DoNextCopy", "Copy", "NotifyCompletion", "OnStopCopy"}
TheCopy == IF mCopyState = NoState THEN {}
           ELSE {[id |-> mCopyState.id, src |-> mCopyState.src, dst |-> d, place |-> d] : d \in Dsts}

\* The calls of the service are the innermost ones, above those of the folder.
ServiceCalls(s) == SubSeq(s, 1, Max({0} \cup {i \in DOMAIN s : IsServiceCall(s[i])}))

Contract == INSTANCE CopyService WITH stack <- ServiceCalls(stack), running <- TheCopy

KeepsContract == Contract!FairSpec
=============================================================================
