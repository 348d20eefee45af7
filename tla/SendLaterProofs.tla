--------------------------- MODULE SendLaterProofs ---------------------------
(***************************************************************************)
(* Proofs about the outbox, for any messages and any number of listeners:  *)
(* one message at a time, and none leaves the outbox unsent or is sent     *)
(* again.                                                                  *)
(*                                                                         *)
(* OneAtATime and OutboxExact need to know what the members mean between   *)
(* two calls: the message that is read or sent is mMessage, it is still in *)
(* the outbox and no longer in the enumerator, and what the enumerator     *)
(* holds is in the outbox.  A second OnStopCopy does no harm because the   *)
(* listener it reaches has forgotten the service, and no listener gets the *)
(* name of one that may still be told.                                     *)
(***************************************************************************)
EXTENDS SendLater, TLAPS

\* The run itself: its messages are in the outbox.
RunInv ==
    /\ mEnumerator \subseteq outbox
    /\ ~ mSendingMessages => mEnumerator = {}
    /\ streaming => mMessage \in outbox /\ mMessage \notin mEnumerator

\* Its message, wherever that one is, and those who may still be told of it.
StepInv ==
    /\ \A s \in sending : s.msg = mMessage /\ mMessage \in outbox /\ mMessage \notin mEnumerator
    /\ saving \cap mSendLater = {}
    /\ quit = "asked" => quits > 0

SendInv == SendTypeOK /\ OneAtATime /\ OutboxExact /\ RunInv /\ StepInv

-----------------------------------------------------------------------------
(* The run moves on.                                                         *)

\* The types of a run.
RunType ==
    /\ db \in {"closed", "open", "parsing"}
    /\ mSendingMessages \in BOOLEAN
    /\ mEnumerator \subseteq Messages /\ mMessage \in Messages \cup {NoMessage}
    /\ streaming \in BOOLEAN
    /\ mShutdownListener \in BOOLEAN /\ quit \in {"no", "asked", "waiting", "over"}

\* Beginning or ending, a run is left with messages of the outbox, and with one
\* of them being read, or none.
LEMMA RunMoves ==
    ASSUME SendTypeOK, NEW rest, rest \subseteq outbox,
           \/ StartNextMailFileSend(rest)
           \/ CannotStart(rest)
           \/ NeverStarts(rest) /\ ~ streaming
    PROVE  /\ RunType'
           /\ mEnumerator' \subseteq rest
           /\ ~ mSendingMessages' => mEnumerator' = {}
           /\ streaming' => /\ mSendingMessages' /\ mMessage' \in outbox
                            /\ mMessage' \notin mEnumerator'
           /\ quit' = "asked" => quit = "asked"
<1>0. rest \subseteq Messages
  BY DEF SendTypeOK
<1>1. CASE rest = {} /\ EndSendMessages /\ UNCHANGED mMessage
  BY <1>1 DEF EndSendMessages, RunType, SendTypeOK
<1>2. CASE \E m \in rest :
             /\ mMessage' = m
             /\ mEnumerator' = rest \ {m}
             /\ mSendingMessages' = TRUE
             /\ streaming' = TRUE
             /\ db' = "open"
             /\ UNCHANGED <<mShutdownListener, quit>>
  BY <1>0, <1>2 DEF RunType, SendTypeOK
<1>3. CASE CannotStart(rest)
  BY <1>0, <1>3 DEF CannotStart, EndSendMessages, RunType, SendTypeOK
<1>4. CASE NeverStarts(rest) /\ ~ streaming
  BY <1>0, <1>4 DEF NeverStarts, RunType, SendTypeOK
<1>. QED  BY <1>1, <1>2, <1>3, <1>4 DEF StartNextMailFileSend

\* Whoever ends a step of a message, with nothing else in progress, leaves the
\* invariant of the run.
LEMMA GoesOnMoves ==
    ASSUME SendTypeOK, RunInv, GoesOn
    PROVE  /\ RunType'
           /\ mEnumerator' \subseteq outbox
           /\ ~ mSendingMessages' => mEnumerator' = {}
           /\ streaming' => /\ mSendingMessages' /\ mMessage' \in outbox
                            /\ mMessage' \notin mEnumerator'
           /\ quit' = "asked" => quit = "asked"
<1>1. mEnumerator \subseteq outbox
  BY DEF RunInv
<1>. QED  BY <1>1, RunMoves DEF GoesOn

\* Asking to send begins a run, or a reparse, or nothing.
LEMMA AskMoves ==
    ASSUME SendTypeOK, OneAtATime, RunInv, NEW user \in BOOLEAN, InternalSendMessages(user)
    PROVE  /\ RunType' /\ mReparseListener' \in BOOLEAN /\ mUserInitiated' \in BOOLEAN
           /\ mEnumerator' \subseteq outbox
           /\ ~ mSendingMessages' => mEnumerator' = {}
           /\ streaming' => /\ mSendingMessages' /\ mMessage' \in outbox
                            /\ mMessage' \notin mEnumerator'
           /\ quit' = "asked" => quit = "asked"
           /\ mSendingMessages => UNCHANGED run
<1>1. CASE ~ mSendingMessages /\ Begins(user) /\ UNCHANGED mReparseListener
  <2>1. ToSend(user) \subseteq outbox
    BY DEF ToSend
  <2>2. ~ streaming
    BY <1>1 DEF OneAtATime
  <2>. QED  BY <1>1, <2>1, <2>2, RunMoves DEF Begins, SendTypeOK
<1>2. CASE ~ mSendingMessages /\ Reparses(user)
  BY <1>2 DEF Reparses, RunType, SendTypeOK, RunInv, OneAtATime
<1>3. CASE UNCHANGED <<run, parse>>
  BY <1>3 DEF run, parse, RunType, SendTypeOK, RunInv, OneAtATime
<1>. QED  BY <1>1, <1>2, <1>3 DEF InternalSendMessages

-----------------------------------------------------------------------------
(* Every step keeps the invariant.                                           *)

\* While nothing is in progress but what an ask may begin.
LEMMA AskKeeps ==
    ASSUME SendInv, NEW user \in BOOLEAN, InternalSendMessages(user),
           UNCHANGED <<folder, step, quits>>,
           mTimerSet' \in BOOLEAN, armed' \in BOOLEAN, armed' => mTimerSet',
           mTimerSet' => armed' \/ quits > 0, asks' \in 0..MaxAsks
    PROVE  SendInv'
<1>. USE DEF SendInv
<1>1. /\ RunType' /\ mReparseListener' \in BOOLEAN /\ mUserInitiated' \in BOOLEAN
      /\ mEnumerator' \subseteq outbox
      /\ ~ mSendingMessages' => mEnumerator' = {}
      /\ streaming' => /\ mSendingMessages' /\ mMessage' \in outbox
                       /\ mMessage' \notin mEnumerator'
      /\ quit' = "asked" => quit = "asked"
      /\ mSendingMessages => UNCHANGED run
  BY AskMoves
<1>2. SendTypeOK'
  BY <1>1 DEF SendTypeOK, RunType, folder, step
<1>3. CASE mSendingMessages
  BY <1>1, <1>2, <1>3 DEF run, folder, step, OneAtATime, OutboxExact, RunInv, StepInv
<1>4. CASE ~ mSendingMessages
  <2>1. sending = {} /\ copying = {} /\ ~ streaming
    BY <1>4 DEF OneAtATime
  <2>. QED  BY <1>1, <1>2, <2>1 DEF folder, step, OneAtATime, OutboxExact, RunInv, StepInv
<1>. QED  BY <1>3, <1>4 DEF SendTypeOK

\* The listener that waited for it is told: the next message, if any.
LEMMA GoesOnKeeps ==
    ASSUME SendInv, GoesOn, UNCHANGED <<folder, parse, timer, bounds>>,
           sending' = {}, copying' = {}, mSendLater' = {},
           saving' \subseteq Listeners
    PROVE  SendInv'
<1>. USE DEF SendInv
<1>1. /\ RunType'
      /\ mEnumerator' \subseteq outbox
      /\ ~ mSendingMessages' => mEnumerator' = {}
      /\ streaming' => /\ mSendingMessages' /\ mMessage' \in outbox
                       /\ mMessage' \notin mEnumerator'
      /\ quit' = "asked" => quit = "asked"
  BY GoesOnMoves
<1>2. SendTypeOK'
  BY <1>1 DEF SendTypeOK, RunType, folder, parse, timer, bounds
<1>3. OneAtATime'
  BY <1>1 DEF OneAtATime
<1>4. OutboxExact' /\ RunInv' /\ StepInv'
  BY <1>1 DEF folder, bounds, OutboxExact, RunInv, StepInv
<1>. QED  BY <1>2, <1>3, <1>4

LEMMA StreamEndsKeeps == SendInv /\ StreamEnds => SendInv'
<1>. SUFFICES ASSUME SendInv, StreamEnds  PROVE SendInv'
  OBVIOUS
<1>. USE DEF SendInv
<1>1. PICK new \in Listeners \ InUse :
         /\ sending' = sending \cup {[n |-> new, msg |-> mMessage]}
         /\ mSendLater' = mSendLater \cup {new}
  <2>1. InUse \subseteq Listeners
    BY DEF InUse, SendTypeOK
  <2>2. Listeners \ InUse # {}
    BY <2>1 DEF StreamEnds
  <2>. QED  BY <2>2 DEF StreamEnds
<1>2. streaming /\ sending = {} /\ copying = {} /\ mSendLater = {} /\ mSendingMessages
  BY DEF StreamEnds, OneAtATime
<1>3. UNCHANGED <<mSendingMessages, mEnumerator, mMessage, db, mShutdownListener, quit,
                  copying, saving, folder, parse, timer, bounds>> /\ streaming' = FALSE
  BY DEF StreamEnds
<1>4. sending' = {[n |-> new, msg |-> mMessage]} /\ mSendLater' = {new}
  BY <1>1, <1>2
<1>5. SendTypeOK'
  <2>1. sending' \subseteq [n : Listeners, msg : Messages \cup {NoMessage}]
    BY <1>4 DEF SendTypeOK
  <2>2. mSendLater' \subseteq Listeners
    BY <1>4
  <2>. QED  BY <1>3, <2>1, <2>2 DEF SendTypeOK, folder, parse, timer, bounds
<1>6. OneAtATime'
  BY <1>2, <1>3, <1>4 DEF OneAtATime
<1>7. OutboxExact' /\ RunInv'
  BY <1>3 DEF folder, OutboxExact, RunInv
<1>8. StepInv'
  <2>1. new \notin saving
    BY <1>1 DEF InUse
  <2>. QED  BY <1>2, <1>3, <1>4, <2>1 DEF folder, bounds, RunInv, StepInv
<1>. QED  BY <1>5, <1>6, <1>7, <1>8

LEMMA SendFailsKeeps == \A s \in sending : SendInv /\ SendFails(s) => SendInv'
<1>. SUFFICES ASSUME NEW s \in sending, SendInv, SendFails(s)  PROVE SendInv'
  OBVIOUS
<1>. USE DEF SendInv
<1>1. sending = {s} /\ copying = {} /\ mSendLater = {s.n}
  BY DEF OneAtATime
<1>2. GoesOn /\ UNCHANGED <<copying, saving, folder, parse, timer, bounds>>
  BY <1>1 DEF SendFails
<1>3. sending' = {} /\ mSendLater' = {} /\ copying' = {} /\ saving' \subseteq Listeners
  BY <1>1, <1>2 DEF SendFails, SendTypeOK
<1>. QED  BY <1>2, <1>3, GoesOnKeeps

LEMMA SendSucceedsKeeps == \A s \in sending : SendInv /\ SendSucceeds(s) => SendInv'
<1>. SUFFICES ASSUME NEW s \in sending, SendInv, SendSucceeds(s)  PROVE SendInv'
  OBVIOUS
<1>. USE DEF SendInv
<1>1. /\ sending = {s} /\ copying = {} /\ mSendLater = {s.n} /\ ~ streaming
      /\ mSendingMessages
  BY DEF OneAtATime
<1>2. s.msg = mMessage /\ mMessage \in outbox /\ mMessage \notin mEnumerator
  BY DEF StepInv
<1>3. /\ sending' = {} /\ copying' = {s.n} /\ s.n \in Listeners
      /\ UNCHANGED <<added, mSendingMessages, mEnumerator, streaming, db, mShutdownListener, quit,
                     parse, saving, mSendLater, timer, bounds>>
  BY <1>1 DEF SendSucceeds, SendTypeOK
<1>4. CASE /\ sent' = [sent EXCEPT ![mMessage] = @ + 1]
           /\ outbox' = outbox \ {mMessage}
           /\ mMessage' = NoMessage
  <2>1. mMessage \in Messages /\ outbox \subseteq Messages
    BY <1>2 DEF SendTypeOK
  <2>2. SendTypeOK'
    BY <1>3, <1>4, <2>1 DEF SendTypeOK, parse, timer, bounds
  <2>3. OneAtATime'
    BY <1>1, <1>3 DEF OneAtATime
  <2>4. OutboxExact'
    BY <1>2, <1>3, <1>4, <2>1 DEF OutboxExact, SendTypeOK
  <2>5. RunInv' /\ StepInv'
    BY <1>1, <1>2, <1>3, <1>4 DEF RunInv, StepInv, bounds
  <2>. QED  BY <2>2, <2>3, <2>4, <2>5
<1>5. CASE UNCHANGED <<sent, outbox, mMessage>>
  <2>1. SendTypeOK'
    BY <1>3, <1>5 DEF SendTypeOK, parse, timer, bounds
  <2>2. OneAtATime'
    BY <1>1, <1>3 DEF OneAtATime
  <2>3. OutboxExact' /\ RunInv' /\ StepInv'
    BY <1>1, <1>3, <1>5 DEF OutboxExact, RunInv, StepInv, bounds
  <2>. QED  BY <2>1, <2>2, <2>3
<1>. QED  BY <1>2, <1>4, <1>5 DEF SendSucceeds

\* The first OnStopCopy for a message.
LEMMA CopyStopsKeeps == \A n \in copying : SendInv /\ CopyStops(n) => SendInv'
<1>. SUFFICES ASSUME NEW n \in copying, SendInv, CopyStops(n)  PROVE SendInv'
  OBVIOUS
<1>. USE DEF SendInv
<1>1. sending = {} /\ copying = {n} /\ mSendLater = {n}
  BY DEF OneAtATime
<1>2. GoesOn /\ UNCHANGED <<folder, parse, timer, bounds>>
  BY <1>1 DEF CopyStops, OnStopCopy
<1>3. sending' = {} /\ copying' = {} /\ mSendLater' = {} /\ saving' \subseteq Listeners
  BY <1>1 DEF CopyStops, OnStopCopy, SendTypeOK
<1>. QED  BY <1>2, <1>3, GoesOnKeeps

\* The second one reaches a listener that has forgotten the service.
LEMMA SavedLocallyKeeps == \A n \in saving : SendInv /\ SavedLocally(n) => SendInv'
<1>. SUFFICES ASSUME NEW n \in saving, SendInv, SavedLocally(n)  PROVE SendInv'
  OBVIOUS
<1>. USE DEF SendInv
<1>1. n \notin mSendLater
  BY DEF StepInv
<1>2. /\ UNCHANGED <<run, sending, copying, mSendLater, folder, parse, timer, bounds>>
      /\ saving' \subseteq saving
  BY <1>1 DEF SavedLocally, OnStopCopy
<1>3. SendTypeOK'
  BY <1>2 DEF SendTypeOK, run, folder, parse, timer, bounds
<1>4. OneAtATime' /\ OutboxExact' /\ RunInv' /\ StepInv'
  BY <1>2 DEF OneAtATime, OutboxExact, RunInv, StepInv, run, folder, bounds
<1>. QED  BY <1>3, <1>4

LEMMA SendInvInit == Init => SendInv
<1>. SUFFICES ASSUME Init  PROVE SendInv
  OBVIOUS
<1>1. SendTypeOK
  <2>1. sending \subseteq [n : Listeners, msg : Messages \cup {NoMessage}]
    BY DEF Init
  <2>2. sent \in [Messages -> Nat]
    BY DEF Init
  <2>3. outbox \subseteq added /\ added \subseteq Messages
    BY DEF Init
  <2>4. asks \in 0..MaxAsks /\ quits \in 0..MaxQuits
    BY SendLaterAssumption DEF Init
  <2>. QED  BY <2>1, <2>2, <2>3, <2>4 DEF Init, SendTypeOK
<1>2. OneAtATime /\ OutboxExact /\ RunInv /\ StepInv
  BY DEF Init, OneAtATime, OutboxExact, RunInv, StepInv
<1>. QED  BY <1>1, <1>2 DEF SendInv

LEMMA SendInvStep == SendInv /\ [Next]_vars => SendInv'
<1>. SUFFICES ASSUME SendInv, [Next]_vars  PROVE SendInv'
  OBVIOUS
<1>0. MaxAsks \in Nat /\ MaxQuits \in Nat
  BY SendLaterAssumption
<1>1. CASE SendUnsentMessages
  <2>1. asks' \in 0..MaxAsks
    BY <1>0, <1>1 DEF SendUnsentMessages, SendInv, SendTypeOK
  <2>2. InternalSendMessages(TRUE) /\ UNCHANGED <<folder, step, quits>> /\ UNCHANGED timer
    BY <1>1 DEF SendUnsentMessages
  <2>. QED  BY <2>1, <2>2, AskKeeps DEF SendInv, SendTypeOK, timer
<1>2. CASE HasUnsentMessages
  <2>1. /\ UNCHANGED <<mSendingMessages, mEnumerator, mMessage, streaming, mShutdownListener,
                       quit, mUserInitiated, folder, step, timer, bounds>>
        /\ db' \in {"open", "parsing"} /\ mReparseListener' \in {FALSE, mReparseListener}
    BY <1>2 DEF HasUnsentMessages
  <2>2. SendTypeOK'
    BY <2>1 DEF SendInv, SendTypeOK, folder, step, timer, bounds
  <2>3. OneAtATime' /\ OutboxExact' /\ RunInv' /\ StepInv'
    BY <2>1 DEF SendInv, OneAtATime, OutboxExact, RunInv, StepInv, folder, step, bounds
  <2>. QED  BY <2>2, <2>3 DEF SendInv
<1>3. CASE ParseEnds
  <2>1. CASE mReparseListener /\ ~ mSendingMessages /\ Begins(mUserInitiated)
    <3>1. sending = {} /\ copying = {} /\ ~ streaming
      BY <2>1 DEF SendInv, OneAtATime
    <3>2. mUserInitiated \in BOOLEAN /\ ToSend(mUserInitiated) \subseteq outbox
      BY DEF SendInv, SendTypeOK, ToSend
    <3>3. /\ RunType'
          /\ mEnumerator' \subseteq outbox
          /\ ~ mSendingMessages' => mEnumerator' = {}
          /\ streaming' => /\ mSendingMessages' /\ mMessage' \in outbox
                           /\ mMessage' \notin mEnumerator'
          /\ quit' = "asked" => quit = "asked"
      BY <2>1, <3>1, <3>2, RunMoves DEF SendInv, Begins
    <3>4. /\ UNCHANGED <<folder, step, timer, bounds>> /\ mReparseListener' = FALSE
          /\ mUserInitiated' = mUserInitiated
      BY <1>3, <2>1 DEF ParseEnds, Begins
    <3>5. SendTypeOK'
      BY <3>3, <3>4 DEF SendInv, SendTypeOK, RunType, folder, step, timer, bounds
    <3>6. OneAtATime' /\ OutboxExact' /\ RunInv' /\ StepInv'
      BY <3>1, <3>3, <3>4
      DEF SendInv, OneAtATime, OutboxExact, RunInv, StepInv, folder, step, bounds
    <3>. QED  BY <3>5, <3>6 DEF SendInv
  <2>2. CASE /\ db' = "open"
             /\ UNCHANGED <<mSendingMessages, mEnumerator, mMessage, streaming,
                            mShutdownListener, quit, mUserInitiated>>
    <3>1. UNCHANGED <<folder, step, timer, bounds>> /\ mReparseListener' = FALSE
      BY <1>3 DEF ParseEnds
    <3>2. SendTypeOK'
      BY <2>2, <3>1 DEF SendInv, SendTypeOK, folder, step, timer, bounds
    <3>3. OneAtATime' /\ OutboxExact' /\ RunInv' /\ StepInv'
      BY <2>2, <3>1 DEF SendInv, OneAtATime, OutboxExact, RunInv, StepInv, folder, step, bounds
    <3>. QED  BY <3>2, <3>3 DEF SendInv
  <2>. QED  BY <1>3, <2>1, <2>2 DEF ParseEnds
<1>4. CASE StreamFails
  <2>1. sending = {} /\ copying = {} /\ mSendLater = {}
    BY <1>4 DEF StreamFails, SendInv, OneAtATime
  <2>2. GoesOn /\ UNCHANGED <<folder, parse, step, timer, bounds>>
    BY <1>4 DEF StreamFails
  <2>3. sending' = {} /\ copying' = {} /\ mSendLater' = {} /\ saving' \subseteq Listeners
    BY <2>1, <2>2 DEF step, SendInv, SendTypeOK
  <2>. QED  BY <2>2, <2>3, GoesOnKeeps
<1>5. CASE StreamEnds
  BY <1>5, StreamEndsKeeps
<1>6. CASE \E s \in sending : SendFails(s) \/ SendSucceeds(s)
  BY <1>6, SendFailsKeeps, SendSucceedsKeeps
<1>7. CASE \E n \in copying : CopyStops(n)
  BY <1>7, CopyStopsKeeps
<1>8. CASE \E n \in saving : SavedLocally(n)
  BY <1>8, SavedLocallyKeeps
<1>9. CASE \E m \in Messages : ItemAdded(m)
  <2>1. PICK m \in Messages : ItemAdded(m)
    BY <1>9
  <2>2. SendTypeOK'
    BY <2>1 DEF ItemAdded, SendInv, SendTypeOK, run, parse, step, bounds
  <2>3. OneAtATime'
    BY <2>1 DEF ItemAdded, SendInv, OneAtATime, run, step
  <2>4. OutboxExact'
    BY <2>1 DEF ItemAdded, SendInv, SendTypeOK, OutboxExact
  <2>5. RunInv' /\ StepInv'
    BY <2>1 DEF ItemAdded, SendInv, RunInv, StepInv, run, step, bounds
  <2>. QED  BY <2>2, <2>3, <2>4, <2>5 DEF SendInv
<1>10. CASE TimerFires
  <2>1. InternalSendMessages(FALSE) /\ UNCHANGED <<folder, step, quits>> /\ UNCHANGED asks
    BY <1>10 DEF TimerFires, bounds
  <2>2. armed' = FALSE /\ mTimerSet' = FALSE
    BY <1>10 DEF TimerFires
  <2>3. asks' \in 0..MaxAsks
    BY <2>1 DEF SendInv, SendTypeOK
  <2>. QED  BY <2>1, <2>2, <2>3, AskKeeps
<1>11. CASE QuitRequested
  <2>1. SendTypeOK'
    BY <1>0, <1>11 DEF QuitRequested, SendInv, SendTypeOK, folder, parse, step, timer
  <2>2. OneAtATime' /\ OutboxExact' /\ RunInv'
    BY <1>11 DEF QuitRequested, SendInv, OneAtATime, OutboxExact, RunInv, folder, step
  <2>3. StepInv'
    BY <1>0, <1>11 DEF QuitRequested, SendInv, SendTypeOK, StepInv, folder, step
  <2>. QED  BY <2>1, <2>2, <2>3 DEF SendInv
<1>12. CASE DoShutdownTask
  <2>1. SendTypeOK'
    BY <1>12 DEF DoShutdownTask, SendInv, SendTypeOK, StepInv, folder, parse, step, bounds
  <2>2. OneAtATime' /\ OutboxExact' /\ RunInv' /\ StepInv'
    BY <1>12
    DEF DoShutdownTask, SendInv, SendTypeOK, OneAtATime, OutboxExact, RunInv, StepInv, folder,
        step, bounds
  <2>. QED  BY <2>1, <2>2 DEF SendInv
<1>13. CASE QuitRefused
  <2>1. SendTypeOK'
    BY <1>13 DEF QuitRefused, SendInv, SendTypeOK, folder, parse, step, timer, bounds
  <2>2. OneAtATime' /\ OutboxExact' /\ RunInv' /\ StepInv'
    BY <1>13
    DEF QuitRefused, SendInv, OneAtATime, OutboxExact, RunInv, StepInv, folder, step, bounds
  <2>. QED  BY <2>1, <2>2 DEF SendInv
<1>14. CASE UNCHANGED vars
  BY <1>14 DEF vars, folder, run, parse, step, timer, bounds, SendInv, SendTypeOK, OneAtATime,
               OutboxExact, RunInv, StepInv
<1>. QED  BY <1>1, <1>2, <1>3, <1>4, <1>5, <1>6, <1>7, <1>8, <1>9, <1>10, <1>11, <1>12, <1>13,
             <1>14 DEF Next

LEMMA SendInvAlways == Spec => []SendInv
  BY SendInvInit, SendInvStep, PTL DEF Spec

-----------------------------------------------------------------------------
(* The theorems.                                                             *)

\* Every variable keeps its shape, and until the program was asked to quit the
\* timer runs exactly while mTimerSet says so (OnItemAdded, Observe).
THEOREM SendTypeCorrect == Spec => []SendTypeOK
<1>1. SendInv => SendTypeOK
  BY DEF SendInv
<1>. QED  BY <1>1, SendInvAlways, PTL

\* Whoever asks to send, and however often the end of a copy is reported, one
\* message is read, sent or copied at a time (InternalSendMessages,
\* SendOperationListener::OnStopCopy).
THEOREM OneSendAtATime == Spec => []OneAtATime
<1>1. SendInv => OneAtATime
  BY DEF SendInv
<1>. QED  BY <1>1, SendInvAlways, PTL

\* DeleteCurrentMessage, which deletes whatever mMessage is when it is called,
\* deletes the message that was sent, once, and no other one.
THEOREM OutboxIsExact == Spec => []OutboxExact
<1>1. SendInv => OutboxExact
  BY DEF SendInv
<1>. QED  BY <1>1, SendInvAlways, PTL
=============================================================================
