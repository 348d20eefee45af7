------------------------------ MODULE SendLater ------------------------------
(***************************************************************************)
(* The outbox: mailnews/compose/src/nsMsgSendLater.cpp sends the messages  *)
(* of the unsent folder one after the other, when the user asks for it and,*)
(* in the background, a second after a message has been added.             *)
(*                                                                         *)
(* A run takes the messages there are, and for each of them streams it     *)
(* into a file, has nsMsgComposeAndSend send that and store a copy, and    *)
(* goes on when the copy has been reported.  What the run is at is kept in *)
(* members (mMessage, mEnumerator), the calls that come back find them     *)
(* there.  Each send has a listener of its own, which forgets the service  *)
(* (mSendLater) when it has been told what it waited for.                  *)
(***************************************************************************)
EXTENDS Integers, FiniteSets

CONSTANTS
    Messages,
    Queued,      \* those flagged as Queued, which only the user sends
    FirstStarts, \* whether the first message of a run can always be begun
    NoMessage,
    Listeners,   \* bound: the SendOperationListeners there can be at a time
    MaxAsks,     \* bound: how often the user asks to send
    MaxQuits     \* bound: how often the user quits, and is kept from it

ASSUME SendLaterAssumption ==
    /\ IsFiniteSet(Messages) /\ Queued \subseteq Messages /\ NoMessage \notin Messages
    /\ FirstStarts \in BOOLEAN /\ MaxAsks \in Nat /\ MaxQuits \in Nat

VARIABLES
    outbox, added,     \* the messages of the unsent folder, and those ever put there
    db,                \* the folder's mDatabase: closed, open, or being rebuilt
    mReparseListener,  \* whether the folder will tell the service that it is rebuilt
    mUserInitiated,    \* who wanted the run that waits for that
    mSendingMessages,
    mEnumerator,       \* the messages of the run that are still to come
    mMessage,          \* the one it is at
    streaming,         \* whether that one is being read
    sending,           \* the messages that are being sent, with their listeners
    copying,           \* the listeners whose message is sent, OnStopCopy being still to come
    saving,            \* those for which it will come once more: the copy is saved locally
    mSendLater,        \* the listeners that have not forgotten the service
    mTimerSet, armed,  \* the flag, and the timer itself
    mShutdownListener, \* whether the shutdown service is to be told of the end
    quit,              \* what the shutdown service is at
    sent,              \* history: how often each message was sent and then deleted
    asks, quits        \* bounds

folder == <<outbox, added, sent>>
run == <<mSendingMessages, mEnumerator, mMessage, streaming, db, mShutdownListener, quit>>
parse == <<mReparseListener, mUserInitiated>>
step == <<sending, copying, saving, mSendLater>>
timer == <<mTimerSet, armed>>
bounds == <<asks, quits>>
vars == <<folder, run, parse, step, timer, bounds>>

-----------------------------------------------------------------------------
(* A run.                                                                    *)

\* fault: the shutdown service is not told
EndSendMessagesQuietly ==
    /\ mSendingMessages' = FALSE
    /\ mEnumerator' = {}
    /\ streaming' = FALSE
    /\ db' = "closed"
    /\ UNCHANGED <<mShutdownListener, quit>>

EndSendMessages ==
    /\ mSendingMessages' = FALSE
    /\ mEnumerator' = {}
    /\ streaming' = FALSE
    /\ db' = "closed"
    /\ mShutdownListener' = FALSE
    /\ quit' = IF mShutdownListener THEN "over" ELSE quit

\* One of the rest is taken up, or there is none.
StartNextMailFileSend(rest) ==
    \/ /\ rest = {}
       /\ EndSendMessages
       /\ UNCHANGED mMessage
    \/ \E m \in rest :
         /\ mMessage' = m
         /\ mEnumerator' = rest \ {m}
         /\ mSendingMessages' = TRUE
         /\ streaming' = TRUE
         /\ db' = "open"
         /\ UNCHANGED <<mShutdownListener, quit>>

\* No file, no service or no identity for it: the caller ends the run.
CannotStart(rest) ==
    /\ rest # {}
    /\ mMessage' \in rest \cup {mMessage}
    /\ EndSendMessages

GoesOn == StartNextMailFileSend(mEnumerator) \/ CannotStart(mEnumerator)

\* The messages a run is made of.
ToSend(user) == {m \in outbox : user \/ m \notin Queued}

\* Nobody ends the run when its first message cannot be started.
NeverStarts(rest) ==
    /\ ~ FirstStarts
    /\ \E m \in rest : mMessage' = m /\ mEnumerator' = rest \ {m}
    /\ mSendingMessages' = TRUE
    /\ db' = "open"
    /\ UNCHANGED <<streaming, mShutdownListener, quit>>

Begins(user) ==
    /\ mUserInitiated' = user
    /\ StartNextMailFileSend(ToSend(user)) \/ NeverStarts(ToSend(user))

\* The folder has to be rebuilt first, or is being rebuilt: it will call back.
Reparses(user) ==
    /\ mUserInitiated' = user
    /\ mReparseListener' = TRUE
    /\ db' = "parsing"
    /\ UNCHANGED <<mSendingMessages, mEnumerator, mMessage, streaming, mShutdownListener, quit>>

\* fault: a run is begun while there is one
InternalSendMessagesTwice(user) ==
    \/ db # "parsing" /\ Begins(user) /\ UNCHANGED mReparseListener
    \/ db # "open" /\ Reparses(user)
    \/ UNCHANGED <<run, parse>>

\* Refused while sending or offline.
InternalSendMessages(user) ==
    \/ ~ mSendingMessages /\ db # "parsing" /\ Begins(user) /\ UNCHANGED mReparseListener
    \/ ~ mSendingMessages /\ db # "open" /\ Reparses(user)
    \/ UNCHANGED <<run, parse>>

SendUnsentMessages ==
    /\ asks < MaxAsks
    /\ asks' = asks + 1
    /\ InternalSendMessages(TRUE)
    /\ UNCHANGED <<folder, step, timer, quits>>

\* It looks into the folder, and takes the place of the listener.
HasUnsentMessages ==
    /\ db # "open"
    /\ \/ db' = "parsing" /\ mReparseListener' = FALSE
       \/ db = "closed" /\ db' = "open" /\ UNCHANGED mReparseListener
    /\ UNCHANGED <<mSendingMessages, mEnumerator, mMessage, streaming, mShutdownListener, quit,
                   mUserInitiated, folder, step, timer, bounds>>

\* The folder's OnStopRunningUrl, which tells the listener.
ParseEnds ==
    /\ db = "parsing"
    /\ mReparseListener' = FALSE
    /\ \/ mReparseListener /\ ~ mSendingMessages /\ Begins(mUserInitiated)
       \/ /\ db' = "open"
          /\ UNCHANGED <<mSendingMessages, mEnumerator, mMessage, streaming, mShutdownListener,
                         quit, mUserInitiated>>
    /\ UNCHANGED <<folder, step, timer, bounds>>

-----------------------------------------------------------------------------
(* The steps of a message.                                                   *)

\* OnStopRequest: the message could not be read, or SendMessageFile refuses it.
StreamFails ==
    /\ streaming
    /\ GoesOn
    /\ UNCHANGED <<folder, parse, step, timer, bounds>>

InUse == {s.n : s \in sending} \cup copying \cup saving \cup mSendLater

\* OnStopRequest, CompleteMailFileSend.
StreamEnds ==
    /\ streaming
    /\ InUse # Listeners
    /\ streaming' = FALSE
    /\ LET new == CHOOSE n \in Listeners \ InUse : TRUE
       IN  /\ sending' = sending \cup {[n |-> new, msg |-> mMessage]}
           /\ mSendLater' = mSendLater \cup {new}
    /\ UNCHANGED <<mSendingMessages, mEnumerator, mMessage, db, mShutdownListener, quit,
                   copying, saving, folder, parse, timer, bounds>>

\* fault: a failed message ends what is done, not what is to be done
SendFailsQuietly(s) ==
    /\ s \in sending
    /\ sending' = sending \ {s}
    /\ mSendLater' = mSendLater \ {s.n}
    /\ UNCHANGED <<run, copying, saving, folder, parse, timer, bounds>>

\* OnSendStepFinished with a failure: no copy will be made.
SendFails(s) ==
    /\ s \in sending
    /\ sending' = sending \ {s}
    /\ IF s.n \in mSendLater THEN GoesOn ELSE UNCHANGED run
    /\ mSendLater' = mSendLater \ {s.n}
    /\ UNCHANGED <<copying, saving, folder, parse, timer, bounds>>

\* OnSendStepFinished: the message of the run, mMessage, is deleted; it stays
\* in the folder if that fails.
SendSucceeds(s) ==
    /\ s \in sending
    /\ sending' = sending \ {s}
    /\ copying' = copying \cup {s.n}
    /\ \/ /\ mMessage # NoMessage
          /\ sent' = [sent EXCEPT ![s.msg] = @ + 1]
          /\ outbox' = outbox \ {mMessage}
          /\ mMessage' = NoMessage
       \/ UNCHANGED <<sent, outbox, mMessage>>
    /\ UNCHANGED <<added, mSendingMessages, mEnumerator, streaming, db, mShutdownListener, quit,
                   parse, saving, mSendLater, timer, bounds>>

\* fault: the listener does not forget the service
OnStopCopyAgain(n) ==
    /\ IF n \in mSendLater THEN GoesOn ELSE UNCHANGED run
    /\ UNCHANGED mSendLater

\* SendOperationListener::OnStopCopy
OnStopCopy(n) ==
    /\ IF n \in mSendLater THEN GoesOn ELSE UNCHANGED run
    /\ mSendLater' = mSendLater \ {n}

\* NotifyListenerOnStopCopy: a copy that failed may be saved in the local
\* folders, without waiting for that.
CopyStops(n) ==
    /\ n \in copying
    /\ copying' = copying \ {n}
    /\ saving' = saving \/ saving' = saving \cup {n}
    /\ OnStopCopy(n)
    /\ UNCHANGED <<sending, folder, parse, timer, bounds>>

SavedLocally(n) ==
    /\ n \in saving
    /\ saving' = saving \ {n}
    /\ OnStopCopy(n)
    /\ UNCHANGED <<sending, copying, folder, parse, timer, bounds>>

-----------------------------------------------------------------------------
(* The background timer, and quitting.                                       *)

\* A message is put into the folder; OnItemAdded.
ItemAdded(m) ==
    /\ m \notin added
    /\ added' = added \cup {m}
    /\ outbox' = outbox \cup {m}
    /\ mTimerSet' = TRUE
    /\ armed' = (armed \/ ~ mTimerSet)
    /\ UNCHANGED <<sent, run, parse, step, bounds>>

\* Observe: a timer that fires during a run starts nothing.
TimerFires ==
    /\ armed
    /\ armed' = FALSE
    /\ mTimerSet' = FALSE
    /\ InternalSendMessages(FALSE)
    /\ UNCHANGED <<folder, step, bounds>>

\* nsMsgShutdownService asks who needs to run (GetNeedsToRunTask), opens its
\* dialog, and lets the tasks run from there.
QuitRequested ==
    /\ quit = "no" /\ mSendingMessages /\ quits < MaxQuits
    /\ quit' = "asked"
    /\ quits' = quits + 1
    /\ UNCHANGED <<mSendingMessages, mEnumerator, mMessage, streaming, db, mShutdownListener,
                   folder, parse, step, timer, asks>>

\* fault: the flag is reset, and the timer is not
DoShutdownTaskFlag ==
    /\ quit = "asked"
    /\ mTimerSet' = FALSE /\ UNCHANGED armed
    /\ quit' = IF mSendingMessages THEN "waiting" ELSE "over"
    /\ mShutdownListener' = mSendingMessages
    /\ UNCHANGED <<mSendingMessages, mEnumerator, mMessage, streaming, db, folder, parse, step,
                   bounds>>

\* The timer is cancelled, not its flag.
DoShutdownTask ==
    /\ quit = "asked"
    /\ armed' = FALSE /\ UNCHANGED mTimerSet
    /\ quit' = IF mSendingMessages THEN "waiting" ELSE "over"
    /\ mShutdownListener' = mSendingMessages
    /\ UNCHANGED <<mSendingMessages, mEnumerator, mMessage, streaming, db, folder, parse, step,
                   bounds>>

\* A window that is not to be closed keeps the program from quitting.
QuitRefused ==
    /\ quit = "over"
    /\ quit' = "no"
    /\ UNCHANGED <<mSendingMessages, mEnumerator, mMessage, streaming, db, mShutdownListener,
                   folder, parse, step, timer, bounds>>

-----------------------------------------------------------------------------
\* The program starts, with messages left from the last time.
Init ==
    /\ outbox \in SUBSET Messages /\ added = outbox
    /\ db = "closed" /\ mReparseListener = FALSE /\ mUserInitiated = FALSE
    /\ mSendingMessages = FALSE /\ mEnumerator = {} /\ mMessage = NoMessage /\ streaming = FALSE
    /\ sending = {} /\ copying = {} /\ saving = {} /\ mSendLater = {}
    /\ mTimerSet = FALSE /\ armed = FALSE
    /\ mShutdownListener = FALSE /\ quit = "no"
    /\ sent = [m \in Messages |-> 0]
    /\ asks = 0 /\ quits = 0

Next == \/ SendUnsentMessages \/ HasUnsentMessages \/ ParseEnds
        \/ StreamFails \/ StreamEnds
        \/ \E s \in sending : SendFails(s) \/ SendSucceeds(s)
        \/ \E n \in copying : CopyStops(n)
        \/ \E n \in saving : SavedLocally(n)
        \/ \E m \in Messages : ItemAdded(m)
        \/ TimerFires
        \/ QuitRequested \/ DoShutdownTask \/ QuitRefused

Spec == Init /\ [][Next]_vars

\* What is read, sent and copied comes to an end one way or the other; the
\* dialog of the shutdown service starts its tasks.
FairSpec == /\ Spec
            /\ WF_vars(StreamFails \/ StreamEnds)
            /\ WF_vars(\E s \in sending : SendFails(s) \/ SendSucceeds(s))
            /\ WF_vars(\E n \in copying : CopyStops(n))
            /\ WF_vars(DoShutdownTask)

-----------------------------------------------------------------------------
(* Properties.                                                               *)

\* Every variable has its shape; the timer runs while its flag says so, and only
\* then, until the shutdown service has cancelled it once.
SendTypeOK ==
    /\ outbox \subseteq added /\ added \subseteq Messages
    /\ db \in {"closed", "open", "parsing"}
    /\ mReparseListener \in BOOLEAN /\ mUserInitiated \in BOOLEAN
    /\ mSendingMessages \in BOOLEAN
    /\ mEnumerator \subseteq Messages /\ mMessage \in Messages \cup {NoMessage}
    /\ streaming \in BOOLEAN
    /\ sending \subseteq [n : Listeners, msg : Messages \cup {NoMessage}]
    /\ copying \subseteq Listeners /\ saving \subseteq Listeners /\ mSendLater \subseteq Listeners
    /\ mTimerSet \in BOOLEAN /\ armed \in BOOLEAN
    /\ armed => mTimerSet
    /\ mTimerSet => armed \/ quits > 0
    /\ mShutdownListener \in BOOLEAN /\ quit \in {"no", "asked", "waiting", "over"}
    /\ sent \in [Messages -> Nat]
    /\ asks \in 0..MaxAsks /\ quits \in 0..MaxQuits

\* One run, and one message of it, whatever asks to send and whatever is reported
\* twice: one message is read, sent or copied, only in a run, and only its own
\* listener still knows the service.
OneAtATime ==
    /\ streaming => mSendingMessages /\ sending = {} /\ copying = {}
    /\ sending # {} => mSendingMessages /\ copying = {} /\ \E s \in sending : sending = {s}
    /\ copying # {} => mSendingMessages /\ \E n \in copying : copying = {n}
    /\ mSendLater = {s.n : s \in sending} \cup copying

\* A message leaves the outbox when it, and no other one, has been sent, and is
\* not sent after that.
OutboxExact == \A m \in Messages : sent[m] = IF m \in added \ outbox THEN 1 ELSE 0

\* onStopSending "is called regardless of the success/failure of the operation"
\* (nsIMsgSendLaterListener.idl).
EveryRunEnds == mSendingMessages ~> ~ mSendingMessages

\* A program that is to quit during a run does so after it.
QuitGoesOn == quit \in {"asked", "waiting"} ~> quit = "over"
=============================================================================
