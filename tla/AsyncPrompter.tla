---------------------------- MODULE AsyncPrompter ----------------------------
(***************************************************************************)
(* The queue of password prompts, mailnews/base/src/MsgAsyncPrompter.jsm.  *)
(*                                                                         *)
(* Protocols ask for a prompt under a key (their server); requests under   *)
(* the same key share one prompt, which its first caller makes and whose   *)
(* result the others (the consumers) are told.  A prompt is run by a       *)
(* `runnablePrompter` dispatched to the main thread, an asynchronous       *)
(* function that waits for the login store and then for the user; between  *)
(* its awaits anything may happen, and the consumers it calls back may ask *)
(* again before it is done.                                                *)
(***************************************************************************)
EXTENDS Naturals, Sequences, FiniteSets, SequencesExt

CONSTANTS
    Keys,      \* the keys callers use
    MaxCalls   \* bound: how many requests are made in all

ASSUME PrompterAssumption == MaxCalls \in Nat

Calls == 1..MaxCalls  \* requests, that is aCaller objects, by number

VARIABLES
    _pendingPrompts,        \* the entries, in the order their keys were added
    _asyncPromptInProgress, \* the counter
    runnables,              \* the runnablePrompters that have not come to their end
    nextCall,               \* the number the next request gets
    sharing,                \* history: the call whose prompt a call shares
    answer,                 \* history: how each call's own prompt ended
    told                    \* history: what each consumer was told

vars == <<_pendingPrompts, _asyncPromptInProgress, runnables, nextCall, sharing,
          answer, told>>

-----------------------------------------------------------------------------
(* A runnable: `jumped` if it was dispatched ahead of the queue; `first` is  *)
(* the caller it found when it read its entry (0 before), `left` are the     *)
(* consumers it still has to call.                                           *)
Runnable(key, jumped) ==
    [key |-> key, jumped |-> jumped, pc |-> "dispatched", first |-> 0, ok |-> FALSE,
     left |-> <<>>]

KeysOf(prompts) == {prompts[i].key : i \in DOMAIN prompts}
\* fault: whatever the key, the head of the queue is meant
PositionOfHead(prompts, key) == 1
Position(prompts, key) == CHOOSE i \in DOMAIN prompts : prompts[i].key = key

\* While a runnable calls a caller back, nothing else runs.
CallingBack == \E r \in runnables : r.pc \in {"canceling", "notifying", "called"}

\* fault: prompts in progress are not looked at
AlwaysDispatch(prompts, inProgress, rs) ==
    IF prompts = <<>>
      THEN _asyncPromptInProgress' = inProgress /\ runnables' = rs
      ELSE /\ _asyncPromptInProgress' = inProgress + 1
           /\ runnables' = rs \cup {Runnable(Head(prompts).key, FALSE)}

\* _doAsyncAuthPrompt: dispatch the first prompt, unless one is in progress.
DoAsyncAuthPrompt(prompts, inProgress, rs) ==
    IF inProgress > 0 \/ prompts = <<>>
      THEN _asyncPromptInProgress' = inProgress /\ runnables' = rs
      ELSE /\ _asyncPromptInProgress' = inProgress + 1
           /\ runnables' = rs \cup {Runnable(Head(prompts).key, FALSE)}

\* The entry exists: one more consumer.
Bind(key) ==
    LET i == Position(_pendingPrompts, key)
    IN  /\ _pendingPrompts' = [_pendingPrompts EXCEPT ![i].consumers = Append(@, nextCall)]
        /\ sharing' = [sharing EXCEPT ![nextCall] = _pendingPrompts[i].first]
        /\ UNCHANGED <<_asyncPromptInProgress, runnables>>

\* fault: a prompt forced to the front is not counted
AddUncounted(key, jump) ==
    /\ _pendingPrompts' =
         Append(_pendingPrompts, [key |-> key, first |-> nextCall, consumers |-> <<>>])
    /\ sharing' = [sharing EXCEPT ![nextCall] = nextCall]
    /\ IF jump
         THEN runnables' = runnables \cup {Runnable(key, TRUE)} /\ UNCHANGED _asyncPromptInProgress
         ELSE DoAsyncAuthPrompt(_pendingPrompts', _asyncPromptInProgress, runnables)

\* A new entry: run it now if the caller jumps the queue.
Add(key, jump) ==
    /\ _pendingPrompts' =
         Append(_pendingPrompts, [key |-> key, first |-> nextCall, consumers |-> <<>>])
    /\ sharing' = [sharing EXCEPT ![nextCall] = nextCall]
    /\ IF jump
         THEN /\ _asyncPromptInProgress' = _asyncPromptInProgress + 1
              /\ runnables' = runnables \cup {Runnable(key, TRUE)}
         ELSE DoAsyncAuthPrompt(_pendingPrompts', _asyncPromptInProgress, runnables)

\* queueAsyncAuthPrompt.
QueueAsyncAuthPrompt(key, jump) ==
    /\ nextCall \in Calls
    /\ nextCall' = nextCall + 1
    /\ \/ key \in KeysOf(_pendingPrompts) /\ Bind(key)
       \/ key \notin KeysOf(_pendingPrompts) /\ Add(key, jump)
    /\ UNCHANGED <<answer, told>>

\* Called from the event loop: at any time while prompts wait for the user.
ProtocolAsks(key, jump) == ~ CallingBack /\ QueueAsyncAuthPrompt(key, jump)

\* Called by a caller that is being called back.
CalleeAsks(key, jump) ==
    /\ \E r \in runnables : r.pc \in {"canceling", "called"}
    /\ QueueAsyncAuthPrompt(key, jump)

Becomes(r, s) == runnables' = (runnables \ {r}) \cup {s}

\* run(), once the login store is ready: look the entry up and have its first
\* caller prompt.
PromptStarts(r) ==
    /\ ~ CallingBack
    /\ r.pc = "dispatched"
    /\ Becomes(r, [r EXCEPT !.pc = "asking",
                   !.first = _pendingPrompts[Position(_pendingPrompts, r.key)].first])
    /\ UNCHANGED <<_pendingPrompts, _asyncPromptInProgress, nextCall, sharing, answer, told>>

\* The user answers; the function goes on in a later turn.
PromptAnswered(r, ok) ==
    /\ ~ CallingBack
    /\ r.pc = "asking"
    /\ Becomes(r, [r EXCEPT !.pc = "answered", !.ok = ok])
    /\ answer' = [answer EXCEPT ![r.first] = IF ok THEN "ok" ELSE "canceled"]
    /\ UNCHANGED <<_pendingPrompts, _asyncPromptInProgress, nextCall, sharing, told>>

\* fault: a failed prompt counts as answered
PromptFailsOK(r) ==
    /\ ~ CallingBack
    /\ r.pc = "asking"
    /\ Becomes(r, [r EXCEPT !.pc = "canceling", !.ok = TRUE])
    /\ answer' = [answer EXCEPT ![r.first] = "canceled"]
    /\ UNCHANGED <<_pendingPrompts, _asyncPromptInProgress, nextCall, sharing, told>>

\* The first caller throws instead of prompting: it is told onPromptCanceled.
PromptFails(r) ==
    /\ ~ CallingBack
    /\ r.pc = "asking"
    /\ Becomes(r, [r EXCEPT !.pc = "canceling"])
    /\ answer' = [answer EXCEPT ![r.first] = "canceled"]
    /\ UNCHANGED <<_pendingPrompts, _asyncPromptInProgress, nextCall, sharing, told>>

\* ...and throws again: run() ends there, its entry and the counter as they are.
CancelFails(r) ==
    /\ r.pc = "canceling"
    /\ Becomes(r, [r EXCEPT !.pc = "failed"])
    /\ UNCHANGED <<_pendingPrompts, _asyncPromptInProgress, nextCall, sharing, answer, told>>

\* fault: the entry is still there while the consumers are told
EntryKept(r) ==
    /\ \/ r.pc = "answered" /\ ~ CallingBack
       \/ r.pc = "canceling"
    /\ LET i == Position(_pendingPrompts, r.key)
       IN  Becomes(r, [r EXCEPT !.pc = "notifying", !.left = _pendingPrompts[i].consumers])
    /\ UNCHANGED <<_pendingPrompts, _asyncPromptInProgress, nextCall, sharing, answer, told>>

\* The entry is deleted; what is bound to it now is what will be told.
EntryDeleted(r) ==
    /\ \/ r.pc = "answered" /\ ~ CallingBack
       \/ r.pc = "canceling"
    /\ LET i == Position(_pendingPrompts, r.key)
       IN  /\ _pendingPrompts' = RemoveAt(_pendingPrompts, i)
           /\ Becomes(r, [r EXCEPT !.pc = "notifying", !.left = _pendingPrompts[i].consumers])
    /\ UNCHANGED <<_asyncPromptInProgress, nextCall, sharing, answer, told>>

\* onPromptAuthAvailable or onPromptCanceled of the next consumer, which may
\* ask for another prompt before it returns (what it throws is caught).
TellConsumer(r) ==
    /\ r.pc \in {"notifying", "called"}
    /\ r.left # <<>>
    /\ told' = [told EXCEPT ![Head(r.left)] = IF r.ok THEN "ok" ELSE "canceled"]
    /\ Becomes(r, [r EXCEPT !.pc = "called", !.left = Tail(@)])
    /\ UNCHANGED <<_pendingPrompts, _asyncPromptInProgress, nextCall, sharing, answer>>

\* fault: the next prompt is not started
PromptEndsQuietly(r) ==
    /\ r.pc \in {"notifying", "called"}
    /\ r.left = <<>>
    /\ runnables' = runnables \ {r}
    /\ _asyncPromptInProgress' = _asyncPromptInProgress - 1
    /\ UNCHANGED <<_pendingPrompts, nextCall, sharing, answer, told>>

\* All told: the next prompt, if this was the last one in progress.
PromptEnds(r) ==
    /\ r.pc \in {"notifying", "called"}
    /\ r.left = <<>>
    /\ DoAsyncAuthPrompt(_pendingPrompts, _asyncPromptInProgress - 1, runnables \ {r})
    /\ UNCHANGED <<_pendingPrompts, nextCall, sharing, answer, told>>

-----------------------------------------------------------------------------
Init ==
    /\ _pendingPrompts = <<>>
    /\ _asyncPromptInProgress = 0
    /\ runnables = {}
    /\ nextCall = 1
    /\ sharing = [c \in Calls |-> 0]
    /\ answer = [c \in Calls |-> "none"]
    /\ told = [c \in Calls |-> "none"]

Answered(r) == (\E ok \in BOOLEAN : PromptAnswered(r, ok)) \/ PromptFails(r)

Run(r) == \/ PromptStarts(r) \/ Answered(r) \/ CancelFails(r) \/ EntryDeleted(r)
          \/ TellConsumer(r) \/ PromptEnds(r)

Next == \/ \E key \in Keys, jump \in BOOLEAN : ProtocolAsks(key, jump) \/ CalleeAsks(key, jump)
        \/ \E r \in runnables : Run(r)

Spec == Init /\ [][Next]_vars

\* The main thread gets round to every dispatched runnable and every settled
\* promise, and the user answers every prompt sooner or later.
Fairness == \A key \in Keys : WF_vars(\E r \in runnables : r.key = key /\ Run(r))

FairSpec == Spec /\ Fairness
-----------------------------------------------------------------------------
(* Properties.                                                             *)

PCs == {"dispatched", "asking", "answered", "canceling", "notifying", "called", "failed"}
EntryType == [key : Keys, first : Calls, consumers : Seq(Calls)]
RunnableType == [key : Keys, jumped : BOOLEAN, pc : PCs, first : 0..MaxCalls, ok : BOOLEAN,
                 left : Seq(Calls)]

\* Every variable has the shape the code gives it.
TypeOK ==
    /\ _pendingPrompts \in Seq(EntryType)
    /\ _asyncPromptInProgress \in Nat
    /\ runnables \subseteq RunnableType
    /\ nextCall \in 1..(MaxCalls + 1)
    /\ sharing \in [Calls -> 0..MaxCalls]
    /\ answer \in [Calls -> {"none", "ok", "canceled"}]
    /\ told \in [Calls -> {"none", "ok", "canceled"}]

\* The counter counts the runnables that have not come to their end, so that it
\* is 0 again, and the queue moves on, when the last of them has.
CounterCounts == _asyncPromptInProgress = Cardinality(runnables)

\* No lost wakeup: while a prompt waits, a runnable is there that will look at
\* the queue when it ends (_doAsyncAuthPrompt returns early only then).
SomeoneWillLook == _pendingPrompts # <<>> => _asyncPromptInProgress > 0

\* A runnable finds the entry it was dispatched for, and it alone: the lookup
\* _pendingPrompts[this._hashKey] after the await is never undefined or
\* another request's entry.
Unfinished(r) == r.pc \in {"dispatched", "asking", "answered", "canceling"}
FindsItsEntry ==
    \A r \in runnables : Unfinished(r) =>
       /\ \E i \in DOMAIN _pendingPrompts :
             /\ _pendingPrompts[i].key = r.key
             /\ r.pc # "dispatched" => _pendingPrompts[i].first = r.first
       /\ \A s \in runnables : Unfinished(s) /\ s.key = r.key => s = r

\* "the user is only prompted with one at a time": two prompts are up at once
\* only if one of them jumped the queue.
OneAtATime == \A r, s \in runnables : ~ r.jumped /\ ~ s.jumped => r = s

\* A consumer hears how the prompt it shares ended, and not before it did.
HearsItsPrompt == \A c \in Calls : told[c] # "none" => told[c] = answer[sharing[c]]

\* A prompt ends one way, and a consumer is told once, whatever consumers do
\* while they are told.
OneAnswer ==
    [][\A c \in Calls : /\ answer[c] # "none" => answer'[c] = answer[c]
                        /\ told[c] # "none" => told'[c] = told[c]]_vars

\* Every caller gets its prompt or hears how the shared one ended, unless some
\* caller has failed to be canceled: nothing decrements the counter then, and
\* the prompts that wait are never made.
Served(c) == (IF sharing[c] = c THEN answer[c] ELSE told[c]) # "none"
EveryCallerServed ==
    \A c \in Calls : sharing[c] # 0 ~> Served(c) \/ \E r \in runnables : r.pc = "failed"
=============================================================================
