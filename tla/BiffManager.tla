----------------------------- MODULE BiffManager -----------------------------
(***************************************************************************)
(* The checking of servers for new mail, mailnews/base/src/                *)
(* nsMsgBiffManager.cpp: an array of servers ordered by the time each is   *)
(* to be checked ("biffed") next, and one timer, set for the first.        *)
(*                                                                         *)
(* Times are kept relative to the clock: `due` is how long until a         *)
(* server's nextBiffTime, and -1 once it has passed, however long ago; so  *)
(* the clock needs no bound.                                               *)
(***************************************************************************)
EXTENDS Integers, Sequences, FiniteSets, SequencesExt

CONSTANTS
    Servers,
    Target,      \* Target[s]: the root folder s downloads to; accounts may share one
    Delays,      \* times until a server's next check, with jitter
    WakeDelay,   \* the wait after waking up, 10 seconds
    LateDelay,   \* the wait when the first check is late, 30 seconds
    MaxChanges   \* bound: how often servers come and go and the computer sleeps

ASSUME BiffAssumption ==
    /\ Delays \subseteq Nat
    /\ WakeDelay \in Nat /\ LateDelay \in Nat /\ WakeDelay <= LateDelay
    /\ MaxChanges \in Nat

VARIABLES
    mBiffArray,   \* the entries, the first to be checked first
    mBiffTimer,   \* time until the timer fires, or NoTimer
    pass,         \* the loop of PerformBiff
    asleep,       \* between sleep_notification and wake_notification
    mHaveShutdown,
    changes       \* bound: how many changes there have been

vars == <<mBiffArray, mBiffTimer, pass, asleep, mHaveShutdown, changes>>

NoTimer == -1
NoPass == [i |-> 0, count |-> 0, targetFolders |-> {}]
Idle == pass = NoPass

Listed == {mBiffArray[i].server : i \in DOMAIN mBiffArray}
PositionOf(s) == CHOOSE i \in DOMAIN mBiffArray : mBiffArray[i].server = s

-----------------------------------------------------------------------------

\* AddBiffEntry: before the first entry that is due later.
AddBiffEntry(array, e) ==
    LET later == {i \in DOMAIN array : e.due < array[i].due}
        at == IF later = {} THEN Len(array) + 1 ELSE Min(later)
    IN  InsertAt(array, at, e)

\* SetupNextBiff: the timer for the first entry; the old one is cancelled.
SetupNextBiff(array) ==
    mBiffTimer' = IF array = <<>> THEN mBiffTimer
                  ELSE IF Head(array).due < 0 THEN LateDelay
                  ELSE Head(array).due

Change == changes < MaxChanges /\ changes' = changes + 1

\* fault: the timer stays set for what used to be first
AddServerBiffOnly(s) ==
    /\ Idle /\ Change
    /\ s \notin Listed
    /\ \E d \in Delays \ {0} : mBiffArray' = AddBiffEntry(mBiffArray, [server |-> s, due |-> d])
    /\ UNCHANGED <<mBiffTimer, pass, asleep, mHaveShutdown>>

\* fault: a server may be added twice
AddServerBiffAgain(s) ==
    /\ Idle /\ Change
    /\ \E d \in Delays \ {0} : mBiffArray' = AddBiffEntry(mBiffArray, [server |-> s, due |-> d])
    /\ SetupNextBiff(mBiffArray')
    /\ UNCHANGED <<pass, asleep, mHaveShutdown>>

\* A server is loaded, or its checking is switched on (biffMinutes > 0).
AddServerBiff(s) ==
    /\ Idle /\ Change
    /\ s \notin Listed
    /\ \E d \in Delays \ {0} : mBiffArray' = AddBiffEntry(mBiffArray, [server |-> s, due |-> d])
    /\ SetupNextBiff(mBiffArray')
    /\ UNCHANGED <<pass, asleep, mHaveShutdown>>

\* A server is unloaded, or its checking is switched off.  The timer stays.
RemoveServerBiff(s) ==
    /\ Idle
    /\ s \in Listed
    /\ mBiffArray' = RemoveAt(mBiffArray, PositionOf(s))
    /\ UNCHANGED <<mBiffTimer, pass, asleep, mHaveShutdown, changes>>

\* Observe "sleep_notification".
Sleep ==
    /\ Idle /\ ~ asleep /\ Change
    /\ asleep' = TRUE
    /\ mBiffTimer' = NoTimer
    /\ UNCHANGED <<mBiffArray, pass, mHaveShutdown>>

\* Observe "wake_notification".
Wake ==
    /\ Idle /\ asleep
    /\ asleep' = FALSE
    /\ mBiffTimer' = WakeDelay
    /\ UNCHANGED <<mBiffArray, pass, mHaveShutdown, changes>>

\* The account manager shuts down; the array stays.
Shutdown ==
    /\ Idle /\ ~ mHaveShutdown
    /\ mHaveShutdown' = TRUE
    /\ mBiffTimer' = NoTimer
    /\ UNCHANGED <<mBiffArray, pass, asleep, changes>>

-----------------------------------------------------------------------------
(* The clock, the timer and PerformBiff.                                   *)

Tick ==
    /\ Idle
    /\ mBiffArray' = [i \in DOMAIN mBiffArray |->
                        [mBiffArray[i] EXCEPT !.due = IF @ < 0 THEN -1 ELSE @ - 1]]
    /\ mBiffTimer' = IF mBiffTimer > 0 THEN mBiffTimer - 1 ELSE mBiffTimer
    /\ UNCHANGED <<pass, asleep, mHaveShutdown, changes>>

\* The timer fires, at its time or later, or a little before (its delay is
\* rounded down to milliseconds): nothing need be late yet.
TimerFires ==
    /\ Idle /\ mBiffTimer = 0
    /\ mBiffTimer' = NoTimer
    /\ pass' = [i |-> 1, count |-> Len(mBiffArray), targetFolders |-> {}]
    /\ UNCHANGED <<mBiffArray, asleep, mHaveShutdown, changes>>

\* The loop looks at a late entry.
AtLateEntry == ~ Idle /\ pass.i <= pass.count /\ mBiffArray[pass.i].due < 0
TargetHere == Target[mBiffArray[pass.i].server]

\* fault: the entry that moved up is passed over
PassChecksAndSkips ==
    /\ AtLateEntry
    /\ TargetHere \notin pass.targetFolders
    /\ \E d \in Delays :
          mBiffArray' = AddBiffEntry(RemoveAt(mBiffArray, pass.i),
                                     [server |-> mBiffArray[pass.i].server, due |-> d])
    /\ pass' = [pass EXCEPT !.targetFolders = @ \cup {TargetHere}, !.i = @ + 1]
    /\ UNCHANGED <<mBiffTimer, asleep, mHaveShutdown, changes>>

\* It is checked (or passed over, being busy or in want of a password), and
\* goes back into the array for its next time; another one has moved up to i.
PassChecks ==
    /\ AtLateEntry
    /\ TargetHere \notin pass.targetFolders
    /\ \E d \in Delays :
          mBiffArray' = AddBiffEntry(RemoveAt(mBiffArray, pass.i),
                                     [server |-> mBiffArray[pass.i].server, due |-> d])
    /\ pass' = [pass EXCEPT !.targetFolders = @ \cup {TargetHere}]
    /\ UNCHANGED <<mBiffTimer, asleep, mHaveShutdown, changes>>

\* "the destination server was already being biffed into": it stays.
PassDefers ==
    /\ AtLateEntry
    /\ TargetHere \in pass.targetFolders
    /\ pass' = [pass EXCEPT !.i = @ + 1]
    /\ UNCHANGED <<mBiffArray, mBiffTimer, asleep, mHaveShutdown, changes>>

\* fault: the timer is not set again
PassEndsQuietly ==
    /\ ~ Idle /\ ~ AtLateEntry
    /\ pass' = NoPass
    /\ UNCHANGED <<mBiffArray, mBiffTimer, asleep, mHaveShutdown, changes>>

\* "since we're in biff order, there's no reason to keep checking".
PassEnds ==
    /\ ~ Idle /\ ~ AtLateEntry
    /\ pass' = NoPass
    /\ SetupNextBiff(mBiffArray)
    /\ UNCHANGED <<mBiffArray, asleep, mHaveShutdown, changes>>

-----------------------------------------------------------------------------
Init ==
    /\ mBiffArray = <<>>
    /\ mBiffTimer = NoTimer
    /\ pass = NoPass
    /\ asleep = FALSE
    /\ mHaveShutdown = FALSE
    /\ changes = 0

PerformBiff == PassChecks \/ PassDefers \/ PassEnds

Next == \/ \E s \in Servers : AddServerBiff(s) \/ RemoveServerBiff(s)
        \/ Sleep \/ Wake \/ Shutdown
        \/ Tick \/ TimerFires \/ PerformBiff

Spec == Init /\ [][Next]_vars

\* The clock goes on, a timer that is due fires, and a pass comes to its end.
Fairness == WF_vars(Tick) /\ WF_vars(TimerFires) /\ WF_vars(PerformBiff)

FairSpec == Spec /\ Fairness
-----------------------------------------------------------------------------
(* Properties.                                                             *)

EntryType == [server : Servers, due : Nat \cup {-1}]
PassType == [i : Nat, count : Nat, targetFolders : SUBSET {Target[s] : s \in Servers}]
Distinct(array) == \A i, j \in DOMAIN array : array[i].server = array[j].server => i = j

\* Every variable has its shape, and a server is in the array once ("Only add
\* it if it hasn't been added already").
TypeOK ==
    /\ mBiffArray \in Seq(EntryType)
    /\ Distinct(mBiffArray)
    /\ mBiffTimer \in Nat \cup {NoTimer}
    /\ pass \in PassType
    /\ ~ Idle => pass.count = Len(mBiffArray) /\ pass.i \in 1..(pass.count + 1)
    /\ asleep \in BOOLEAN /\ mHaveShutdown \in BOOLEAN
    /\ changes \in 0..MaxChanges

\* The array is in biff order, through removals and insertions in mid-pass;
\* PerformBiff stops at the first entry that is not late.
BiffOrder ==
    \A i, j \in DOMAIN mBiffArray : i < j => mBiffArray[i].due <= mBiffArray[j].due

\* While the computer is awake and a server is listed, the timer is set, and
\* fires no later than the first server's time or, that having passed, within
\* LateDelay.
WokenInTime ==
    Idle /\ ~ asleep /\ ~ mHaveShutdown /\ mBiffArray # <<>> =>
      /\ mBiffTimer # NoTimer
      /\ \/ mBiffTimer <= Head(mBiffArray).due
         \/ mBiffTimer <= LateDelay

\* A pass leaves a late server behind only if another one with the same target
\* folder had its turn in that pass.
NoneOverlooked ==
    [][PassEnds =>
         \A i \in DOMAIN mBiffArray :
            mBiffArray[i].due < 0 => Target[mBiffArray[i].server] \in pass.targetFolders]_vars

\* A late server gets its turn, unless the computer sleeps or the program
\* ends: accounts that share a folder do not starve one another.
Late(s) == \E i \in DOMAIN mBiffArray : mBiffArray[i].server = s /\ mBiffArray[i].due < 0
EveryLateServerChecked == \A s \in Servers : Late(s) ~> ~ Late(s) \/ asleep \/ mHaveShutdown
=============================================================================
