---------------------------- MODULE CachedCalendar ----------------------------
(***************************************************************************)
(* A calendar on a server behind a local cache, calendar/base/src/         *)
(* calCachedCalendar.js, with the offline journal that its cache keeps     *)
(* (calendar/providers/storage/CalStorageCalendar.jsm), for a provider     *)
(* with a change log (CalDAV).                                             *)
(*                                                                         *)
(* An edit goes to the provider and, when it has succeeded, to the cache;  *)
(* offline, or when the server cannot be reached, it goes to the cache     *)
(* only and the row is flagged.  A refresh plays the flagged rows back to  *)
(* the server, first the created, then the modified, then the deleted      *)
(* ones, and synchronizes after that.                                      *)
(*                                                                         *)
(* The cache is a database with asynchronous statements: they run, and     *)
(* their completions arrive, in the order in which they were issued.  Here *)
(* a statement runs when it is issued, nobody seeing its result before its *)
(* completion, and dbQueue holds the edits that wait for one.              *)
(***************************************************************************)
EXTENDS Integers, Sequences, FiniteSets

CONSTANTS
    Items,
    Existing,      \* the items that exist to begin with
    MaxEdits,      \* bound: edits in a behaviour
    MaxRefreshes,  \* bound: refreshes, the ones of going online included
    MaxToggles     \* bound: how often the network goes and comes

ASSUME CacheAssumption ==
    /\ Existing \subseteq Items
    /\ MaxEdits \in Nat /\ MaxRefreshes \in Nat /\ MaxToggles \in Nat

VARIABLES
    offline,       \* Services.io.offline
    server,        \* the version of each item that the server holds
    cache,         \* the row of each item: its version and offline_journal
    dbQueue,       \* edits that wait for their statement, in order
    edits,         \* adoptItem, modifyItem, deleteItem: edit n writes version n
    refreshes,     \* refresh() and the playback it starts
    mSyncQueue,    \* refreshes whose response function waits for the sync
    replays,       \* replayChangesOn calls under way
    toggles,       \* bound: how often offline has changed
    shown,         \* history: what the last edit that was reported done has left
    raced,         \* history: items whose edits overlapped, or overlapped a playback
    revived        \* history: items added again while flagged as deleted

vars == <<offline, server, cache, dbQueue, edits, refreshes, mSyncQueue, replays,
          toggles, shown, raced, revived>>

None == -1
Versions == 0..MaxEdits
Created == "created"
Modified == "modified"
Deleted == "deleted"
NoFlag == "null"
Absent == [ver |-> None, flag |-> NoFlag]

-----------------------------------------------------------------------------
(* The storage calendar: its operations as lists of statements, and what     *)
(* each statement does to a row.                                             *)

\* fault: the flag is not written back
StoreModifyPlain == <<"read", "delete", "insert">>

StoreModify == <<"read", "delete", "insert", "restore">>

StoreAdopt == <<"delete", "insert">>
StoreDelete == <<"delete">>

AdoptOffline  == StoreAdopt \o <<"addOffline">>
ModifyOffline == StoreModify \o <<"read", "modifyOffline">>
DeleteOffline == <<"read", "deleteOffline">>

\* fault: the row of a modified item is left as it is
DeletedOfflineNew(row, flag) ==
    IF flag = Created THEN Absent
    ELSE IF flag = NoFlag /\ row # Absent THEN [row EXCEPT !.flag = Deleted]
    ELSE row

\* storage.deleteOfflineItem: a created item goes, any other one is flagged.
DeletedOffline(row, flag) ==
    IF flag = Created THEN Absent
    ELSE IF flag \in {NoFlag, Modified} /\ row # Absent THEN [row EXCEPT !.flag = Deleted]
    ELSE row

\* What a statement makes of a row: `flag` is the one its operation has read,
\* n the version it writes.
Written(s, row, flag, n) ==
    CASE s = "read" -> row
      [] s = "delete" -> Absent
      [] s = "insert" -> [ver |-> n, flag |-> NoFlag]
      [] s = "restore" -> IF row = Absent THEN row ELSE [row EXCEPT !.flag = flag]
      [] s = "addOffline" -> IF row = Absent THEN row ELSE [row EXCEPT !.flag = Created]
      [] s = "modifyOffline" ->
            IF row = Absent \/ flag \in {Created, Deleted} THEN row
            ELSE [row EXCEPT !.flag = Modified]
      [] s = "deleteOffline" -> DeletedOffline(row, flag)

\* fault: the completed statement stays in the queue
IssueTwice(n, e, pc, script, queue) ==
    LET row == cache[e.item]
    IN  /\ cache' = [cache EXCEPT ![e.item] = Written(Head(script), row, e.flag, n)]
        /\ edits' = [edits EXCEPT ![n] =
                       [e EXCEPT !.pc = pc, !.script = Tail(script),
                                 !.flag = IF Head(script) = "read" THEN row.flag ELSE @]]
        /\ dbQueue' = Append(dbQueue, n)

\* Edit n, being e, issues the first statement of `script` and waits behind
\* the edits of `queue`.
Issue(n, e, pc, script, queue) ==
    LET row == cache[e.item]
    IN  /\ cache' = [cache EXCEPT ![e.item] = Written(Head(script), row, e.flag, n)]
        /\ edits' = [edits EXCEPT ![n] =
                       [e EXCEPT !.pc = pc, !.script = Tail(script),
                                 !.flag = IF Head(script) = "read" THEN row.flag ELSE @]]
        /\ dbQueue' = Append(queue, n)

-----------------------------------------------------------------------------
(* The edits.                                                                *)

Edit(kind, i) == [kind |-> kind, item |-> i, pc |-> "new", script |-> <<>>, flag |-> NoFlag]
NoEdit == [kind |-> "none", item |-> None, pc |-> "new", script |-> <<>>, flag |-> NoFlag]
Ended == [NoEdit EXCEPT !.pc = "done"]

InFlight(n) == edits[n].pc \in {"asking", "sent", "storing"}
EditedNow(i) == \E n \in DOMAIN edits : InFlight(n) /\ edits[n].item = i
HeldBy(r) == {x.item : x \in refreshes[r].itemQueue \cup refreshes[r].current}
PlayedBackNow(i) == \E r \in DOMAIN refreshes : i \in HeldBy(r)
Visible(i) == IF cache[i].flag = Deleted THEN None ELSE cache[i].ver

OfflineScript(kind) ==
    CASE kind = "add" -> AdoptOffline
      [] kind = "modify" -> ModifyOffline
      [] kind = "delete" -> DeleteOffline
StoreScript(kind) ==
    CASE kind = "add" -> StoreAdopt
      [] kind = "modify" -> StoreModify
      [] kind = "delete" -> StoreDelete

\* The first edit not made yet is made, of item i.
Asks(n, i) ==
    /\ edits[n].pc = "new"
    /\ \A m \in 1..(n - 1) : edits[m].pc # "new"
    /\ raced' = IF EditedNow(i) \/ PlayedBackNow(i) THEN raced \cup {i} ELSE raced
    /\ UNCHANGED <<offline, server, refreshes, mSyncQueue, replays, toggles, shown>>

\* adoptItem: of a new item, or of one deleted before (the deletion undone).
AdoptItem(n, i) ==
    /\ Visible(i) = None
    /\ \A m \in DOMAIN edits : InFlight(m) /\ edits[m].item = i => edits[m].kind # "add"
    /\ Asks(n, i)
    /\ revived' = IF cache[i].flag = Deleted THEN revived \cup {i} ELSE revived
    /\ IF offline
         THEN Issue(n, Edit("add", i), "storing", AdoptOffline, dbQueue)
         ELSE /\ edits' = [edits EXCEPT ![n] = [Edit("add", i) EXCEPT !.pc = "sent"]]
              /\ UNCHANGED <<cache, dbQueue>>

\* modifyItem and deleteItem: online, the row's flag is looked at first.
ChangeItem(n, i, kind) ==
    /\ Visible(i) # None
    /\ Asks(n, i)
    /\ IF offline
         THEN Issue(n, Edit(kind, i), "storing", OfflineScript(kind), dbQueue)
         ELSE Issue(n, Edit(kind, i), "asking", <<"read">>, dbQueue)
    /\ UNCHANGED revived

\* The listener of edit n hears how it went.
Answer(n, done) ==
    LET e == edits[n]
    IN  /\ edits' = [edits EXCEPT ![n] = Ended]
        /\ shown' = IF done THEN [shown EXCEPT ![e.item] = IF e.kind = "delete" THEN None ELSE n]
                    ELSE shown

\* The oldest statement completes: its edit goes on to the next one, or, if it
\* was the look at the flag, to the provider or (the item being in the journal)
\* to the cache; or it is done.
DbCompletes ==
    LET n == Head(dbQueue)
        e == edits[n]
    IN  /\ dbQueue # <<>>
        /\ \/ /\ e.script # <<>>
              /\ Issue(n, e, e.pc, e.script, Tail(dbQueue))
              /\ UNCHANGED shown
           \/ /\ e.script = <<>> /\ e.pc = "asking" /\ e.flag \in {Created, Modified}
              /\ Issue(n, e, "storing", OfflineScript(e.kind), Tail(dbQueue))
              /\ UNCHANGED shown
           \/ /\ e.script = <<>> /\ e.pc = "asking" /\ e.flag \notin {Created, Modified}
              /\ edits' = [edits EXCEPT ![n].pc = "sent"]
              /\ dbQueue' = Tail(dbQueue)
              /\ UNCHANGED <<cache, shown>>
           \/ /\ e.script = <<>> /\ e.pc = "storing"
              /\ Answer(n, TRUE)
              /\ dbQueue' = Tail(dbQueue)
              /\ UNCHANGED cache
        /\ UNCHANGED <<offline, server, refreshes, mSyncQueue, replays, toggles, raced, revived>>

\* The provider: an addition succeeds if the server has no such item, any other
\* change if it has.
Accepts(kind, i) == (kind = "add") <=> (server[i] = None)
Applied(kind, ver) == IF kind = "delete" THEN None ELSE ver

\* cacheListener.onOperationComplete: into the cache; or, the server being
\* unavailable, into the cache and the journal; or an error for the caller.
ProviderAnswers(n) ==
    LET e == edits[n]
    IN  /\ e.pc = "sent"
        /\ \/ /\ Accepts(e.kind, e.item)
              /\ server' = [server EXCEPT ![e.item] = Applied(e.kind, n)]
              /\ Issue(n, e, "storing", StoreScript(e.kind), dbQueue)
              /\ UNCHANGED shown
           \/ /\ Issue(n, e, "storing", OfflineScript(e.kind), dbQueue)
              /\ UNCHANGED <<server, shown>>
           \/ /\ Answer(n, FALSE)
              /\ UNCHANGED <<server, cache, dbQueue>>
        /\ UNCHANGED <<offline, refreshes, mSyncQueue, replays, toggles, raced, revived>>

-----------------------------------------------------------------------------
(* refresh(), playbackOfflineItems and synchronize.                          *)

NoRefresh == [pc |-> "new", type |-> Created, itemQueue |-> {}, current |-> {}]
Refreshing(r) == refreshes[r].pc \notin {"new", "done"}
KindOf(type) ==
    CASE type = Created -> "add" [] type = Modified -> "modify" [] type = Deleted -> "delete"

\* fault: nobody looks whether a sync is in action
SynchronizeAlways(r) ==
    /\ refreshes' = [refreshes EXCEPT ![r] =
                       [NoRefresh EXCEPT !.pc = IF offline THEN "done" ELSE "syncing"]]
    /\ mSyncQueue' = IF offline THEN <<>> ELSE Append(mSyncQueue, r)
    /\ replays' = IF offline THEN replays ELSE replays + 1

\* synchronize, with the response function of refresh r.  A sync in action
\* will answer it, too; offline there is nothing to wait for.
Synchronize(r) ==
    IF mSyncQueue # <<>> \/ ~ offline
      THEN /\ refreshes' = [refreshes EXCEPT ![r] = [NoRefresh EXCEPT !.pc = "syncing"]]
           /\ mSyncQueue' = Append(mSyncQueue, r)
           /\ replays' = IF mSyncQueue = <<>> THEN replays + 1 ELSE replays
      ELSE /\ refreshes' = [refreshes EXCEPT ![r] = [NoRefresh EXCEPT !.pc = "done"]]
           /\ UNCHANGED <<mSyncQueue, replays>>

\* playbackOfflineItems(callback, type): asks the cache for the flagged rows.
Playback(r, type) ==
    /\ refreshes' = [refreshes EXCEPT ![r] = [NoRefresh EXCEPT !.pc = "asked", !.type = type]]
    /\ UNCHANGED <<mSyncQueue, replays>>

\* nextCallback: the next type, after the last one the downstream refresh.
NextCallback(r) ==
    CASE refreshes[r].type = Created -> Playback(r, Modified)
      [] refreshes[r].type = Modified -> Playback(r, Deleted)
      [] refreshes[r].type = Deleted -> Synchronize(r)

PopItemQueue(r) ==
    LET rec == refreshes[r]
    IN  \/ /\ rec.itemQueue = {}
           /\ NextCallback(r)
        \/ /\ \E x \in rec.itemQueue :
                 refreshes' = [refreshes EXCEPT ![r] =
                    [rec EXCEPT !.pc = "sent", !.itemQueue = @ \ {x}, !.current = {x}]]
           /\ UNCHANGED <<mSyncQueue, replays>>

\* The first refresh not made yet is made, the network being `off` or not.
Refresh(r, off) ==
    /\ refreshes[r].pc = "new"
    /\ \A q \in 1..(r - 1) : refreshes[q].pc # "new"
    /\ IF off THEN Synchronize(r) ELSE Playback(r, Created)

UserRefreshes(r) ==
    /\ Refresh(r, offline)
    /\ UNCHANGED <<offline, server, cache, dbQueue, edits, toggles, shown, raced, revived>>

GoOffline ==
    /\ ~ offline /\ toggles < MaxToggles
    /\ offline' = TRUE
    /\ toggles' = toggles + 1
    /\ UNCHANGED <<server, cache, dbQueue, edits, refreshes, mSyncQueue, replays, shown, raced, revived>>

\* onOfflineStatusChanged(false): "start replaying changes to the remote calendar".
GoOnline(r) ==
    /\ offline
    /\ offline' = FALSE
    /\ Refresh(r, FALSE)
    /\ UNCHANGED <<server, cache, dbQueue, edits, toggles, shown, raced, revived>>

\* getItems reads the flagged rows, as they are now.
PlaybackReads(r) ==
    LET found == {i \in Items : cache[i] # Absent /\ cache[i].flag = refreshes[r].type}
    IN  /\ refreshes[r].pc = "asked"
        /\ refreshes' = [refreshes EXCEPT ![r].pc = "read",
              ![r].itemQueue = {[item |-> i, ver |-> cache[i].ver] : i \in found}]
        /\ raced' = raced \cup {i \in found : EditedNow(i)}
        /\ UNCHANGED <<offline, server, cache, dbQueue, edits, mSyncQueue, replays, toggles,
                       shown, revived>>

\* getItems is complete: play the first row back, or, "back to offline mode,
\* reconciliation aborted".
PlaybackStarts(r) ==
    /\ refreshes[r].pc = "read"
    /\ IF offline THEN Synchronize(r) ELSE PopItemQueue(r)
    /\ UNCHANGED <<offline, server, cache, dbQueue, edits, toggles, shown, raced, revived>>

\* opListener.onOperationComplete: the row is done with, or keeps its flag ("it
\* will be taken care of next time"); then the next one.
PlaybackGoesOn(r) ==
    LET kind == KindOf(refreshes[r].type)
    IN  /\ refreshes[r].pc = "sent"
        /\ \E x \in refreshes[r].current :
              \/ /\ Accepts(kind, x.item)
                 /\ server' = [server EXCEPT ![x.item] = Applied(kind, x.ver)]
                 /\ cache' = [cache EXCEPT ![x.item] =
                       IF kind = "delete" THEN Absent
                       ELSE IF @ = Absent THEN @ ELSE [@ EXCEPT !.flag = NoFlag]]
              \/ UNCHANGED <<server, cache>>
        /\ PopItemQueue(r)
        /\ UNCHANGED <<offline, dbQueue, edits, toggles, shown, raced, revived>>

\* fault: the response functions are forgotten
ReplayEndsQuietly ==
    /\ replays > 0
    /\ replays' = replays - 1
    /\ mSyncQueue' = <<>>
    /\ UNCHANGED <<offline, server, cache, dbQueue, edits, refreshes, toggles, shown, raced, revived>>

\* replayChangesOn is complete: emptyQueue calls every response function.
ReplayEnds ==
    /\ replays > 0
    /\ replays' = replays - 1
    /\ mSyncQueue' = <<>>
    /\ refreshes' = [r \in DOMAIN refreshes |->
          IF \E k \in DOMAIN mSyncQueue : mSyncQueue[k] = r
            THEN [NoRefresh EXCEPT !.pc = "done"] ELSE refreshes[r]]
    /\ UNCHANGED <<offline, server, cache, dbQueue, edits, toggles, shown, raced, revived>>

-----------------------------------------------------------------------------
\* Cache and server agree to begin with.
Init ==
    /\ offline \in BOOLEAN
    /\ server = [i \in Items |-> IF i \in Existing THEN 0 ELSE None]
    /\ cache = [i \in Items |-> [ver |-> server[i], flag |-> NoFlag]]
    /\ dbQueue = <<>>
    /\ edits = [n \in 1..MaxEdits |-> NoEdit]
    /\ refreshes = [r \in 1..MaxRefreshes |-> NoRefresh]
    /\ mSyncQueue = <<>>
    /\ replays = 0
    /\ toggles = 0
    /\ shown = server
    /\ raced = {}
    /\ revived = {}

Edits == 1..MaxEdits
Refreshes == 1..MaxRefreshes

Next == \/ \E n \in Edits, i \in Items : \/ AdoptItem(n, i)
                                         \/ ChangeItem(n, i, "modify")
                                         \/ ChangeItem(n, i, "delete")
        \/ \E n \in Edits : ProviderAnswers(n)
        \/ DbCompletes
        \/ GoOffline
        \/ \E r \in Refreshes : \/ UserRefreshes(r) \/ GoOnline(r)
                                \/ PlaybackReads(r) \/ PlaybackStarts(r) \/ PlaybackGoesOn(r)
        \/ ReplayEnds

Spec == Init /\ [][Next]_vars

\* The database and the provider answer, sooner or later, some request of those
\* that wait (that no request waits for ever behind others is for the run to show).
Fairness ==
    /\ WF_vars(DbCompletes)
    /\ WF_vars(\E n \in Edits : ProviderAnswers(n))
    /\ WF_vars(\E r \in Refreshes : PlaybackReads(r) \/ PlaybackStarts(r) \/ PlaybackGoesOn(r))
    /\ WF_vars(ReplayEnds)

FairSpec == Spec /\ Fairness
-----------------------------------------------------------------------------
(* Properties.                                                               *)

Row == [ver : Versions \cup {None}, flag : {NoFlag, Created, Modified, Deleted}]

\* Every variable has its shape, and the queue holds exactly the edits that
\* wait for a statement, each of them once.
TypeOK ==
    /\ offline \in BOOLEAN
    /\ server \in [Items -> Versions \cup {None}]
    /\ cache \in [Items -> Row]
    /\ \A i \in Items : cache[i].ver = None => cache[i] = Absent
    /\ {dbQueue[k] : k \in DOMAIN dbQueue} = {n \in Edits : edits[n].pc \in {"asking", "storing"}}
    /\ \A j, k \in DOMAIN dbQueue : dbQueue[j] = dbQueue[k] => j = k
    /\ mSyncQueue \in Seq(Refreshes)
    /\ replays \in Nat /\ toggles \in 0..MaxToggles
    /\ shown \in [Items -> Versions \cup {None}]
    /\ raced \subseteq Items /\ revived \subseteq Items

Quiet(i) == ~ EditedNow(i) /\ ~ PlayedBackNow(i)

\* The journal is exact: of an item nothing is under way for, the row without a
\* flag is what the server has, the created one is not there, and the modified
\* or deleted one is.  (Edits of an item that overlap one another or its
\* playback, and undone deletions, are another matter.)
JournalExact ==
    \A i \in Items \ (raced \cup revived) : Quiet(i) =>
        CASE cache[i].flag = NoFlag -> cache[i].ver = server[i]
          [] cache[i].flag = Created -> server[i] = None
          [] OTHER -> server[i] # None

\* What the calendar shows of an item is what the last edit reported done has
\* left, whether it reached the server, and whatever was played back since.
ShowsLastEdit ==
    \A i \in Items \ raced : ~ EditedNow(i) => Visible(i) = shown[i]

\* One replayChangesOn is under way while somebody waits for it, never two.
OneReplay == replays = IF mSyncQueue = <<>> THEN 0 ELSE 1

\* Everything that was begun comes to its end: when no more is asked for, every
\* edit has been answered and every refresh has called its response function.
Settled == /\ \A n \in Edits : edits[n].pc \in {"new", "done"}
           /\ \A r \in Refreshes : refreshes[r].pc \in {"new", "done"}
EverythingEnds == []<>Settled
=============================================================================
