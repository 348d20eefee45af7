-------------------------- MODULE BiffManagerProofs --------------------------
(***************************************************************************)
(* What holds of the biff manager for every set of servers, every sharing  *)
(* of target folders, all delays and any number of changes.                *)
(***************************************************************************)
EXTENDS BiffManager, SeqLemmas

-----------------------------------------------------------------------------
(* The array of entries.                                                   *)

Sorted(array) == \A i, j \in DOMAIN array : i < j => array[i].due <= array[j].due
Has(array, s) == \E i \in DOMAIN array : array[i].server = s

\* An entry's time is a number, -1 once it has passed.
LEMMA EntryTimes == \A x \in EntryType : x.due \in Int /\ x.due >= -1 /\ x.server \in Servers
  BY DEF EntryType

\* The array with an entry inserted.
LEMMA InsertedEntry ==
    ASSUME NEW array \in Seq(EntryType), NEW e \in EntryType, NEW at \in 1..(Len(array) + 1)
    PROVE  /\ InsertAt(array, at, e) \in Seq(EntryType)
           /\ Len(InsertAt(array, at, e)) = Len(array) + 1
           /\ \A j \in 1..(Len(array) + 1) :
                 InsertAt(array, at, e)[j] =
                    IF j < at THEN array[j] ELSE IF j = at THEN e ELSE array[j - 1]
<1> DEFINE E == EntryType
<1>1. array \in Seq(E) /\ e \in E
  OBVIOUS
<1> HIDE DEF E
<1>2. InsertAt(array, at, e) \in Seq(E) /\ Len(InsertAt(array, at, e)) = Len(array) + 1
  BY <1>1, InsertAtProperties
<1>3. \A j \in 1..(Len(array) + 1) :
         InsertAt(array, at, e)[j] =
            IF j < at THEN array[j] ELSE IF j = at THEN e ELSE array[j - 1]
  BY <1>1, InsertAtProperties
<1>. QED  BY <1>2, <1>3 DEF E

\* The place AddBiffEntry finds: behind everything that is due no later.
LEMMA PlaceForEntry ==
    ASSUME NEW array \in Seq(EntryType), NEW e \in EntryType
    PROVE  \E at \in 1..(Len(array) + 1) :
              /\ AddBiffEntry(array, e) = InsertAt(array, at, e)
              /\ \A j \in 1..(at - 1) : array[j].due <= e.due
              /\ at <= Len(array) => e.due < array[at].due
<1> DEFINE later == {i \in DOMAIN array : e.due < array[i].due}
           at == IF later = {} THEN Len(array) + 1 ELSE Min(later)
<1>0. /\ Len(array) \in Nat /\ DOMAIN array = 1..Len(array)
      /\ \A i \in DOMAIN array : array[i] \in EntryType /\ array[i].due \in Int
      /\ e.due \in Int
  BY EntryTimes
<1>1. AddBiffEntry(array, e) = InsertAt(array, at, e)
  BY DEF AddBiffEntry
<1>2. CASE later = {}
  <2>1. at = Len(array) + 1
    BY <1>2
  <2>2. \A j \in 1..(at - 1) : array[j].due <= e.due
    BY <1>0, <1>2, <2>1
  <2>. QED  BY <1>0, <1>1, <2>1, <2>2
<1>3. CASE later # {}
  <2>1. at = Min(later) /\ later \in SUBSET Nat
    BY <1>0, <1>3
  <2>2. at \in later /\ \A j \in later : at <= j
    BY <1>3, <2>1, MinNat
  <2>3. at \in 1..Len(array) /\ e.due < array[at].due
    BY <1>0, <2>2
  <2>4. \A j \in 1..(at - 1) : array[j].due <= e.due
    <3>1. SUFFICES ASSUME NEW j \in 1..(at - 1), ~(array[j].due <= e.due)
                   PROVE  FALSE
      OBVIOUS
    <3>2. j \in DOMAIN array /\ j < at
      BY <1>0, <2>3
    <3>3. j \in later
      BY <1>0, <3>1, <3>2
    <3> HIDE DEF at, later
    <3>4. at <= j
      BY <2>2, <3>3
    <3>. QED  BY <1>0, <2>3, <3>2, <3>4
  <2> HIDE DEF at
  <2>5. at \in 1..(Len(array) + 1)
    BY <1>0, <2>3
  <2>. QED  BY <1>1, <2>3, <2>4, <2>5
<1>. QED  BY <1>2, <1>3

\* AddBiffEntry keeps the array in order.
LEMMA AddKeepsOrder ==
    ASSUME NEW array \in Seq(EntryType), NEW e \in EntryType, Sorted(array)
    PROVE  Sorted(AddBiffEntry(array, e))
<1>1. PICK at \in 1..(Len(array) + 1) :
         /\ AddBiffEntry(array, e) = InsertAt(array, at, e)
         /\ \A j \in 1..(at - 1) : array[j].due <= e.due
         /\ at <= Len(array) => e.due < array[at].due
  BY PlaceForEntry
<1> DEFINE t == InsertAt(array, at, e)
<1>2. /\ t \in Seq(EntryType) /\ Len(t) = Len(array) + 1
      /\ \A j \in 1..(Len(array) + 1) :
            t[j] = IF j < at THEN array[j] ELSE IF j = at THEN e ELSE array[j - 1]
  BY InsertedEntry
<1>3. /\ Len(array) \in Nat /\ DOMAIN array = 1..Len(array)
      /\ \A i \in 1..Len(array) : array[i].due \in Int
      /\ e.due \in Int /\ at \in Nat
  <2> HIDE DEF t
  <2>. QED  BY EntryTimes
<1>4. DOMAIN t = 1..(Len(array) + 1)
  BY <1>2
<1> HIDE DEF t
<1>5. \A i, j \in 1..Len(array) : i < j => array[i].due <= array[j].due
  BY <1>3 DEF Sorted
<1>6. \A j \in 1..Len(array) : at <= j => e.due <= array[j].due
  <2>1. SUFFICES ASSUME NEW j \in 1..Len(array), at <= j
                 PROVE  e.due <= array[j].due
    OBVIOUS
  <2>2. at \in 1..Len(array) /\ e.due < array[at].due
    BY <1>1, <1>3, <2>1
  <2>3. at = j \/ at < j
    BY <1>3, <2>1
  <2>. QED  BY <1>3, <1>5, <2>2, <2>3
<1>7. ASSUME NEW i \in DOMAIN t, NEW j \in DOMAIN t, i < j
      PROVE  t[i].due <= t[j].due
  <2>0. i \in 1..(Len(array) + 1) /\ j \in 1..(Len(array) + 1)
    BY <1>4
  <2>1. CASE j < at
    BY <1>2, <1>3, <1>5, <1>7, <2>0, <2>1
  <2>2. CASE j = at
    <3>1. t[j] = e /\ t[i] = array[i] /\ i \in 1..(at - 1)
      BY <1>2, <1>3, <1>7, <2>0, <2>2
    <3>. QED  BY <1>1, <3>1
  <2>3. CASE at < j
    <3>1. t[j] = array[j - 1] /\ j - 1 \in 1..Len(array) /\ at <= j - 1
      BY <1>2, <1>3, <2>0, <2>3
    <3>2. CASE i < at
      <4>1. t[i] = array[i] /\ i \in 1..Len(array) /\ i < j - 1
        BY <1>2, <1>3, <2>0, <2>3, <3>2
      <4>. QED  BY <1>5, <3>1, <4>1
    <3>3. CASE i = at
      BY <1>2, <1>6, <2>0, <3>1, <3>3
    <3>4. CASE at < i
      <4>1. t[i] = array[i - 1] /\ i - 1 \in 1..Len(array) /\ i - 1 < j - 1
        BY <1>2, <1>3, <1>7, <2>0, <3>4
      <4>. QED  BY <1>5, <3>1, <4>1
    <3>. QED  BY <1>3, <2>0, <3>2, <3>3, <3>4
  <2>. QED  BY <1>3, <2>0, <2>1, <2>2, <2>3
<1>. QED  BY <1>1, <1>7 DEF Sorted, t

\* AddBiffEntry keeps servers apart, if e's is a new one.
LEMMA AddKeepsDistinct ==
    ASSUME NEW array \in Seq(EntryType), NEW e \in EntryType,
           Distinct(array), ~ Has(array, e.server)
    PROVE  /\ AddBiffEntry(array, e) \in Seq(EntryType)
           /\ Len(AddBiffEntry(array, e)) = Len(array) + 1
           /\ Distinct(AddBiffEntry(array, e))
<1>1. PICK at \in 1..(Len(array) + 1) : AddBiffEntry(array, e) = InsertAt(array, at, e)
  BY PlaceForEntry
<1> DEFINE t == InsertAt(array, at, e)
<1>2. /\ t \in Seq(EntryType) /\ Len(t) = Len(array) + 1
      /\ \A j \in 1..(Len(array) + 1) :
            t[j] = IF j < at THEN array[j] ELSE IF j = at THEN e ELSE array[j - 1]
  BY InsertedEntry
<1>3. Len(array) \in Nat /\ DOMAIN array = 1..Len(array) /\ at \in Nat
  OBVIOUS
<1>4. DOMAIN t = 1..(Len(array) + 1)
  BY <1>2
<1> HIDE DEF t
<1> DEFINE old(j) == IF j < at THEN j ELSE j - 1
<1>5. ASSUME NEW j \in 1..(Len(array) + 1), j # at
      PROVE  t[j] = array[old(j)] /\ old(j) \in DOMAIN array /\ t[j].server # e.server
  <2>1. t[j] = array[old(j)] /\ old(j) \in DOMAIN array
    BY <1>2, <1>3, <1>5
  <2>. QED  BY <2>1 DEF Has
<1>6. t[at] = e
  BY <1>2, <1>3
<1>7. ASSUME NEW i \in DOMAIN t, NEW j \in DOMAIN t, t[i].server = t[j].server
      PROVE  i = j
  <2>1. i \in 1..(Len(array) + 1) /\ j \in 1..(Len(array) + 1)
    BY <1>4
  <2>2. CASE i = at \/ j = at
    BY <1>5, <1>6, <1>7, <2>1, <2>2
  <2>3. CASE i # at /\ j # at
    <3>1. old(i) = old(j)
      BY <1>5, <1>7, <2>1, <2>3, Zenon DEF Distinct
    <3>. QED  BY <1>3, <2>1, <2>3, <3>1
  <2>. QED  BY <2>2, <2>3
<1>. QED  BY <1>1, <1>2, <1>7 DEF Distinct, t

\* Taking an entry out keeps order and servers apart, and its server is gone.
LEMMA RemoveKeeps ==
    ASSUME NEW array \in Seq(EntryType), NEW k \in 1..Len(array), Distinct(array)
    PROVE  /\ RemoveAt(array, k) \in Seq(EntryType)
           /\ Len(RemoveAt(array, k)) = Len(array) - 1
           /\ Distinct(RemoveAt(array, k))
           /\ ~ Has(RemoveAt(array, k), array[k].server)
           /\ Sorted(array) => Sorted(RemoveAt(array, k))
<1> DEFINE t == RemoveAt(array, k)
           old(j) == IF j < k THEN j ELSE j + 1
<1>1. /\ t \in Seq(EntryType) /\ Len(t) = Len(array) - 1
      /\ \A j \in 1..(Len(array) - 1) : t[j] = IF j < k THEN array[j] ELSE array[j + 1]
  BY RemoveAtProperties
<1>2. Len(array) \in Nat /\ DOMAIN array = 1..Len(array) /\ k \in Nat
  OBVIOUS
<1>3. DOMAIN t = 1..(Len(array) - 1)
  BY <1>1
<1> HIDE DEF t
<1>4. ASSUME NEW j \in DOMAIN t
      PROVE  t[j] = array[old(j)] /\ old(j) \in DOMAIN array /\ old(j) # k
  BY <1>1, <1>2, <1>3
<1>5. \A i, j \in DOMAIN t : (old(i) = old(j) => i = j) /\ (i < j => old(i) < old(j))
  BY <1>2, <1>3
<1>6. Distinct(t)
  <2>1. SUFFICES ASSUME NEW i \in DOMAIN t, NEW j \in DOMAIN t, t[i].server = t[j].server
                 PROVE  i = j
    BY DEF Distinct
  <2>2. old(i) = old(j)
    BY <1>4, <2>1, Zenon DEF Distinct
  <2>. QED  BY <1>5, <2>2
<1>7. ~ Has(t, array[k].server)
  BY <1>2, <1>4, Zenon DEF Has, Distinct
<1>8. Sorted(array) => Sorted(t)
  <2>1. SUFFICES ASSUME Sorted(array), NEW i \in DOMAIN t, NEW j \in DOMAIN t, i < j
                 PROVE  t[i].due <= t[j].due
    BY DEF Sorted
  <2>2. old(i) < old(j)
    BY <1>5, <2>1
  <2>3. array[old(i)].due <= array[old(j)].due
    BY <1>4, <2>1, <2>2, Zenon DEF Sorted
  <2>. QED  BY <1>4, <2>3
<1>. QED  BY <1>1, <1>6, <1>7, <1>8 DEF t

-----------------------------------------------------------------------------
(* Type correctness.                                                       *)

\* SetupNextBiff sets the timer for the first entry, or for LateDelay.
LEMMA TimerIsSet ==
    ASSUME TypeOK, NEW a \in Seq(EntryType), SetupNextBiff(a)
    PROVE  /\ mBiffTimer' \in Nat \cup {NoTimer}
           /\ a # <<>> => /\ mBiffTimer' # NoTimer
                          /\ mBiffTimer' <= Head(a).due \/ mBiffTimer' <= LateDelay
<1>1. CASE a = <<>>
  BY <1>1 DEF SetupNextBiff, TypeOK
<1>2. CASE a # <<>>
  <2>1. Head(a) \in EntryType
    BY <1>2
  <2>2. Head(a).due \in Nat \cup {-1} /\ LateDelay \in Nat
    BY <2>1, BiffAssumption DEF EntryType
  <2>3. mBiffTimer' = IF Head(a).due < 0 THEN LateDelay ELSE Head(a).due
    BY <1>2 DEF SetupNextBiff
  <2>. QED  BY <2>2, <2>3 DEF NoTimer
<1>. QED  BY <1>1, <1>2

\* The entry a pass has reached, checked and put back.
LEMMA CheckedEntry ==
    ASSUME TypeOK, ~ Idle, AtLateEntry, NEW d \in Delays
    PROVE  LET e == [server |-> mBiffArray[pass.i].server, due |-> d]
               rest == RemoveAt(mBiffArray, pass.i)
           IN  /\ pass.i \in 1..Len(mBiffArray)
               /\ e \in EntryType /\ e.due >= 0
               /\ rest \in Seq(EntryType) /\ Len(rest) = Len(mBiffArray) - 1
               /\ Distinct(rest) /\ ~ Has(rest, e.server)
               /\ Sorted(mBiffArray) => Sorted(rest)
<1> DEFINE e == [server |-> mBiffArray[pass.i].server, due |-> d]
<1>1. pass.i \in 1..Len(mBiffArray) /\ mBiffArray \in Seq(EntryType) /\ Distinct(mBiffArray)
  BY DEF TypeOK, AtLateEntry, PassType
<1>2. mBiffArray[pass.i] \in EntryType
  BY <1>1
<1>3. d \in Nat
  BY BiffAssumption
<1>4. e \in EntryType /\ e.due >= 0
  BY <1>2, <1>3 DEF EntryType
<1>5. e.server = mBiffArray[pass.i].server
  OBVIOUS
<1> HIDE DEF e
<1>6. /\ RemoveAt(mBiffArray, pass.i) \in Seq(EntryType)
      /\ Len(RemoveAt(mBiffArray, pass.i)) = Len(mBiffArray) - 1
      /\ Distinct(RemoveAt(mBiffArray, pass.i))
      /\ ~ Has(RemoveAt(mBiffArray, pass.i), mBiffArray[pass.i].server)
      /\ Sorted(mBiffArray) => Sorted(RemoveAt(mBiffArray, pass.i))
  BY <1>1, RemoveKeeps
<1>. QED  BY <1>1, <1>4, <1>5, <1>6 DEF e

\* The clock moves every entry's time on, as far as -1.
LEMMA TickedArray ==
    ASSUME TypeOK, Tick
    PROVE  /\ mBiffArray' \in Seq(EntryType) /\ Len(mBiffArray') = Len(mBiffArray)
           /\ \A i \in 1..Len(mBiffArray) :
                 /\ mBiffArray'[i].server = mBiffArray[i].server
                 /\ mBiffArray'[i].due = IF mBiffArray[i].due < 0 THEN -1
                                         ELSE mBiffArray[i].due - 1
<1> DEFINE moved(x) == [x EXCEPT !.due = IF @ < 0 THEN -1 ELSE @ - 1]
           n == Len(mBiffArray)
<1>1. n \in Nat /\ DOMAIN mBiffArray = 1..n /\ \A i \in 1..n : mBiffArray[i] \in EntryType
  BY DEF TypeOK
<1>2. mBiffArray' = [i \in 1..n |-> moved(mBiffArray[i])]
  BY <1>1 DEF Tick
<1>3. \A x \in EntryType : /\ moved(x) \in EntryType
                           /\ moved(x).server = x.server
                           /\ moved(x).due = IF x.due < 0 THEN -1 ELSE x.due - 1
  BY DEF EntryType
<1> HIDE DEF moved, n
<1>4. mBiffArray' \in [1..n -> EntryType]
  BY <1>1, <1>2, <1>3
<1>5. mBiffArray' \in Seq(EntryType) /\ Len(mBiffArray') = n
  BY <1>1, <1>4, FunctionIsSeq
<1>6. ASSUME NEW i \in 1..n
      PROVE  /\ mBiffArray'[i].server = mBiffArray[i].server
             /\ mBiffArray'[i].due = IF mBiffArray[i].due < 0 THEN -1
                                     ELSE mBiffArray[i].due - 1
  BY <1>1, <1>2, <1>3
<1>. QED  BY <1>5, <1>6 DEF n

\* A server that is added gets a time to come.
LEMMA AddedEntry ==
    ASSUME TypeOK, NEW s \in Servers, AddServerBiff(s)
    PROVE  \E e \in EntryType :
              /\ e.due >= 0 /\ ~ Has(mBiffArray, e.server)
              /\ mBiffArray' = AddBiffEntry(mBiffArray, e)
<1>1. PICK d \in Delays \ {0} :
         mBiffArray' = AddBiffEntry(mBiffArray, [server |-> s, due |-> d])
  BY DEF AddServerBiff
<1> DEFINE e == [server |-> s, due |-> d]
<1>2. d \in Nat /\ e \in EntryType /\ e.due >= 0 /\ e.server = s
  BY BiffAssumption DEF EntryType
<1>3. ~ Has(mBiffArray, s)
  BY DEF AddServerBiff, Listed, Has
<1> HIDE DEF e
<1>4. mBiffArray' = AddBiffEntry(mBiffArray, e)
  BY <1>1 DEF e
<1>. QED  BY <1>2, <1>3, <1>4

\* A server that is removed is in the array.
LEMMA RemovedEntry ==
    ASSUME TypeOK, NEW s \in Servers, RemoveServerBiff(s)
    PROVE  \E k \in 1..Len(mBiffArray) : mBiffArray' = RemoveAt(mBiffArray, k)
<1>1. \E i \in DOMAIN mBiffArray : mBiffArray[i].server = s
  BY DEF RemoveServerBiff, Listed
<1>2. PositionOf(s) \in DOMAIN mBiffArray
  BY <1>1, Zenon DEF PositionOf
<1>3. DOMAIN mBiffArray = 1..Len(mBiffArray)
  BY DEF TypeOK
<1>. QED  BY <1>2, <1>3 DEF RemoveServerBiff

LEMMA TypeInit == Init => TypeOK
<1>. SUFFICES ASSUME Init PROVE TypeOK
  OBVIOUS
<1>1. mBiffArray \in Seq(EntryType) /\ Distinct(mBiffArray)
  BY DEF Init, Distinct
<1>2. WakeDelay \in 0..WakeDelay /\ 0 \in 0..MaxChanges
  BY BiffAssumption
<1>3. pass \in PassType /\ Idle
  BY DEF Init, PassType, NoPass, Idle
<1>. QED  BY <1>1, <1>2, <1>3 DEF Init, TypeOK

LEMMA TypeStep == TypeOK /\ [Next]_vars => TypeOK'
<1>. SUFFICES ASSUME TypeOK, [Next]_vars
              PROVE  TypeOK'
  OBVIOUS
<1>0. mBiffArray \in Seq(EntryType) /\ Distinct(mBiffArray) /\ Len(mBiffArray) \in Nat
  BY DEF TypeOK
<1>1. CASE \E s \in Servers : AddServerBiff(s)
  <2>1. PICK s \in Servers : AddServerBiff(s)
    BY <1>1
  <2>2. PICK e \in EntryType : /\ ~ Has(mBiffArray, e.server)
                               /\ mBiffArray' = AddBiffEntry(mBiffArray, e)
    BY <2>1, AddedEntry
  <2>3. mBiffArray' \in Seq(EntryType) /\ Distinct(mBiffArray')
    BY <1>0, <2>2, AddKeepsDistinct
  <2>4. mBiffTimer' \in Nat \cup {NoTimer}
    BY <2>1, <2>3, TimerIsSet DEF AddServerBiff
  <2>5. changes' \in 0..MaxChanges
    BY <2>1, BiffAssumption DEF TypeOK, AddServerBiff, Change
  <2>. QED  BY <2>1, <2>3, <2>4, <2>5 DEF TypeOK, AddServerBiff, Idle, Distinct
<1>2. CASE \E s \in Servers : RemoveServerBiff(s)
  <2>1. PICK s \in Servers : RemoveServerBiff(s)
    BY <1>2
  <2>2. PICK k \in 1..Len(mBiffArray) : mBiffArray' = RemoveAt(mBiffArray, k)
    BY <2>1, RemovedEntry
  <2>3. mBiffArray' \in Seq(EntryType) /\ Distinct(mBiffArray')
    BY <1>0, <2>2, RemoveKeeps
  <2>. QED  BY <2>1, <2>3 DEF TypeOK, RemoveServerBiff, Idle, Distinct
<1>3. CASE Sleep
  BY <1>3, BiffAssumption DEF TypeOK, Sleep, Change, Idle, NoTimer, Distinct
<1>4. CASE Wake
  <2>1. 0 \in 0..WakeDelay /\ WakeDelay \in Nat
    BY BiffAssumption
  <2>. QED  BY <1>4, <2>1 DEF TypeOK, Wake, Idle, Distinct
<1>5. CASE Shutdown
  BY <1>5 DEF TypeOK, Shutdown, Idle, NoTimer, Distinct
<1>6. CASE Tick
  <2>1. /\ mBiffArray' \in Seq(EntryType) /\ Len(mBiffArray') = Len(mBiffArray)
        /\ \A i \in 1..Len(mBiffArray) : mBiffArray'[i].server = mBiffArray[i].server
    BY <1>6, TickedArray
  <2>2. DOMAIN mBiffArray' = 1..Len(mBiffArray) /\ DOMAIN mBiffArray = 1..Len(mBiffArray)
    BY <1>0, <2>1
  <2>3. Distinct(mBiffArray')
    BY <1>0, <2>1, <2>2 DEF Distinct
  <2>4. mBiffTimer' \in Nat \cup {NoTimer}
    BY <1>6 DEF TypeOK, Tick, NoTimer
  <2>. QED  BY <1>6, <2>1, <2>3, <2>4 DEF TypeOK, Tick, Idle
<1>7. CASE TimerFires
  <2>1. pass' \in PassType /\ pass'.count = Len(mBiffArray) /\ pass'.i = 1
    BY <1>0, <1>7 DEF TimerFires, PassType
  <2>. QED  BY <1>0, <1>7, <2>1 DEF TypeOK, TimerFires, NoTimer, Distinct
<1>8. CASE PassChecks
  <2>1. ~ Idle /\ AtLateEntry
    BY <1>8 DEF PassChecks, AtLateEntry
  <2>2. PICK d \in Delays :
           mBiffArray' = AddBiffEntry(RemoveAt(mBiffArray, pass.i),
                                      [server |-> mBiffArray[pass.i].server, due |-> d])
    BY <1>8 DEF PassChecks
  <2> DEFINE e == [server |-> mBiffArray[pass.i].server, due |-> d]
             rest == RemoveAt(mBiffArray, pass.i)
  <2>3. /\ pass.i \in 1..Len(mBiffArray) /\ e \in EntryType
        /\ rest \in Seq(EntryType) /\ Len(rest) = Len(mBiffArray) - 1
        /\ Distinct(rest) /\ ~ Has(rest, e.server)
    BY <2>1, CheckedEntry
  <2> HIDE DEF e, rest
  <2>4. mBiffArray' = AddBiffEntry(rest, e)
    BY <2>2 DEF e, rest
  <2>5. /\ mBiffArray' \in Seq(EntryType) /\ Distinct(mBiffArray')
        /\ Len(mBiffArray') = Len(rest) + 1
    BY <2>3, <2>4, AddKeepsDistinct
  <2>6. mBiffArray[pass.i].server \in Servers
    BY <1>0, <2>3, EntryTimes
  <2>7. TargetHere \in {Target[s] : s \in Servers}
    BY <2>6 DEF TargetHere
  <2>8. pass' = [pass EXCEPT !.targetFolders = @ \cup {TargetHere}]
    BY <1>8 DEF PassChecks
  <2>9. /\ pass' \in PassType /\ pass'.count = pass.count /\ pass'.i = pass.i
    BY <2>7, <2>8 DEF TypeOK, PassType
  <2>10. pass'.count = Len(mBiffArray') /\ pass'.i \in 1..(pass'.count + 1)
    BY <1>0, <2>1, <2>3, <2>5, <2>9 DEF TypeOK
  <2>. QED  BY <1>8, <2>5, <2>9, <2>10 DEF TypeOK, PassChecks
<1>9. CASE PassDefers
  <2>1. pass' = [pass EXCEPT !.i = @ + 1] /\ ~ Idle /\ pass.i <= pass.count
    BY <1>9 DEF PassDefers, AtLateEntry
  <2>2. pass' \in PassType /\ pass'.count = pass.count /\ pass'.i = pass.i + 1
    BY <2>1 DEF TypeOK, PassType
  <2>3. pass'.i \in 1..(pass'.count + 1) /\ pass'.count = Len(mBiffArray)
    BY <2>1, <2>2 DEF TypeOK, PassType
  <2>. QED  BY <1>9, <2>2, <2>3 DEF TypeOK, PassDefers, Distinct
<1>10. CASE PassEnds
  <2>1. mBiffTimer' \in Nat \cup {NoTimer}
    BY <1>0, <1>10, TimerIsSet DEF PassEnds
  <2>2. pass' \in PassType /\ Idle'
    BY <1>10 DEF PassEnds, NoPass, PassType, Idle
  <2>. QED  BY <1>10, <2>1, <2>2 DEF TypeOK, PassEnds, Distinct
<1>11. CASE UNCHANGED vars
  BY <1>11 DEF TypeOK, vars, Idle, Distinct
<1>. QED  BY <1>1, <1>2, <1>3, <1>4, <1>5, <1>6, <1>7, <1>8, <1>9, <1>10, <1>11
          DEF Next, PerformBiff

\* The variables keep their shapes, and no server is ever in the array twice,
\* which AddServerBiff checks for additions, and the rescheduling in
\* PerformBiff has to keep to.
THEOREM BiffTypeCorrect == Spec => []TypeOK
<1>. QED  BY TypeInit, TypeStep, PTL DEF Spec

-----------------------------------------------------------------------------
(* Order.                                                                  *)

LEMMA OrderStep == TypeOK /\ BiffOrder /\ [Next]_vars => BiffOrder'
<1>. SUFFICES ASSUME TypeOK, BiffOrder, [Next]_vars
              PROVE  Sorted(mBiffArray')
  BY DEF BiffOrder, Sorted
<1>0. mBiffArray \in Seq(EntryType) /\ Distinct(mBiffArray) /\ Sorted(mBiffArray)
  BY DEF TypeOK, BiffOrder, Sorted
<1>1. CASE \E s \in Servers : AddServerBiff(s)
  <2>1. PICK e \in EntryType : mBiffArray' = AddBiffEntry(mBiffArray, e)
    BY <1>1, AddedEntry
  <2>. QED  BY <1>0, <2>1, AddKeepsOrder
<1>2. CASE \E s \in Servers : RemoveServerBiff(s)
  <2>1. PICK k \in 1..Len(mBiffArray) : mBiffArray' = RemoveAt(mBiffArray, k)
    BY <1>2, RemovedEntry
  <2>. QED  BY <1>0, <2>1, RemoveKeeps
<1>3. CASE Tick
  <2>1. /\ mBiffArray' \in Seq(EntryType) /\ Len(mBiffArray') = Len(mBiffArray)
        /\ \A i \in 1..Len(mBiffArray) :
              mBiffArray'[i].due = IF mBiffArray[i].due < 0 THEN -1 ELSE mBiffArray[i].due - 1
    BY <1>3, TickedArray
  <2>2. /\ DOMAIN mBiffArray' = 1..Len(mBiffArray) /\ DOMAIN mBiffArray = 1..Len(mBiffArray)
        /\ \A i \in 1..Len(mBiffArray) : mBiffArray[i].due \in Int /\ mBiffArray[i].due >= -1
    BY <1>0, <2>1, EntryTimes
  <2>. QED  BY <1>0, <2>1, <2>2 DEF Sorted
<1>4. CASE PassChecks
  <2>1. ~ Idle /\ AtLateEntry
    BY <1>4 DEF PassChecks, AtLateEntry
  <2>2. PICK d \in Delays :
           mBiffArray' = AddBiffEntry(RemoveAt(mBiffArray, pass.i),
                                      [server |-> mBiffArray[pass.i].server, due |-> d])
    BY <1>4 DEF PassChecks
  <2> DEFINE e == [server |-> mBiffArray[pass.i].server, due |-> d]
             rest == RemoveAt(mBiffArray, pass.i)
  <2>3. e \in EntryType /\ rest \in Seq(EntryType) /\ Sorted(rest)
    BY <1>0, <2>1, CheckedEntry
  <2>. QED  BY <2>2, <2>3, AddKeepsOrder
<1>5. CASE UNCHANGED mBiffArray
  BY <1>0, <1>5
<1>. QED  BY <1>1, <1>2, <1>3, <1>4, <1>5
          DEF Next, PerformBiff, vars, Sleep, Wake, Shutdown, TimerFires, PassDefers, PassEnds

\* The array stays in the order PerformBiff relies on, whatever is added,
\* removed or put back in the middle of a pass.
THEOREM AlwaysInOrder == Spec => []BiffOrder
<1>1. Init => BiffOrder
  BY DEF Init, BiffOrder
<1>. QED  BY <1>1, TypeInit, TypeStep, OrderStep, PTL DEF Spec

-----------------------------------------------------------------------------
(* The timer.                                                              *)

\* SetupNextBiff leaves a timer that is in time.
LEMMA TimerInTime ==
    ASSUME TypeOK, mBiffArray' \in Seq(EntryType), SetupNextBiff(mBiffArray')
    PROVE  WokenInTime'
<1>1. mBiffArray' # <<>> => /\ mBiffTimer' # NoTimer
                            /\ \/ mBiffTimer' <= Head(mBiffArray').due
                               \/ mBiffTimer' <= LateDelay
  BY TimerIsSet
<1>. QED  BY <1>1 DEF WokenInTime

LEMMA TimerStep == TypeOK /\ BiffOrder /\ WokenInTime /\ [Next]_vars => WokenInTime'
<1>. SUFFICES ASSUME TypeOK, BiffOrder, WokenInTime, [Next]_vars
              PROVE  WokenInTime'
  OBVIOUS
<1>0. /\ mBiffArray \in Seq(EntryType) /\ Distinct(mBiffArray)
      /\ mBiffArray' \in Seq(EntryType)
      /\ mBiffTimer \in Nat \cup {NoTimer}
  BY TypeStep DEF TypeOK
<1>1. CASE \E s \in Servers : AddServerBiff(s)
  BY <1>0, <1>1, TimerInTime DEF AddServerBiff
<1>2. CASE \E s \in Servers : RemoveServerBiff(s)
  <2>1. PICK k \in 1..Len(mBiffArray) : mBiffArray' = RemoveAt(mBiffArray, k)
    BY <1>2, RemovedEntry
  <2>2. /\ Len(mBiffArray') = Len(mBiffArray) - 1
        /\ \A j \in 1..(Len(mBiffArray) - 1) :
              mBiffArray'[j] = IF j < k THEN mBiffArray[j] ELSE mBiffArray[j + 1]
    BY <1>0, <2>1, RemoveAtProperties
  <2>3. SUFFICES ASSUME mBiffArray' # <<>>, Idle', ~ asleep', ~ mHaveShutdown'
                 PROVE  /\ mBiffTimer' # NoTimer
                        /\ \/ mBiffTimer' <= Head(mBiffArray').due
                           \/ mBiffTimer' <= LateDelay
    BY DEF WokenInTime
  <2>4. Len(mBiffArray) >= 2 /\ Len(mBiffArray) \in Nat /\ mBiffArray # <<>>
    BY <1>0, <2>2, <2>3
  <2>5. /\ mBiffTimer' = mBiffTimer /\ mBiffTimer # NoTimer
        /\ mBiffTimer <= Head(mBiffArray).due \/ mBiffTimer <= LateDelay
    BY <1>2, <2>3, <2>4 DEF RemoveServerBiff, WokenInTime, Idle
  <2>6. mBiffArray[1].due <= mBiffArray[2].due
    BY <1>0, <2>4 DEF BiffOrder
  <2>7. mBiffArray'[1] = mBiffArray[1] \/ mBiffArray'[1] = mBiffArray[2]
    BY <2>2, <2>4
  <2>8. Head(mBiffArray) = mBiffArray[1] /\ Head(mBiffArray') = mBiffArray'[1]
    BY <1>0, <2>3, <2>4
  <2>9. mBiffArray[1].due \in Int /\ mBiffArray[2].due \in Int
    BY <1>0, <2>4, EntryTimes
  <2>. QED  BY <1>0, <2>5, <2>6, <2>7, <2>8, <2>9 DEF NoTimer
<1>3. CASE Sleep
  BY <1>3 DEF Sleep, WokenInTime
<1>4. CASE Wake
  BY <1>4, BiffAssumption DEF Wake, WokenInTime, NoTimer
<1>5. CASE Shutdown
  BY <1>5 DEF Shutdown, WokenInTime
<1>6. CASE Tick
  <2>1. /\ Len(mBiffArray') = Len(mBiffArray)
        /\ \A i \in 1..Len(mBiffArray) :
              mBiffArray'[i].due = IF mBiffArray[i].due < 0 THEN -1 ELSE mBiffArray[i].due - 1
    BY <1>6, TickedArray
  <2>2. SUFFICES ASSUME mBiffArray' # <<>>, Idle', ~ asleep', ~ mHaveShutdown'
                 PROVE  /\ mBiffTimer' # NoTimer
                        /\ \/ mBiffTimer' <= Head(mBiffArray').due
                           \/ mBiffTimer' <= LateDelay
    BY DEF WokenInTime
  <2>3. 1 \in 1..Len(mBiffArray) /\ mBiffArray # <<>>
    BY <1>0, <2>1, <2>2
  <2>4. /\ mBiffTimer # NoTimer
        /\ mBiffTimer <= Head(mBiffArray).due \/ mBiffTimer <= LateDelay
    BY <1>6, <2>2, <2>3 DEF Tick, WokenInTime, Idle
  <2>5. Head(mBiffArray) = mBiffArray[1] /\ Head(mBiffArray') = mBiffArray'[1]
    BY <1>0, <2>2, <2>3
  <2>6. mBiffArray[1].due \in Int
    BY <1>0, <2>3, EntryTimes
  <2>7. mBiffTimer' = IF mBiffTimer > 0 THEN mBiffTimer - 1 ELSE mBiffTimer
    BY <1>6 DEF Tick
  <2>8. mBiffTimer \in Nat /\ LateDelay \in Nat
    BY <1>0, <2>4, BiffAssumption DEF NoTimer
  <2>. QED  BY <2>1, <2>3, <2>4, <2>5, <2>6, <2>7, <2>8 DEF NoTimer
<1>7. CASE TimerFires
  BY <1>7 DEF TimerFires, WokenInTime, Idle, NoPass
<1>8. CASE PassChecks \/ PassDefers
  <2>1. ~ Idle /\ pass \in PassType /\ pass.i >= 1
    BY <1>8 DEF TypeOK, PassChecks, PassDefers, AtLateEntry, PassType
  <2>2. pass'.i # 0
    BY <1>8, <2>1 DEF PassChecks, PassDefers, PassType
  <2>. QED  BY <2>2 DEF WokenInTime, Idle, NoPass
<1>9. CASE PassEnds
  <2>1. mBiffArray' = mBiffArray /\ SetupNextBiff(mBiffArray)
    BY <1>9 DEF PassEnds
  <2>. QED  BY <1>0, <2>1, TimerInTime
<1>10. CASE UNCHANGED vars
  BY <1>10 DEF vars, WokenInTime, Idle
<1>. QED  BY <1>1, <1>2, <1>3, <1>4, <1>5, <1>6, <1>7, <1>8, <1>9, <1>10
          DEF Next, PerformBiff

\* While a server is listed and the computer is awake, the one timer is set and
\* early enough: none of AddServerBiff, RemoveServerBiff, a pass or waking up
\* leaves the manager without it.
THEOREM AlwaysWokenInTime == Spec => []WokenInTime
<1>1. Init => BiffOrder /\ WokenInTime
  BY DEF Init, BiffOrder, WokenInTime
<1>. QED  BY <1>1, TypeInit, TypeStep, OrderStep, TimerStep, PTL DEF Spec

-----------------------------------------------------------------------------
(* What a pass leaves behind.                                              *)

\* What the loop has gone past is late, and had to give way to a server with
\* the same target folder.
Deferred ==
    ~ Idle => \A j \in 1..(pass.i - 1) :
                 /\ mBiffArray[j].due < 0
                 /\ Target[mBiffArray[j].server] \in pass.targetFolders

LEMMA DeferredStep == TypeOK /\ Deferred /\ [Next]_vars => Deferred'
<1>. SUFFICES ASSUME TypeOK, Deferred, [Next]_vars
              PROVE  Deferred'
  OBVIOUS
<1>0. mBiffArray \in Seq(EntryType) /\ Distinct(mBiffArray) /\ Len(mBiffArray) \in Nat
  BY DEF TypeOK
<1>1. CASE Idle /\ UNCHANGED pass
  BY <1>1 DEF Deferred, Idle
<1>2. CASE TimerFires
  <2>1. pass'.i = 1
    BY <1>2 DEF TimerFires
  <2>. QED  BY <2>1 DEF Deferred
<1>3. CASE PassChecks
  <2>1. ~ Idle /\ AtLateEntry
    BY <1>3 DEF PassChecks, AtLateEntry
  <2>2. PICK d \in Delays :
           mBiffArray' = AddBiffEntry(RemoveAt(mBiffArray, pass.i),
                                      [server |-> mBiffArray[pass.i].server, due |-> d])
    BY <1>3 DEF PassChecks
  <2> DEFINE e == [server |-> mBiffArray[pass.i].server, due |-> d]
             rest == RemoveAt(mBiffArray, pass.i)
  <2>3. /\ pass.i \in 1..Len(mBiffArray) /\ e \in EntryType /\ e.due >= 0
        /\ rest \in Seq(EntryType) /\ Len(rest) = Len(mBiffArray) - 1
    BY <2>1, CheckedEntry
  <2>4. \A j \in 1..(Len(mBiffArray) - 1) :
           rest[j] = IF j < pass.i THEN mBiffArray[j] ELSE mBiffArray[j + 1]
    BY <1>0, <2>3, RemoveAtProperties
  <2>5. mBiffArray' = AddBiffEntry(rest, e)
    BY <2>2
  <2> HIDE DEF e, rest
  <2>6. PICK at \in 1..(Len(rest) + 1) :
           /\ mBiffArray' = InsertAt(rest, at, e)
           /\ at <= Len(rest) => e.due < rest[at].due
    BY <2>3, <2>5, PlaceForEntry
  <2>7. \A j \in 1..(Len(rest) + 1) :
           mBiffArray'[j] = IF j < at THEN rest[j] ELSE IF j = at THEN e ELSE rest[j - 1]
    BY <2>3, <2>6, InsertedEntry
  <2>8. pass' = [pass EXCEPT !.targetFolders = @ \cup {TargetHere}]
    BY <1>3 DEF PassChecks
  <2>9. pass'.i = pass.i /\ pass.targetFolders \subseteq pass'.targetFolders
    BY <2>8 DEF TypeOK, PassType
  <2>10. \A j \in 1..(pass.i - 1) :
            /\ mBiffArray[j].due < 0
            /\ Target[mBiffArray[j].server] \in pass.targetFolders
    BY <2>1 DEF Deferred
  <2>11. at >= pass.i
    <3>1. SUFFICES ASSUME at < pass.i PROVE FALSE
      BY <2>3
    <3>2. at \in 1..(pass.i - 1) /\ at <= Len(rest) /\ rest[at] = mBiffArray[at]
      BY <1>0, <2>3, <2>4, <3>1
    <3>3. mBiffArray[at].due \in Int /\ e.due \in Int
      BY <1>0, <2>3, <3>2, EntryTimes
    <3>. QED  BY <2>3, <2>6, <2>10, <3>2, <3>3
  <2>12. \A j \in 1..(pass.i - 1) : mBiffArray'[j] = mBiffArray[j]
    BY <1>0, <2>3, <2>4, <2>7, <2>11
  <2>. QED  BY <2>9, <2>10, <2>12 DEF Deferred
<1>4. CASE PassDefers
  <2>1. /\ pass' = [pass EXCEPT !.i = @ + 1] /\ ~ Idle /\ mBiffArray' = mBiffArray
        /\ mBiffArray[pass.i].due < 0 /\ TargetHere \in pass.targetFolders
    BY <1>4 DEF PassDefers, AtLateEntry
  <2>2. pass'.i = pass.i + 1 /\ pass'.targetFolders = pass.targetFolders /\ pass.i \in Nat
    BY <2>1 DEF TypeOK, PassType
  <2>3. \A j \in 1..(pass'.i - 1) : j \in 1..(pass.i - 1) \/ j = pass.i
    BY <2>2
  <2>. QED  BY <2>1, <2>2, <2>3 DEF Deferred, TargetHere
<1>5. CASE PassEnds
  BY <1>5 DEF PassEnds, Deferred, Idle
<1>6. CASE UNCHANGED vars
  BY <1>6 DEF vars, Deferred, Idle
<1>. QED  BY <1>1, <1>2, <1>3, <1>4, <1>5, <1>6
          DEF Next, PerformBiff, AddServerBiff, RemoveServerBiff, Sleep, Wake, Shutdown, Tick

\* A pass that ends has looked at every late server: it is stopped by the end
\* of the array or by an entry that is not late, behind which none is.
THEOREM NobodyOverlooked == Spec => NoneOverlooked
<1>1. Init => BiffOrder /\ Deferred
  BY DEF Init, BiffOrder, Deferred, Idle
<1>2. TypeOK /\ BiffOrder /\ Deferred =>
        (PassEnds => \A i \in DOMAIN mBiffArray :
            mBiffArray[i].due < 0 => Target[mBiffArray[i].server] \in pass.targetFolders)
  <2>1. SUFFICES ASSUME TypeOK, BiffOrder, Deferred, PassEnds,
                        NEW i \in DOMAIN mBiffArray, mBiffArray[i].due < 0
                 PROVE  Target[mBiffArray[i].server] \in pass.targetFolders
    OBVIOUS
  <2>2. /\ mBiffArray \in Seq(EntryType) /\ DOMAIN mBiffArray = 1..Len(mBiffArray)
        /\ Len(mBiffArray) \in Nat
    BY <2>1 DEF TypeOK
  <2>3. ~ Idle /\ pass.i \in Nat /\ pass.i >= 1 /\ pass.count = Len(mBiffArray)
    BY <2>1 DEF TypeOK, PassEnds, PassType
  <2>4. i < pass.i
    <3>1. SUFFICES ASSUME pass.i <= i PROVE FALSE
      BY <2>2, <2>3
    <3>2. pass.i \in DOMAIN mBiffArray /\ pass.i <= pass.count
      BY <2>2, <2>3, <3>1
    <3>3. ~ (mBiffArray[pass.i].due < 0)
      BY <2>1, <2>3, <3>2 DEF PassEnds, AtLateEntry
    <3>4. mBiffArray[pass.i].due <= mBiffArray[i].due
      <4>1. CASE pass.i = i
        BY <2>2, <3>2, <4>1, EntryTimes
      <4>2. CASE pass.i < i
        BY <2>1, <3>2, <4>2 DEF BiffOrder
      <4>. QED  BY <2>2, <2>3, <3>1, <4>1, <4>2
    <3>5. mBiffArray[pass.i].due \in Int /\ mBiffArray[i].due \in Int
      BY <2>2, <3>2, EntryTimes
    <3>. QED  BY <2>1, <3>3, <3>4, <3>5
  <2>. QED  BY <2>1, <2>2, <2>3, <2>4 DEF Deferred
<1>. QED  BY <1>1, <1>2, TypeInit, TypeStep, OrderStep, DeferredStep, PTL
          DEF Spec, NoneOverlooked
=============================================================================
