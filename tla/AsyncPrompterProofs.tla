------------------------- MODULE AsyncPrompterProofs -------------------------
(***************************************************************************)
(* What holds of the prompt queue for any keys, any number of requests, and *)
(* whatever callers do when they are called back.                          *)
(***************************************************************************)
EXTENDS AsyncPrompter, SeqLemmas, FiniteSetTheorems

\* A runnable owns the entry it was dispatched for until it deletes it; one
\* that failed never does.
Owns(r) == Unfinished(r) \/ r.pc = "failed"
CallsBack(r) == r.pc \in {"canceling", "notifying", "called"}

(* The parts of the invariant.                                             *)

Counted == IsFiniteSet(runnables) /\ CounterCounts
KeysApart ==
    \A i, j \in DOMAIN _pendingPrompts :
       _pendingPrompts[i].key = _pendingPrompts[j].key => i = j
HasEntry(r) ==
    \E i \in DOMAIN _pendingPrompts :
       /\ _pendingPrompts[i].key = r.key
       /\ r.pc # "dispatched" => _pendingPrompts[i].first = r.first
Owned ==
    \A r \in runnables : Owns(r) =>
       /\ HasEntry(r)
       /\ \A s \in runnables : Owns(s) /\ s.key = r.key => s = r
OneCallback == \A r, s \in runnables : CallsBack(r) /\ CallsBack(s) => r = s

QueueInv == TypeOK /\ Counted /\ KeysApart /\ Owned /\ OneCallback /\ OneAtATime
            /\ SomeoneWillLook
-----------------------------------------------------------------------------
(* Records and the set of runnables.                                       *)

LEMMA RunnableTypes ==
    \A key \in Keys, jumped \in BOOLEAN :
       LET r == Runnable(key, jumped)
       IN  /\ r \in RunnableType /\ r.key = key /\ r.jumped = jumped
           /\ r.pc = "dispatched" /\ Owns(r) /\ ~ CallsBack(r)
<1>. SUFFICES ASSUME NEW key \in Keys, NEW jumped \in BOOLEAN
              PROVE  LET r == Runnable(key, jumped)
                     IN  /\ r \in RunnableType /\ r.key = key /\ r.jumped = jumped
                         /\ r.pc = "dispatched" /\ Owns(r) /\ ~ CallsBack(r)
  OBVIOUS
<1>1. 0 \in 0..MaxCalls /\ <<>> \in Seq(Calls)
  BY PrompterAssumption
<1>. QED  BY <1>1 DEF Runnable, RunnableType, PCs, Owns, Unfinished, CallsBack

\* Entries have keys, and Position finds one.
LEMMA PositionFinds ==
    ASSUME TypeOK, NEW key, \E i \in DOMAIN _pendingPrompts : _pendingPrompts[i].key = key
    PROVE  LET p == Position(_pendingPrompts, key)
           IN  p \in 1..Len(_pendingPrompts) /\ _pendingPrompts[p].key = key
<1>1. Position(_pendingPrompts, key) \in DOMAIN _pendingPrompts
      /\ _pendingPrompts[Position(_pendingPrompts, key)].key = key
  BY Zenon DEF Position
<1>2. DOMAIN _pendingPrompts = 1..Len(_pendingPrompts)
  BY DEF TypeOK
<1>. QED  BY <1>1, <1>2

\* _doAsyncAuthPrompt dispatches the head of the queue when no runnable is
\* there, and then somebody will look at the queue.
LEMMA Dispatched ==
    ASSUME NEW prompts \in Seq(EntryType), NEW rs, IsFiniteSet(rs), NEW n, n = Cardinality(rs),
           DoAsyncAuthPrompt(prompts, n, rs)
    PROVE  /\ IsFiniteSet(runnables') /\ _asyncPromptInProgress' = Cardinality(runnables')
           /\ prompts # <<>> => _asyncPromptInProgress' > 0
           /\ \/ runnables' = rs
              \/ /\ rs = {} /\ prompts # <<>>
                 /\ runnables' = {Runnable(Head(prompts).key, FALSE)}
<1>1. n \in Nat
  BY FS_CardinalityType
<1>2. CASE n > 0 \/ prompts = <<>>
  BY <1>1, <1>2 DEF DoAsyncAuthPrompt
<1>3. CASE ~(n > 0 \/ prompts = <<>>)
  <2> DEFINE r == Runnable(Head(prompts).key, FALSE)
  <2>1. n = 0
    BY <1>1, <1>3
  <2>2. rs = {}
    BY <2>1, FS_EmptySet
  <2>3. runnables' = rs \cup {r} /\ _asyncPromptInProgress' = n + 1
    BY <1>3 DEF DoAsyncAuthPrompt
  <2>4. runnables' = {r} /\ _asyncPromptInProgress' = 1
    BY <2>1, <2>2, <2>3
  <2> HIDE DEF r
  <2>5. IsFiniteSet({r}) /\ Cardinality({r}) = 1
    BY FS_Singleton
  <2>6. /\ IsFiniteSet(runnables') /\ _asyncPromptInProgress' = Cardinality(runnables')
        /\ _asyncPromptInProgress' > 0
    BY <2>4, <2>5
  <2>7. rs = {} /\ prompts # <<>> /\ runnables' = {Runnable(Head(prompts).key, FALSE)}
    BY <1>3, <2>2, <2>4 DEF r
  <2>. QED  BY <2>6, <2>7
<1>. QED  BY <1>2, <1>3

\* A runnable that goes on is still one runnable.
LEMMA GoesOn ==
    ASSUME Counted, NEW r \in runnables, NEW s, s \notin runnables \ {r}, Becomes(r, s)
    PROVE  IsFiniteSet(runnables') /\ Cardinality(runnables') = Cardinality(runnables)
<1> DEFINE rest == runnables \ {r}
<1>1. IsFiniteSet(runnables)
  BY DEF Counted
<1>2. IsFiniteSet(rest) /\ Cardinality(rest) = Cardinality(runnables) - 1
  BY <1>1, FS_RemoveElement
<1>3. IsFiniteSet(rest \cup {s}) /\ Cardinality(rest \cup {s}) = Cardinality(rest) + 1
  BY <1>2, FS_AddElement
<1>4. Cardinality(runnables) \in Nat
  BY <1>1, FS_CardinalityType
<1>5. runnables' = rest \cup {s}
  BY DEF Becomes
<1>. QED  BY <1>2, <1>3, <1>4, <1>5

LEMMA OneMore ==
    ASSUME Counted, NEW r, r \notin runnables
    PROVE  /\ IsFiniteSet(runnables \cup {r})
           /\ Cardinality(runnables \cup {r}) = Cardinality(runnables) + 1
           /\ Cardinality(runnables) \in Nat
  BY FS_AddElement, FS_CardinalityType DEF Counted

LEMMA OneLess ==
    ASSUME Counted, NEW r \in runnables
    PROVE  /\ IsFiniteSet(runnables \ {r})
           /\ Cardinality(runnables \ {r}) = _asyncPromptInProgress - 1
           /\ _asyncPromptInProgress \in Nat
  BY FS_RemoveElement, FS_CardinalityType DEF Counted, CounterCounts

-----------------------------------------------------------------------------
(* Requests.                                                               *)

\* A request under a key that waits adds a consumer to the entry, no more.
LEMMA BindKeeps ==
    ASSUME QueueInv, NEW key \in Keys, key \in KeysOf(_pendingPrompts), Bind(key),
           nextCall \in Calls, nextCall' = nextCall + 1, UNCHANGED <<answer, told>>
    PROVE  QueueInv'
<1> DEFINE p == Position(_pendingPrompts, key)
<1>1. \E i \in DOMAIN _pendingPrompts : _pendingPrompts[i].key = key
  BY DEF KeysOf
<1>2. p \in 1..Len(_pendingPrompts)
  BY <1>1, PositionFinds DEF QueueInv
<1>3. /\ _pendingPrompts \in Seq(EntryType) /\ DOMAIN _pendingPrompts = 1..Len(_pendingPrompts)
      /\ _pendingPrompts[p] \in EntryType /\ Len(_pendingPrompts) \in Nat
  BY <1>2 DEF QueueInv, TypeOK
<1> DEFINE e == [_pendingPrompts[p] EXCEPT !.consumers = Append(@, nextCall)]
<1>4. /\ e \in EntryType
      /\ e.key = _pendingPrompts[p].key /\ e.first = _pendingPrompts[p].first
  <2>1. ASSUME NEW x \in EntryType
        PROVE  LET y == [x EXCEPT !.consumers = Append(@, nextCall)]
               IN  y \in EntryType /\ y.key = x.key /\ y.first = x.first
    <3>1. x.consumers \in Seq(Calls)
      BY DEF EntryType
    <3>2. Append(x.consumers, nextCall) \in Seq(Calls)
      BY <3>1
    <3>. QED  BY <3>2 DEF EntryType
  <2>. QED  BY <1>3, <2>1
<1>5. _pendingPrompts' = [_pendingPrompts EXCEPT ![p] = e]
  BY DEF Bind
<1>5a. sharing' = [sharing EXCEPT ![nextCall] = _pendingPrompts[p].first]
  BY DEF Bind
<1> HIDE DEF p, e
<1>6. /\ _pendingPrompts' \in Seq(EntryType) /\ DOMAIN _pendingPrompts' = DOMAIN _pendingPrompts
      /\ \A i \in DOMAIN _pendingPrompts :
            /\ _pendingPrompts'[i].key = _pendingPrompts[i].key
            /\ _pendingPrompts'[i].first = _pendingPrompts[i].first
  BY <1>2, <1>3, <1>4, <1>5
<1>7. UNCHANGED <<_asyncPromptInProgress, runnables, answer, told>>
  BY DEF Bind
<1>8. TypeOK'
  <2>1. sharing' \in [Calls -> 0..MaxCalls]
    <3>1. _pendingPrompts[p].first \in 0..MaxCalls
      BY <1>3, PrompterAssumption DEF EntryType, Calls
    <3>. QED  BY <1>5a, <3>1 DEF QueueInv, TypeOK
  <2>2. nextCall' \in 1..(MaxCalls + 1)
    BY PrompterAssumption DEF Calls
  <2>. QED  BY <1>6, <1>7, <2>1, <2>2 DEF QueueInv, TypeOK
<1>9. KeysApart'
  BY <1>6 DEF QueueInv, KeysApart
<1>10. Owned'
  BY <1>6, <1>7 DEF QueueInv, Owned, HasEntry
<1>11. SomeoneWillLook'
  <2>1. _pendingPrompts # <<>> /\ _asyncPromptInProgress > 0
    BY <1>2, <1>3 DEF QueueInv, SomeoneWillLook
  <2>. QED  BY <1>7, <2>1 DEF SomeoneWillLook
<1>12. (Counted /\ OneCallback /\ OneAtATime)'
  BY <1>7 DEF QueueInv, Counted, CounterCounts, OneCallback, OneAtATime
<1>. QED  BY <1>8, <1>9, <1>10, <1>11, <1>12 DEF QueueInv

\* A new entry at the end of the queue, seen from the runnables there are.
LEMMA EntryAdded ==
    ASSUME QueueInv, NEW key \in Keys, key \notin KeysOf(_pendingPrompts), nextCall \in Calls,
           _pendingPrompts' =
             Append(_pendingPrompts, [key |-> key, first |-> nextCall, consumers |-> <<>>])
    PROVE  /\ _pendingPrompts' \in Seq(EntryType) /\ _pendingPrompts' # <<>> /\ KeysApart'
           /\ \A r \in runnables : Owns(r) => HasEntry(r)' /\ r.key # key
           /\ \E i \in DOMAIN _pendingPrompts' : _pendingPrompts'[i].key = key
           /\ Head(_pendingPrompts').key \in Keys
           /\ \E i \in DOMAIN _pendingPrompts' :
                 _pendingPrompts'[i].key = Head(_pendingPrompts').key
<1> DEFINE e == [key |-> key, first |-> nextCall, consumers |-> <<>>]
           n == Len(_pendingPrompts)
<1>1. e \in EntryType /\ e.key = key
  BY DEF EntryType
<1>2. _pendingPrompts \in Seq(EntryType) /\ n \in Nat /\ DOMAIN _pendingPrompts = 1..n
  BY DEF QueueInv, TypeOK
<1>3. _pendingPrompts' = Append(_pendingPrompts, e)
  OBVIOUS
<1> HIDE DEF e
<1>4. /\ _pendingPrompts' \in Seq(EntryType) /\ DOMAIN _pendingPrompts' = 1..(n + 1)
      /\ _pendingPrompts' # <<>>
      /\ \A i \in 1..n : _pendingPrompts'[i] = _pendingPrompts[i]
      /\ _pendingPrompts'[n + 1] = e
  BY <1>1, <1>2, <1>3
<1> HIDE DEF n
<1>5. \A i \in 1..n : _pendingPrompts[i].key # key
  BY <1>2 DEF KeysOf
<1>6. KeysApart'
  <2>1. SUFFICES ASSUME NEW i \in 1..(n + 1), NEW j \in 1..(n + 1),
                        _pendingPrompts'[i].key = _pendingPrompts'[j].key
                 PROVE  i = j
    BY <1>4 DEF KeysApart
  <2>2. (i \in 1..n \/ i = n + 1) /\ (j \in 1..n \/ j = n + 1)
    BY <1>2
  <2>. QED  BY <1>1, <1>2, <1>4, <1>5, <2>1, <2>2 DEF QueueInv, KeysApart
<1>7. ASSUME NEW r \in runnables, Owns(r)
      PROVE  HasEntry(r)' /\ r.key # key
  <2>1. PICK i \in 1..n : /\ _pendingPrompts[i].key = r.key
                          /\ r.pc # "dispatched" => _pendingPrompts[i].first = r.first
    BY <1>2, <1>7 DEF QueueInv, Owned, HasEntry
  <2>2. i \in DOMAIN _pendingPrompts' /\ _pendingPrompts'[i] = _pendingPrompts[i]
    BY <1>2, <1>4, <2>1
  <2>3. HasEntry(r)'
    BY <2>1, <2>2 DEF HasEntry
  <2>. QED  BY <1>5, <2>1, <2>3
<1>8. \E i \in DOMAIN _pendingPrompts' : _pendingPrompts'[i].key = key
  <2>1. n + 1 \in DOMAIN _pendingPrompts' /\ _pendingPrompts'[n + 1].key = key
    BY <1>1, <1>2, <1>4
  <2>. QED  BY <2>1
<1>9. Head(_pendingPrompts') = _pendingPrompts'[1] /\ 1 \in DOMAIN _pendingPrompts'
  BY <1>2, <1>4
<1>10. _pendingPrompts'[1] \in EntryType
  BY <1>4, <1>9
<1>. QED  BY <1>4, <1>6, <1>7, <1>8, <1>9, <1>10 DEF EntryType

\* One runnable more, for an entry that no runnable owns.
LEMMA RunnableAdded ==
    ASSUME TypeOK, Owned, OneCallback, OneAtATime,
           NEW k \in Keys, NEW j \in BOOLEAN, runnables' = runnables \cup {Runnable(k, j)},
           \A r \in runnables : Owns(r) => HasEntry(r)' /\ r.key # k,
           \E i \in DOMAIN _pendingPrompts' : _pendingPrompts'[i].key = k,
           j \/ runnables = {}
    PROVE  /\ Runnable(k, j) \notin runnables
           /\ runnables' \subseteq RunnableType
           /\ Owned' /\ OneCallback' /\ OneAtATime'
<1> DEFINE x == Runnable(k, j)
<1>1. /\ x \in RunnableType /\ x.key = k /\ x.jumped = j
      /\ x.pc = "dispatched" /\ Owns(x) /\ ~ CallsBack(x)
  BY RunnableTypes
<1>2. runnables' = runnables \cup {x}
  OBVIOUS
<1> HIDE DEF x
<1>3. x \notin runnables
  BY <1>1
<1>4. runnables' \subseteq RunnableType
  BY <1>1, <1>2 DEF TypeOK
<1>5. HasEntry(x)'
  BY <1>1 DEF HasEntry
<1>6. Owned'
  BY <1>1, <1>2, <1>5 DEF Owned
<1>7. OneCallback'
  BY <1>1, <1>2 DEF OneCallback
<1>8. OneAtATime'
  BY <1>1, <1>2 DEF OneAtATime
<1>. QED  BY <1>3, <1>4, <1>6, <1>7, <1>8 DEF x

\* A request under a new key: one entry more, and perhaps a runnable.
LEMMA AddKeeps ==
    ASSUME QueueInv, NEW key \in Keys, NEW jump \in BOOLEAN,
           key \notin KeysOf(_pendingPrompts), Add(key, jump),
           nextCall \in Calls, nextCall' = nextCall + 1, UNCHANGED <<answer, told>>
    PROVE  QueueInv'
<1>1. /\ _pendingPrompts' \in Seq(EntryType) /\ _pendingPrompts' # <<>> /\ KeysApart'
      /\ \A r \in runnables : Owns(r) => HasEntry(r)' /\ r.key # key
      /\ \E i \in DOMAIN _pendingPrompts' : _pendingPrompts'[i].key = key
      /\ Head(_pendingPrompts').key \in Keys
      /\ \E i \in DOMAIN _pendingPrompts' :
            _pendingPrompts'[i].key = Head(_pendingPrompts').key
  BY EntryAdded DEF Add
<1>2. /\ TypeOK /\ Counted /\ Owned /\ OneCallback /\ OneAtATime
      /\ IsFiniteSet(runnables) /\ _asyncPromptInProgress = Cardinality(runnables)
      /\ _asyncPromptInProgress \in Nat
  BY DEF QueueInv, Counted, CounterCounts, TypeOK
<1>3. sharing' \in [Calls -> 0..MaxCalls] /\ nextCall' \in 1..(MaxCalls + 1)
  BY <1>2, PrompterAssumption DEF Add, TypeOK, Calls
<1>4. SUFFICES /\ runnables' \subseteq RunnableType /\ Counted' /\ Owned' /\ OneCallback'
               /\ OneAtATime' /\ _asyncPromptInProgress' \in Nat /\ SomeoneWillLook'
  BY <1>1, <1>2, <1>3 DEF QueueInv, TypeOK
<1>5. CASE jump
  <2>1. /\ runnables' = runnables \cup {Runnable(key, TRUE)}
        /\ _asyncPromptInProgress' = _asyncPromptInProgress + 1
    BY <1>5 DEF Add
  <2>2. /\ Runnable(key, TRUE) \notin runnables
        /\ runnables' \subseteq RunnableType
        /\ Owned' /\ OneCallback' /\ OneAtATime'
    BY <1>1, <1>2, <2>1, RunnableAdded
  <2>3. IsFiniteSet(runnables') /\ Cardinality(runnables') = Cardinality(runnables) + 1
    BY <1>2, <2>1, <2>2, OneMore
  <2>4. Counted' /\ _asyncPromptInProgress' \in Nat /\ _asyncPromptInProgress' > 0
    BY <1>2, <2>1, <2>3 DEF Counted, CounterCounts
  <2>. QED  BY <2>2, <2>4 DEF SomeoneWillLook
<1>6. CASE ~ jump
  <2>1. DoAsyncAuthPrompt(_pendingPrompts', _asyncPromptInProgress, runnables)
    BY <1>6 DEF Add
  <2>2. /\ IsFiniteSet(runnables') /\ _asyncPromptInProgress' = Cardinality(runnables')
        /\ _asyncPromptInProgress' > 0
        /\ \/ runnables' = runnables
           \/ /\ runnables = {}
              /\ runnables' = {Runnable(Head(_pendingPrompts').key, FALSE)}
    BY <1>1, <1>2, <2>1, Dispatched
  <2>3. Counted' /\ SomeoneWillLook' /\ _asyncPromptInProgress' \in Nat
    BY <2>2, FS_CardinalityType DEF Counted, CounterCounts, SomeoneWillLook
  <2>4. CASE runnables' = runnables
    <3>1. Owned'
      BY <1>1, <1>2, <2>4 DEF Owned
    <3>. QED  BY <1>2, <2>3, <2>4, <3>1 DEF TypeOK, OneCallback, OneAtATime
  <2>5. CASE runnables = {} /\ runnables' = {Runnable(Head(_pendingPrompts').key, FALSE)}
    <3>1. runnables' = runnables \cup {Runnable(Head(_pendingPrompts').key, FALSE)}
      BY <2>5
    <3>2. runnables' \subseteq RunnableType /\ Owned' /\ OneCallback' /\ OneAtATime'
      BY <1>1, <1>2, <2>5, <3>1, RunnableAdded
    <3>. QED  BY <2>3, <3>2
  <2>. QED  BY <2>2, <2>4, <2>5
<1>. QED  BY <1>5, <1>6

-----------------------------------------------------------------------------
(* Runnables.                                                              *)

\* A runnable that owns its entry, before and after a step.
LEMMA OwnerGoesOn ==
    ASSUME QueueInv, NEW r \in runnables, Owns(r),
           NEW s \in RunnableType, Owns(s), s.key = r.key, s.jumped = r.jumped, HasEntry(s),
           CallsBack(s) => CallsBack(r) \/ ~ CallingBack,
           Becomes(r, s),
           UNCHANGED <<_pendingPrompts, _asyncPromptInProgress, nextCall, sharing, told>>,
           answer' \in [Calls -> {"none", "ok", "canceled"}]
    PROVE  QueueInv'
<1>1. runnables' = (runnables \ {r}) \cup {s}
  BY DEF Becomes
<1>2. \A u \in runnables : Owns(u) /\ u.key = r.key => u = r
  BY DEF QueueInv, Owned
<1>3. s \notin runnables \ {r}
  BY <1>2
<1>4. Counted'
  BY <1>3, GoesOn DEF QueueInv, Counted, CounterCounts
<1>5. TypeOK'
  BY <1>1 DEF QueueInv, TypeOK
<1>6. Owned'
  <2>1. ASSUME NEW u \in runnables', Owns(u)
        PROVE  HasEntry(u)
    BY <1>1, <2>1 DEF QueueInv, Owned
  <2>2. ASSUME NEW u \in runnables', NEW v \in runnables', Owns(u), Owns(v), u.key = v.key
        PROVE  v = u
    BY <1>1, <1>2, <2>2 DEF QueueInv, Owned
  <2>3. \A u : HasEntry(u)' <=> HasEntry(u)
    BY DEF HasEntry
  <2>. QED  BY <2>1, <2>2, <2>3 DEF Owned
<1>7. OneCallback'
  <2>1. \A u \in runnables : CallsBack(u) => CallingBack
    BY DEF CallsBack, CallingBack
  <2>. QED  BY <1>1, <2>1 DEF QueueInv, OneCallback
<1>8. OneAtATime'
  BY <1>1 DEF QueueInv, OneAtATime
<1>9. KeysApart' /\ SomeoneWillLook'
  BY DEF QueueInv, KeysApart, SomeoneWillLook
<1>. QED  BY <1>4, <1>5, <1>6, <1>7, <1>8, <1>9 DEF QueueInv

\* A runnable that no longer owns an entry, and may call back, goes on.
LEMMA CallerGoesOn ==
    ASSUME QueueInv, NEW r \in runnables, NEW s \in RunnableType,
           CallsBack(r) \/ ~ CallingBack, s.pc \in {"notifying", "called"},
           s.jumped = r.jumped, Becomes(r, s),
           UNCHANGED <<_asyncPromptInProgress, nextCall, sharing, answer>>,
           _pendingPrompts' \in Seq(EntryType), KeysApart',
           _pendingPrompts' # <<>> => _pendingPrompts # <<>>,
           \A u \in runnables \ {r} : Owns(u) => HasEntry(u)',
           told' \in [Calls -> {"none", "ok", "canceled"}]
    PROVE  QueueInv'
<1>1. runnables' = (runnables \ {r}) \cup {s}
  BY DEF Becomes
<1>2. CallsBack(s) /\ ~ Owns(s)
  BY DEF CallsBack, Owns, Unfinished
<1>3. \A u \in runnables : CallsBack(u) => u = r
  BY DEF QueueInv, OneCallback, CallsBack, CallingBack
<1>4. s \notin runnables \ {r}
  BY <1>2, <1>3
<1>5. Counted'
  BY <1>4, GoesOn DEF QueueInv, Counted, CounterCounts
<1>6. TypeOK'
  BY <1>1 DEF QueueInv, TypeOK
<1>7. Owned'
  BY <1>1, <1>2 DEF QueueInv, Owned
<1>8. OneCallback' /\ OneAtATime'
  BY <1>1, <1>3 DEF QueueInv, OneCallback, OneAtATime
<1>9. SomeoneWillLook'
  BY DEF QueueInv, SomeoneWillLook
<1>. QED  BY <1>5, <1>6, <1>7, <1>8, <1>9 DEF QueueInv

LEMMA StartsKeeps ==
    ASSUME QueueInv, NEW r \in runnables, PromptStarts(r)
    PROVE  QueueInv'
<1> DEFINE p == Position(_pendingPrompts, r.key)
           s == [r EXCEPT !.pc = "asking", !.first = _pendingPrompts[p].first]
<1>1. r \in RunnableType /\ r.pc = "dispatched" /\ Owns(r)
  BY DEF QueueInv, TypeOK, PromptStarts, Owns, Unfinished
<1>2. HasEntry(r)
  BY <1>1 DEF QueueInv, Owned
<1>3. p \in 1..Len(_pendingPrompts) /\ _pendingPrompts[p].key = r.key
  BY <1>2, PositionFinds DEF QueueInv, HasEntry
<1>4. _pendingPrompts[p] \in EntryType /\ DOMAIN _pendingPrompts = 1..Len(_pendingPrompts)
  BY <1>3 DEF QueueInv, TypeOK
<1>5. _pendingPrompts[p].first \in 0..MaxCalls
  BY <1>4, PrompterAssumption DEF EntryType, Calls
<1>6. /\ s \in RunnableType /\ s.key = r.key /\ s.jumped = r.jumped
      /\ s.pc = "asking" /\ s.first = _pendingPrompts[p].first
  BY <1>1, <1>5 DEF RunnableType, PCs
<1>7. Becomes(r, s)
  BY DEF PromptStarts
<1>8. UNCHANGED <<_pendingPrompts, _asyncPromptInProgress, nextCall, sharing, answer, told>>
  BY DEF PromptStarts
<1> HIDE DEF p, s
<1>9. HasEntry(s) /\ Owns(s) /\ ~ CallsBack(s)
  BY <1>3, <1>4, <1>6 DEF HasEntry, Owns, Unfinished, CallsBack
<1>10. answer' \in [Calls -> {"none", "ok", "canceled"}]
  BY <1>8 DEF QueueInv, TypeOK
<1>. QED  BY <1>1, <1>6, <1>7, <1>8, <1>9, <1>10, OwnerGoesOn

\* What a runnable that owns its entry becomes when only its pc and its result
\* change.
After(r, pc, ok) == [r EXCEPT !.pc = pc, !.ok = ok]

LEMMA SameOwner ==
    ASSUME QueueInv, NEW r \in runnables, Owns(r), r.pc # "dispatched",
           NEW pc \in {"answered", "canceling", "failed"}, NEW ok \in BOOLEAN
    PROVE  LET s == After(r, pc, ok)
           IN  /\ s \in RunnableType /\ s.key = r.key /\ s.jumped = r.jumped
               /\ s.first = r.first /\ s.pc = pc /\ Owns(s) /\ HasEntry(s)
<1> DEFINE s == After(r, pc, ok)
<1>1. r \in RunnableType /\ HasEntry(r)
  BY DEF QueueInv, TypeOK, Owned
<1>2. /\ s \in RunnableType /\ s.key = r.key /\ s.jumped = r.jumped
      /\ s.first = r.first /\ s.pc = pc
  BY <1>1 DEF RunnableType, PCs, After
<1> HIDE DEF s
<1>3. Owns(s) /\ HasEntry(s)
  BY <1>1, <1>2 DEF Owns, Unfinished, HasEntry
<1>. QED  BY <1>2, <1>3 DEF s

LEMMA AnsweredKeeps ==
    ASSUME QueueInv, NEW r \in runnables, Answered(r)
    PROVE  QueueInv'
<1>1. Owns(r) /\ r.pc # "dispatched" /\ ~ CallingBack /\ r \in RunnableType
  BY DEF Answered, PromptAnswered, PromptFails, Owns, Unfinished, QueueInv, TypeOK
<1>2. /\ UNCHANGED <<_pendingPrompts, _asyncPromptInProgress, nextCall, sharing, told>>
      /\ answer' \in [Calls -> {"none", "ok", "canceled"}]
  BY DEF Answered, PromptAnswered, PromptFails, QueueInv, TypeOK
<1>3. \E pc \in {"answered", "canceling", "failed"}, ok \in BOOLEAN :
         Becomes(r, After(r, pc, ok))
  <2>1. CASE \E ok \in BOOLEAN : PromptAnswered(r, ok)
    BY <2>1 DEF PromptAnswered, After
  <2>2. CASE PromptFails(r)
    <3>1. [r EXCEPT !.pc = "canceling"] = [r EXCEPT !.pc = "canceling", !.ok = r.ok]
          /\ r.ok \in BOOLEAN
      BY <1>1 DEF RunnableType
    <3>. QED  BY <2>2, <3>1 DEF PromptFails, After
  <2>. QED  BY <2>1, <2>2 DEF Answered
<1>4. PICK pc \in {"answered", "canceling", "failed"}, ok \in BOOLEAN :
         Becomes(r, After(r, pc, ok))
  BY <1>3
<1> DEFINE s == After(r, pc, ok)
<1>5. /\ s \in RunnableType /\ s.key = r.key /\ s.jumped = r.jumped
      /\ Owns(s) /\ HasEntry(s)
  BY <1>1, SameOwner
<1>6. Becomes(r, s)
  BY <1>4
<1> HIDE DEF s
<1>. QED  BY <1>1, <1>2, <1>5, <1>6, OwnerGoesOn

LEMMA CancelFailsKeeps ==
    ASSUME QueueInv, NEW r \in runnables, CancelFails(r)
    PROVE  QueueInv'
<1>1. Owns(r) /\ r.pc # "dispatched" /\ CallsBack(r) /\ r \in RunnableType
  BY DEF CancelFails, Owns, Unfinished, CallsBack, QueueInv, TypeOK
<1> DEFINE s == After(r, "failed", r.ok)
<1>2. [r EXCEPT !.pc = "failed"] = s /\ r.ok \in BOOLEAN
  BY <1>1 DEF RunnableType, After
<1>3. /\ s \in RunnableType /\ s.key = r.key /\ s.jumped = r.jumped
      /\ Owns(s) /\ HasEntry(s)
  BY <1>1, <1>2, SameOwner
<1>4. Becomes(r, s)
  BY <1>2 DEF CancelFails
<1>5. /\ UNCHANGED <<_pendingPrompts, _asyncPromptInProgress, nextCall, sharing, told>>
      /\ answer' \in [Calls -> {"none", "ok", "canceled"}]
  BY DEF CancelFails, QueueInv, TypeOK
<1> HIDE DEF s
<1>. QED  BY <1>1, <1>3, <1>4, <1>5, OwnerGoesOn

LEMMA EntryDeletedKeeps ==
    ASSUME QueueInv, NEW r \in runnables, EntryDeleted(r)
    PROVE  QueueInv'
<1> DEFINE n == Len(_pendingPrompts)
           p == Position(_pendingPrompts, r.key)
           s == [r EXCEPT !.pc = "notifying", !.left = _pendingPrompts[p].consumers]
<1>1. r \in RunnableType /\ Owns(r) /\ (CallsBack(r) \/ ~ CallingBack)
  BY DEF EntryDeleted, QueueInv, TypeOK, Owns, Unfinished, CallsBack
<1>2. _pendingPrompts \in Seq(EntryType) /\ n \in Nat /\ DOMAIN _pendingPrompts = 1..n
  BY DEF QueueInv, TypeOK
<1>3. \E i \in DOMAIN _pendingPrompts : _pendingPrompts[i].key = r.key
  BY <1>1 DEF QueueInv, Owned, HasEntry
<1>4. p \in 1..n /\ _pendingPrompts[p].key = r.key
  BY <1>3, PositionFinds DEF QueueInv
<1>5. _pendingPrompts[p].consumers \in Seq(Calls)
  <2>1. _pendingPrompts[p] \in EntryType
    BY <1>2, <1>4
  <2> HIDE DEF p
  <2>. QED  BY <2>1 DEF EntryType
<1>6. s \in RunnableType /\ s.jumped = r.jumped /\ s.pc = "notifying"
  BY <1>1, <1>5 DEF RunnableType, PCs
<1>7. /\ _pendingPrompts' = RemoveAt(_pendingPrompts, p) /\ Becomes(r, s)
      /\ UNCHANGED <<_asyncPromptInProgress, nextCall, sharing, answer, told>>
  BY DEF EntryDeleted
<1> HIDE DEF p, s
<1> DEFINE E == EntryType
<1>8. _pendingPrompts \in Seq(E) /\ p \in 1..Len(_pendingPrompts)
  BY <1>2, <1>4
<1> HIDE DEF E
<1>9. /\ RemoveAt(_pendingPrompts, p) \in Seq(E)
      /\ Len(RemoveAt(_pendingPrompts, p)) = n - 1
      /\ \A j \in 1..(n - 1) :
            RemoveAt(_pendingPrompts, p)[j] =
              IF j < p THEN _pendingPrompts[j] ELSE _pendingPrompts[j + 1]
  BY <1>8, RemoveAtProperties
<1>10. /\ _pendingPrompts' \in Seq(EntryType) /\ DOMAIN _pendingPrompts' = 1..(n - 1)
       /\ \A j \in 1..(n - 1) :
             _pendingPrompts'[j] = IF j < p THEN _pendingPrompts[j] ELSE _pendingPrompts[j + 1]
  BY <1>7, <1>9 DEF E
<1> HIDE DEF n
<1>11. KeysApart'
  <2>1. SUFFICES ASSUME NEW i \in 1..(n - 1), NEW j \in 1..(n - 1),
                        _pendingPrompts'[i].key = _pendingPrompts'[j].key
                 PROVE  i = j
    BY <1>10 DEF KeysApart
  <2> DEFINE was(k) == IF k < p THEN k ELSE k + 1
  <2>2. /\ was(i) \in 1..n /\ _pendingPrompts'[i] = _pendingPrompts[was(i)]
        /\ was(j) \in 1..n /\ _pendingPrompts'[j] = _pendingPrompts[was(j)]
    BY <1>2, <1>4, <1>10
  <2>3. was(i) = was(j)
    BY <1>2, <2>1, <2>2 DEF QueueInv, KeysApart
  <2>. QED  BY <1>2, <1>4, <2>3
<1>12. ASSUME NEW u \in runnables \ {r}, Owns(u)
       PROVE  HasEntry(u)'
  <2>1. u.key # r.key
    BY <1>1, <1>12 DEF QueueInv, Owned
  <2>2. PICK i \in 1..n : /\ _pendingPrompts[i].key = u.key
                          /\ u.pc # "dispatched" => _pendingPrompts[i].first = u.first
    BY <1>2, <1>12 DEF QueueInv, Owned, HasEntry
  <2>3. i # p
    BY <1>4, <2>1, <2>2
  <2> DEFINE now == IF i < p THEN i ELSE i - 1
  <2>4. now \in 1..(n - 1) /\ _pendingPrompts'[now] = _pendingPrompts[i]
    BY <1>2, <1>4, <1>10, <2>3
  <2> HIDE DEF now
  <2>. QED  BY <1>10, <2>2, <2>4 DEF HasEntry
<1>13. _pendingPrompts # <<>>
  BY <1>3
<1>14. told' \in [Calls -> {"none", "ok", "canceled"}]
  BY <1>7 DEF QueueInv, TypeOK
<1>15. s.pc \in {"notifying", "called"}
  BY <1>6
<1>16. UNCHANGED <<_asyncPromptInProgress, nextCall, sharing, answer>>
  BY <1>7
<1>. QED  BY <1>1, <1>6, <1>7, <1>10, <1>11, <1>12, <1>13, <1>14, <1>15, <1>16, CallerGoesOn

LEMMA TellConsumerKeeps ==
    ASSUME QueueInv, NEW r \in runnables, TellConsumer(r)
    PROVE  QueueInv'
<1> DEFINE s == [r EXCEPT !.pc = "called", !.left = Tail(@)]
<1>1. r \in RunnableType /\ CallsBack(r)
  BY DEF TellConsumer, QueueInv, TypeOK, CallsBack
<1>2. r.left \in Seq(Calls) /\ Head(r.left) \in Calls /\ Tail(r.left) \in Seq(Calls)
  BY <1>1 DEF RunnableType, TellConsumer
<1>3. s \in RunnableType /\ s.jumped = r.jumped /\ s.pc \in {"notifying", "called"}
  BY <1>1, <1>2 DEF RunnableType, PCs
<1>4. /\ Becomes(r, s)
      /\ UNCHANGED <<_pendingPrompts, _asyncPromptInProgress, nextCall, sharing, answer>>
  BY DEF TellConsumer
<1> HIDE DEF s
<1>5. told' \in [Calls -> {"none", "ok", "canceled"}]
  BY <1>2 DEF TellConsumer, QueueInv, TypeOK
<1>6. _pendingPrompts' \in Seq(EntryType) /\ KeysApart'
  BY <1>4 DEF QueueInv, TypeOK, KeysApart
<1>7. ASSUME NEW u \in runnables \ {r}, Owns(u)
      PROVE  HasEntry(u)'
  BY <1>4, <1>7 DEF QueueInv, Owned, HasEntry
<1>. QED  BY <1>1, <1>3, <1>4, <1>5, <1>6, <1>7, CallerGoesOn

\* The last runnable dispatches the next prompt; the entries then belong to
\* no other.
LEMMA PromptEndsKeeps ==
    ASSUME QueueInv, NEW r \in runnables, PromptEnds(r)
    PROVE  QueueInv'
<1> DEFINE rs == runnables \ {r}
           x == Runnable(Head(_pendingPrompts).key, FALSE)
<1>1. /\ DoAsyncAuthPrompt(_pendingPrompts, _asyncPromptInProgress - 1, rs)
      /\ UNCHANGED <<_pendingPrompts, nextCall, sharing, answer, told>>
  BY DEF PromptEnds
<1>2. IsFiniteSet(rs) /\ _asyncPromptInProgress - 1 = Cardinality(rs)
  BY OneLess DEF QueueInv
<1>3. _pendingPrompts \in Seq(EntryType)
  BY DEF QueueInv, TypeOK
<1>4. /\ IsFiniteSet(runnables') /\ _asyncPromptInProgress' = Cardinality(runnables')
      /\ _pendingPrompts # <<>> => _asyncPromptInProgress' > 0
      /\ \/ runnables' = rs
         \/ rs = {} /\ _pendingPrompts # <<>> /\ runnables' = {x}
  BY <1>1, <1>2, <1>3, Dispatched
<1>5. Counted' /\ SomeoneWillLook' /\ _asyncPromptInProgress' \in Nat
  BY <1>1, <1>4, FS_CardinalityType DEF Counted, CounterCounts, SomeoneWillLook
<1>6. KeysApart' /\ (\A u : HasEntry(u)' <=> HasEntry(u))
  BY <1>1 DEF QueueInv, KeysApart, HasEntry
<1>7. SUFFICES runnables' \subseteq RunnableType /\ Owned' /\ OneCallback' /\ OneAtATime'
  BY <1>1, <1>5, <1>6 DEF QueueInv, TypeOK
<1>8. CASE runnables' = rs
  BY <1>6, <1>8 DEF QueueInv, TypeOK, Owned, OneCallback, OneAtATime
<1>9. CASE rs = {} /\ _pendingPrompts # <<>> /\ runnables' = {x}
  <2>1. /\ Head(_pendingPrompts) = _pendingPrompts[1] /\ 1 \in DOMAIN _pendingPrompts
        /\ _pendingPrompts[1] \in EntryType
    BY <1>3, <1>9
  <2>2. Head(_pendingPrompts).key \in Keys
    BY <2>1 DEF EntryType
  <2>3. x \in RunnableType /\ x.key = Head(_pendingPrompts).key /\ x.pc = "dispatched"
    BY <2>2, RunnableTypes
  <2> HIDE DEF x
  <2>4. HasEntry(x)
    BY <2>1, <2>3 DEF HasEntry
  <2>. QED  BY <1>6, <1>9, <2>3, <2>4 DEF Owned, OneCallback, OneAtATime
<1>. QED  BY <1>4, <1>8, <1>9

-----------------------------------------------------------------------------
LEMMA QueueInitially == Init => QueueInv
<1>. SUFFICES ASSUME Init
              PROVE  QueueInv
  OBVIOUS
<1>1. IsFiniteSet({}) /\ Cardinality({}) = 0
  BY FS_EmptySet
<1>2. TypeOK
  BY PrompterAssumption DEF Init, TypeOK, Calls
<1>. QED  BY <1>1, <1>2 DEF Init, QueueInv, Counted, CounterCounts, KeysApart, Owned, OneCallback,
                          OneAtATime, SomeoneWillLook

LEMMA QueueStep == QueueInv /\ [Next]_vars => QueueInv'
<1>. SUFFICES ASSUME QueueInv, [Next]_vars
              PROVE  QueueInv'
  OBVIOUS
<1>1. ASSUME NEW key \in Keys, NEW jump \in BOOLEAN, QueueAsyncAuthPrompt(key, jump)
      PROVE  QueueInv'
  <2>1. CASE key \in KeysOf(_pendingPrompts) /\ Bind(key)
    BY <1>1, <2>1, BindKeeps DEF QueueAsyncAuthPrompt
  <2>2. CASE key \notin KeysOf(_pendingPrompts) /\ Add(key, jump)
    BY <1>1, <2>2, AddKeeps DEF QueueAsyncAuthPrompt
  <2>. QED  BY <1>1, <2>1, <2>2 DEF QueueAsyncAuthPrompt
<1>2. ASSUME NEW r \in runnables, Run(r)
      PROVE  QueueInv'
  BY <1>2, StartsKeeps, AnsweredKeeps, CancelFailsKeeps, EntryDeletedKeeps, TellConsumerKeeps,
     PromptEndsKeeps, Zenon DEF Run
<1>3. CASE UNCHANGED vars
  BY <1>3 DEF vars, QueueInv, TypeOK, Counted, CounterCounts, KeysApart, Owned, HasEntry,
              OneCallback, OneAtATime, SomeoneWillLook
<1>. QED  BY <1>1, <1>2, <1>3, Zenon DEF Next, ProtocolAsks, CalleeAsks

LEMMA QueueAlways == Spec => []QueueInv
<1>. QED  BY QueueInitially, QueueStep, PTL DEF Spec

\* Every variable of the prompt queue keeps its shape.
THEOREM PrompterTypeCorrect == Spec => []TypeOK
<1>1. QueueInv => TypeOK
  BY DEF QueueInv
<1>. QED  BY <1>1, QueueAlways, PTL

\* _asyncPromptInProgress is the number of runnables that have not come to
\* their end: _doAsyncAuthPrompt and run() count them in and out exactly.
THEOREM CounterIsRight == Spec => []CounterCounts
<1>1. QueueInv => CounterCounts
  BY DEF QueueInv, Counted
<1>. QED  BY <1>1, QueueAlways, PTL

\* The early return of _doAsyncAuthPrompt loses no prompt: while one waits,
\* a runnable is there that will look at the queue when it ends.
THEOREM NoLostWakeup == Spec => []SomeoneWillLook
<1>1. QueueInv => SomeoneWillLook
  BY DEF QueueInv
<1>. QED  BY <1>1, QueueAlways, PTL

\* The lookup of run() after its await finds the entry it was dispatched for,
\* with the caller that will prompt, and no other runnable is on that entry.
THEOREM EntryIsFound == Spec => []FindsItsEntry
<1>1. QueueInv => FindsItsEntry
  BY DEF QueueInv, FindsItsEntry, Owned, Owns, HasEntry
<1>. QED  BY <1>1, QueueAlways, PTL

\* Two prompts are up at once only if one of them jumped the queue.
THEOREM OnePromptAtATime == Spec => []OneAtATime
<1>1. QueueInv => OneAtATime
  BY DEF QueueInv
<1>. QED  BY <1>1, QueueAlways, PTL

-----------------------------------------------------------------------------
(* What callers hear.  A consumer that waits shares the prompt of one first *)
(* caller, and has been told nothing; it is in one place only, because the  *)
(* first callers of entries and of runnables that tell are all different.   *)

Outcome(ok) == IF ok THEN "ok" ELSE "canceled"
Past(r) == r.pc \in {"answered", "canceling", "failed"}
Telling(r) == r.pc \in {"notifying", "called"}

Waits(s, first) ==
    /\ \A k \in DOMAIN s : s[k] < nextCall /\ sharing[s[k]] = first /\ told[s[k]] = "none"
    /\ \A j, k \in DOMAIN s : s[j] = s[k] => j = k

EntryOK(e) ==
    /\ e.first < nextCall
    /\ Waits(e.consumers, e.first)
    /\ answer[e.first] # "none" => \E r \in runnables : r.key = e.key /\ Past(r)

RunOK(r) ==
    /\ r.pc \in {"dispatched", "asking"} => r.ok = FALSE
    /\ r.pc # "dispatched" => r.first \in Calls /\ r.first < nextCall
    /\ r.pc = "asking" => answer[r.first] = "none"
    /\ Past(r) \/ Telling(r) => answer[r.first] = Outcome(r.ok)
    /\ Telling(r) => /\ Waits(r.left, r.first)
                     /\ \A i \in DOMAIN _pendingPrompts : _pendingPrompts[i].first # r.first

Fresh == \A c \in Calls : c >= nextCall => answer[c] = "none" /\ told[c] = "none"
EntriesOK == \A i \in DOMAIN _pendingPrompts : EntryOK(_pendingPrompts[i])
RunsOK == \A r \in runnables : RunOK(r)
FirstsApart ==
    \A i, j \in DOMAIN _pendingPrompts :
       _pendingPrompts[i].first = _pendingPrompts[j].first => i = j
HeardRight ==
    \A c \in Calls : told[c] # "none" => sharing[c] \in Calls /\ told[c] = answer[sharing[c]]

HearInv == Fresh /\ EntriesOK /\ RunsOK /\ FirstsApart /\ HeardRight

LEMMA EntryTypes ==
    ASSUME TypeOK, NEW i \in DOMAIN _pendingPrompts
    PROVE  /\ _pendingPrompts[i] \in EntryType
           /\ _pendingPrompts[i].key \in Keys /\ _pendingPrompts[i].first \in Calls
           /\ _pendingPrompts[i].consumers \in Seq(Calls)
<1>1. _pendingPrompts[i] \in EntryType
  BY DEF TypeOK
<1>. QED  BY <1>1 DEF EntryType

\* A request leaves the consumers that wait as they are.
LEMMA WaitsOn ==
    ASSUME TypeOK, NEW s \in Seq(Calls), NEW f, Waits(s, f), nextCall' = nextCall + 1,
           told' = told, \A c \in Calls : c < nextCall => sharing'[c] = sharing[c]
    PROVE  Waits(s, f)'
<1>1. \A k \in DOMAIN s : s[k] \in Calls
  OBVIOUS
<1>2. nextCall \in Nat /\ (\A c \in Calls : c \in Nat /\ (c < nextCall => c < nextCall'))
  BY PrompterAssumption DEF TypeOK, Calls
<1>. QED  BY <1>1, <1>2 DEF Waits

\* A request leaves what was there before as it is.
LEMMA RequestHears ==
    ASSUME QueueInv, HearInv, nextCall \in Calls, nextCall' = nextCall + 1, NEW f \in Calls,
           sharing' = [sharing EXCEPT ![nextCall] = f], UNCHANGED <<answer, told>>,
           runnables \subseteq runnables',
           \A r \in runnables' : r \in runnables \/ (r.pc = "dispatched" /\ r.ok = FALSE),
           \A i \in DOMAIN _pendingPrompts' :
              \/ _pendingPrompts'[i].first = nextCall
              \/ \E j \in DOMAIN _pendingPrompts :
                    _pendingPrompts'[i].first = _pendingPrompts[j].first
    PROVE  /\ Fresh' /\ HeardRight' /\ RunsOK'
           /\ \A e \in EntryType : EntryOK(e) => EntryOK(e)'
<1>1. /\ TypeOK /\ nextCall \in Nat
      /\ \A c \in Calls : c \in Nat /\ (c < nextCall => c < nextCall' /\ c # nextCall)
  BY PrompterAssumption DEF QueueInv, TypeOK, Calls
<1>2. \A c \in Calls : c < nextCall => sharing'[c] = sharing[c]
  BY <1>1 DEF TypeOK
<1>3. Fresh'
  BY <1>1 DEF HearInv, Fresh
<1>4. HeardRight'
  <2>1. SUFFICES ASSUME NEW c \in Calls, told[c] # "none"
                 PROVE  sharing'[c] \in Calls /\ told[c] = answer[sharing'[c]]
    BY DEF HeardRight
  <2>2. c < nextCall
    BY <1>1, <2>1 DEF HearInv, Fresh
  <2>. QED  BY <1>2, <2>1, <2>2 DEF HearInv, HeardRight
<1>5. ASSUME NEW e \in EntryType, EntryOK(e)
      PROVE  EntryOK(e)'
  <2>1. e.first \in Calls /\ e.consumers \in Seq(Calls)
    BY DEF EntryType
  <2>2. Waits(e.consumers, e.first)'
    BY <1>1, <1>2, <1>5, <2>1, WaitsOn DEF EntryOK
  <2>3. e.first < nextCall'
    BY <1>1, <1>5, <2>1 DEF EntryOK
  <2>. QED  BY <1>5, <2>2, <2>3 DEF EntryOK
<1>6. RunsOK'
  <2>1. SUFFICES ASSUME NEW r \in runnables'
                 PROVE  RunOK(r)'
    BY DEF RunsOK
  <2>2. CASE r.pc = "dispatched" /\ r.ok = FALSE
    BY <2>2 DEF RunOK, Past, Telling
  <2>3. CASE r \in runnables
    <3>1. RunOK(r) /\ r.left \in Seq(Calls)
      BY <1>1, <2>3 DEF HearInv, RunsOK, TypeOK, RunnableType
    <3>2. r.pc # "dispatched" => r.first \in Calls /\ r.first < nextCall'
      BY <1>1, <3>1 DEF RunOK
    <3>3. ASSUME Telling(r)
          PROVE  /\ Waits(r.left, r.first)'
                 /\ \A i \in DOMAIN _pendingPrompts' : _pendingPrompts'[i].first # r.first
      <4>1. Waits(r.left, r.first)'
        BY <1>1, <1>2, <3>1, <3>3, WaitsOn DEF RunOK
      <4>2. r.first \in Calls /\ r.first < nextCall
        BY <3>1, <3>3 DEF RunOK, Telling
      <4>3. r.first # nextCall
        BY <1>1, <4>2
      <4>. QED  BY <3>1, <3>3, <4>1, <4>3 DEF RunOK
    <3>. QED  BY <3>1, <3>2, <3>3 DEF RunOK
  <2>. QED  BY <2>1, <2>2, <2>3
<1>. QED  BY <1>3, <1>4, <1>5, <1>6

LEMMA BindHears ==
    ASSUME QueueInv, HearInv, NEW key \in Keys, key \in KeysOf(_pendingPrompts), Bind(key),
           nextCall \in Calls, nextCall' = nextCall + 1, UNCHANGED <<answer, told>>
    PROVE  HearInv'
<1>1. PICK p \in DOMAIN _pendingPrompts : p = Position(_pendingPrompts, key)
  <2>1. \E i \in DOMAIN _pendingPrompts : _pendingPrompts[i].key = key
    BY DEF KeysOf
  <2>2. DOMAIN _pendingPrompts = 1..Len(_pendingPrompts)
    BY DEF QueueInv, TypeOK
  <2>. QED  BY <2>1, <2>2, PositionFinds DEF QueueInv
<1>2. PICK e \in EntryType : e = _pendingPrompts[p]
  BY EntryTypes DEF QueueInv
<1>3. e.first \in Calls /\ e.consumers \in Seq(Calls) /\ EntryOK(e)
  BY <1>2 DEF HearInv, EntriesOK, EntryType
<1>4. PICK x : /\ x = [e EXCEPT !.consumers = Append(@, nextCall)]
               /\ x.first = e.first /\ x.key = e.key
               /\ x.consumers = Append(e.consumers, nextCall)
  <2> DEFINE x == [e EXCEPT !.consumers = Append(@, nextCall)]
  <2>1. /\ x.first = e.first /\ x.key = e.key
        /\ x.consumers = Append(e.consumers, nextCall)
    BY DEF EntryType
  <2>. QED  BY <2>1, Zenon
<1>5. /\ _pendingPrompts' = [_pendingPrompts EXCEPT ![p] = x]
      /\ sharing' = [sharing EXCEPT ![nextCall] = e.first]
      /\ UNCHANGED runnables
  BY <1>1, <1>2, <1>4 DEF Bind
<1>6. /\ DOMAIN _pendingPrompts' = DOMAIN _pendingPrompts /\ _pendingPrompts'[p] = x
      /\ \A i \in DOMAIN _pendingPrompts : i # p => _pendingPrompts'[i] = _pendingPrompts[i]
  BY <1>5 DEF QueueInv, TypeOK
<1>7. \A i \in DOMAIN _pendingPrompts' : _pendingPrompts'[i].first = _pendingPrompts[i].first
  BY <1>2, <1>4, <1>6
<1>8. /\ Fresh' /\ HeardRight' /\ RunsOK'
      /\ \A y \in EntryType : EntryOK(y) => EntryOK(y)'
  BY <1>3, <1>5, <1>6, <1>7, RequestHears
<1>9. FirstsApart'
  BY <1>6, <1>7 DEF HearInv, FirstsApart
<1>10. EntryOK(x)'
  <2>1. EntryOK(e)'
    BY <1>3, <1>8
  <2>2. PICK s \in Seq(Calls) : s = e.consumers
    BY <1>3
  <2>3. PICK t : t = Append(s, nextCall)
    OBVIOUS
  <2>4. PICK n \in Nat : /\ DOMAIN s = 1..n /\ DOMAIN t = 1..(n + 1)
                         /\ \A k \in 1..n : t[k] = s[k] /\ s[k] \in Calls
                         /\ t[n + 1] = nextCall
    BY <2>2, <2>3
  <2>5. nextCall \in Nat /\ (\A c \in Calls : c \in Nat /\ (c < nextCall => c # nextCall))
    BY PrompterAssumption DEF QueueInv, TypeOK, Calls
  <2>6. \A k \in 1..n : t[k] # nextCall
    BY <1>3, <2>2, <2>4, <2>5 DEF EntryOK, Waits
  <2>7. nextCall < nextCall' /\ sharing'[nextCall] = e.first /\ told'[nextCall] = "none"
    BY <1>5, <2>5 DEF QueueInv, TypeOK, HearInv, Fresh
  <2>8. Waits(s, e.first)'
    BY <2>1, <2>2 DEF EntryOK
  <2>9. \A k \in DOMAIN t : k \in 1..n \/ k = n + 1
    BY <2>4
  <2>10. \A k \in DOMAIN t :
            t[k] < nextCall' /\ sharing'[t[k]] = e.first /\ told'[t[k]] = "none"
    BY <2>4, <2>7, <2>8, <2>9 DEF Waits
  <2>11. \A j, k \in DOMAIN t : t[j] = t[k] => j = k
    <3>1. \A j, k \in 1..n : t[j] = t[k] => j = k
      BY <2>4, <2>8 DEF Waits
    <3>. QED  BY <2>4, <2>6, <2>9, <3>1
  <2>12. Waits(t, e.first)'
    BY <2>10, <2>11 DEF Waits
  <2>. QED  BY <1>4, <1>5, <2>1, <2>2, <2>3, <2>12 DEF EntryOK
<1>11. EntriesOK'
  <2>1. SUFFICES ASSUME NEW i \in DOMAIN _pendingPrompts
                 PROVE  EntryOK(_pendingPrompts[i])'
    BY <1>6 DEF EntriesOK
  <2>2. CASE i = p
    BY <1>6, <1>10, <2>2 DEF EntryOK
  <2>3. CASE i # p
    <3>1. PICK y \in EntryType : y = _pendingPrompts[i] /\ EntryOK(y)
      BY EntryTypes DEF QueueInv, HearInv, EntriesOK
    <3>2. EntryOK(y)' /\ _pendingPrompts'[i] = y
      BY <1>6, <1>8, <2>3, <3>1
    <3>. QED  BY <3>2 DEF EntryOK
  <2>. QED  BY <2>2, <2>3
<1>. QED  BY <1>8, <1>9, <1>11 DEF HearInv

\* _doAsyncAuthPrompt adds at most a runnable that has not run.
LEMMA OnlyDispatches ==
    ASSUME NEW prompts, NEW n, NEW rs, DoAsyncAuthPrompt(prompts, n, rs)
    PROVE  /\ rs \subseteq runnables'
           /\ \A r \in runnables' : r \in rs \/ (r.pc = "dispatched" /\ r.ok = FALSE)
  BY DEF DoAsyncAuthPrompt, Runnable

LEMMA AddHears ==
    ASSUME QueueInv, HearInv, NEW key \in Keys, NEW jump \in BOOLEAN, Add(key, jump),
           nextCall \in Calls, nextCall' = nextCall + 1, UNCHANGED <<answer, told>>
    PROVE  HearInv'
<1>1. PICK e \in EntryType : e = [key |-> key, first |-> nextCall, consumers |-> <<>>]
  <2>1. [key |-> key, first |-> nextCall, consumers |-> <<>>] \in EntryType
    BY DEF EntryType
  <2>. QED  BY <2>1, Zenon
<1>2. /\ _pendingPrompts' = Append(_pendingPrompts, e)
      /\ sharing' = [sharing EXCEPT ![nextCall] = nextCall]
  BY <1>1 DEF Add
<1>3. /\ runnables \subseteq runnables'
      /\ \A r \in runnables' : r \in runnables \/ (r.pc = "dispatched" /\ r.ok = FALSE)
  <2>1. CASE jump
    BY <2>1 DEF Add, Runnable
  <2>2. CASE ~ jump
    BY <2>2, OnlyDispatches DEF Add
  <2>. QED  BY <2>1, <2>2
<1>4. e.first = nextCall /\ e.consumers = <<>>
  BY <1>1
<1>5. PICK n \in Nat : /\ DOMAIN _pendingPrompts = 1..n /\ DOMAIN _pendingPrompts' = 1..(n + 1)
                       /\ \A i \in 1..n : _pendingPrompts'[i] = _pendingPrompts[i]
                       /\ _pendingPrompts'[n + 1] = e
  BY <1>2 DEF QueueInv, TypeOK
<1>6. \A i \in DOMAIN _pendingPrompts' : i \in DOMAIN _pendingPrompts \/ i = n + 1
  BY <1>5
<1>7. /\ Fresh' /\ HeardRight' /\ RunsOK'
      /\ \A y \in EntryType : EntryOK(y) => EntryOK(y)'
  BY <1>2, <1>3, <1>4, <1>5, <1>6, RequestHears
<1>8. nextCall < nextCall' /\ \A c \in Calls : c < nextCall => c # nextCall
  BY DEF Calls
<1>9. FirstsApart'
  <2>1. \A i \in 1..n : _pendingPrompts'[i].first # nextCall
    <3>1. \A i \in 1..n : _pendingPrompts[i].first \in Calls /\ _pendingPrompts[i].first < nextCall
      BY <1>5, EntryTypes DEF QueueInv, HearInv, EntriesOK, EntryOK
    <3>. QED  BY <1>5, <1>8, <3>1
  <2>2. \A i, j \in 1..n : _pendingPrompts'[i].first = _pendingPrompts'[j].first => i = j
    BY <1>5 DEF HearInv, FirstsApart
  <2>. QED  BY <1>4, <1>5, <1>6, <2>1, <2>2 DEF FirstsApart
<1>10. EntryOK(e)'
  <2>1. answer'[nextCall] = "none"
    BY DEF HearInv, Fresh, Calls
  <2>2. Waits(e.consumers, e.first)'
    BY <1>4 DEF Waits
  <2>. QED  BY <1>4, <1>8, <2>1, <2>2 DEF EntryOK
<1>11. EntriesOK'
  <2>1. SUFFICES ASSUME NEW i \in DOMAIN _pendingPrompts'
                 PROVE  EntryOK(_pendingPrompts[i])'
    BY DEF EntriesOK
  <2>2. CASE i = n + 1
    BY <1>5, <1>10, <2>2 DEF EntryOK
  <2>3. CASE i \in DOMAIN _pendingPrompts
    <3>1. PICK y \in EntryType : y = _pendingPrompts[i] /\ EntryOK(y)
      BY <2>3, EntryTypes DEF QueueInv, HearInv, EntriesOK
    <3>2. EntryOK(y)' /\ _pendingPrompts'[i] = y
      BY <1>5, <1>7, <2>3, <3>1
    <3>. QED  BY <3>2 DEF EntryOK
  <2>. QED  BY <1>6, <2>2, <2>3
<1>. QED  BY <1>7, <1>9, <1>11 DEF HearInv

\* Before its entry is deleted, a runnable is the only one whose first caller
\* is the entry's: what becomes of that caller's prompt is news to all others.
LEMMA OwnerHears ==
    ASSUME QueueInv, HearInv, NEW r \in runnables, Owns(r), NEW s, Becomes(r, s),
           s.key = r.key, s.pc = "asking" \/ Past(s),
           s.pc = "asking" => s.ok = FALSE,
           UNCHANGED <<_pendingPrompts, nextCall, sharing, told>>,
           NEW i \in DOMAIN _pendingPrompts,
           _pendingPrompts[i].key = r.key, _pendingPrompts[i].first = s.first,
           \A c \in Calls : c # s.first => answer'[c] = answer[c],
           s.pc = "asking" => answer'[s.first] = "none",
           Past(s) => answer'[s.first] = Outcome(s.ok),
           answer[s.first] = "none" \/ answer' = answer
    PROVE  HearInv'
<1> DEFINE f == s.first
<1>1. f \in Calls /\ f < nextCall
  BY EntryTypes DEF QueueInv, HearInv, EntriesOK, EntryOK
<1>2. runnables' = (runnables \ {r}) \cup {s}
  BY DEF Becomes
<1>3. Fresh'
  <2>1. nextCall \in Nat /\ f \in Nat
    BY <1>1, PrompterAssumption DEF QueueInv, TypeOK, Calls
  <2>2. ~ (f >= nextCall)
    BY <1>1, <2>1
  <2>. QED  BY <2>2 DEF HearInv, Fresh
<1>4. HeardRight'
  BY DEF HearInv, HeardRight
<1>5. FirstsApart'
  BY DEF HearInv, FirstsApart
<1>6. EntriesOK'
  <2>1. SUFFICES ASSUME NEW j \in DOMAIN _pendingPrompts
                 PROVE  EntryOK(_pendingPrompts[j])'
    BY DEF EntriesOK
  <2>2. PICK e \in EntryType : e = _pendingPrompts[j] /\ EntryOK(e) /\ e.first \in Calls
    BY EntryTypes DEF QueueInv, HearInv, EntriesOK
  <2>3. Waits(e.consumers, e.first)' /\ e.first < nextCall'
    BY <2>2 DEF EntryOK, Waits
  <2>4. answer'[e.first] # "none" => \E u \in runnables' : u.key = e.key /\ Past(u)
    <3>1. CASE e.first = f
      <4>1. e.key = r.key
        BY <2>2, <3>1 DEF HearInv, FirstsApart
      <4>. QED  BY <1>2, <3>1, <4>1
    <3>2. CASE e.first # f
      <4>1. SUFFICES ASSUME answer[e.first] # "none"
                     PROVE  \E u \in runnables' : u.key = e.key /\ Past(u)
        BY <2>2, <3>2
      <4>2. PICK u \in runnables : u.key = e.key /\ Past(u)
        BY <2>2, <4>1 DEF EntryOK
      <4>3. u # r
        BY <2>2, <3>2, <4>2 DEF QueueInv, KeysApart
      <4>. QED  BY <1>2, <4>2, <4>3
    <3>. QED  BY <3>1, <3>2
  <2>5. EntryOK(e)' /\ _pendingPrompts'[j] = e
    BY <2>2, <2>3, <2>4 DEF EntryOK
  <2>. QED  BY <2>5 DEF EntryOK
<1>7. RunsOK'
  <2>1. SUFFICES ASSUME NEW u \in runnables'
                 PROVE  RunOK(u)'
    BY DEF RunsOK
  <2>2. CASE u = s
    BY <1>1, <2>2 DEF RunOK, Past, Telling
  <2>3. CASE u \in runnables \ {r}
    <3>1. RunOK(u) /\ u \in RunnableType
      BY <2>3 DEF HearInv, RunsOK, QueueInv, TypeOK
    <3>2. CASE u.pc = "dispatched"
      BY <3>1, <3>2 DEF RunOK, Past, Telling
    <3>3. CASE u.pc # "dispatched"
      <4>1. u.first # f
        <5>1. CASE Telling(u)
          BY <3>1, <5>1 DEF RunOK
        <5>2. CASE Owns(u)
          <6>1. u.key # r.key
            BY <2>3, <5>2 DEF QueueInv, Owned
          <6>2. PICK j \in DOMAIN _pendingPrompts :
                        _pendingPrompts[j].key = u.key /\ _pendingPrompts[j].first = u.first
            BY <2>3, <3>3, <5>2 DEF QueueInv, Owned, HasEntry
          <6>. QED  BY <6>1, <6>2 DEF HearInv, FirstsApart
        <5>. QED  BY <3>1, <5>1, <5>2 DEF RunnableType, PCs, Telling, Owns, Unfinished
      <4>2. answer'[u.first] = answer[u.first]
        BY <3>1, <3>3, <4>1 DEF RunOK
      <4>3. Telling(u) => Waits(u.left, u.first)'
        BY <3>1 DEF RunOK, Waits
      <4>. QED  BY <3>1, <3>3, <4>2, <4>3 DEF RunOK
    <3>. QED  BY <3>2, <3>3
  <2>. QED  BY <1>2, <2>2, <2>3
<1>. QED  BY <1>3, <1>4, <1>5, <1>6, <1>7 DEF HearInv

LEMMA StartsHears ==
    ASSUME QueueInv, HearInv, NEW r \in runnables, PromptStarts(r)
    PROVE  HearInv'
<1>1. r \in RunnableType /\ r.pc = "dispatched" /\ Owns(r) /\ RunOK(r)
  BY DEF QueueInv, TypeOK, PromptStarts, Owns, Unfinished, HearInv, RunsOK
<1>2. PICK i \in DOMAIN _pendingPrompts : /\ i = Position(_pendingPrompts, r.key)
                                          /\ _pendingPrompts[i].key = r.key
  <2>1. \E i \in DOMAIN _pendingPrompts : _pendingPrompts[i].key = r.key
    BY <1>1 DEF QueueInv, Owned, HasEntry
  <2>2. DOMAIN _pendingPrompts = 1..Len(_pendingPrompts)
    BY DEF QueueInv, TypeOK
  <2>. QED  BY <2>1, <2>2, PositionFinds DEF QueueInv
<1>3. PICK s : s = [r EXCEPT !.pc = "asking", !.first = _pendingPrompts[i].first]
  OBVIOUS
<1>4. /\ s.key = r.key /\ s.pc = "asking" /\ s.ok = r.ok /\ s.first = _pendingPrompts[i].first
  BY <1>1, <1>3 DEF RunnableType
<1>5. /\ Becomes(r, s)
      /\ UNCHANGED <<_pendingPrompts, nextCall, sharing, answer, told>>
  BY <1>2, <1>3 DEF PromptStarts
<1>6. answer[s.first] = "none"
  <2>1. SUFFICES ASSUME answer[s.first] # "none"
                 PROVE  FALSE
    OBVIOUS
  <2>2. PICK u \in runnables : u.key = r.key /\ Past(u)
    BY <1>2, <1>4, <2>1 DEF HearInv, EntriesOK, EntryOK
  <2>3. u = r
    BY <1>1, <2>2 DEF QueueInv, Owned, Past, Owns, Unfinished
  <2>. QED  BY <1>1, <2>2, <2>3 DEF Past
<1>7. s.ok = FALSE /\ ~ Past(s)
  BY <1>1, <1>4 DEF RunOK, Past
<1>. QED  BY <1>1, <1>2, <1>4, <1>5, <1>6, <1>7, OwnerHears

LEMMA AnsweredHears ==
    ASSUME QueueInv, HearInv, NEW r \in runnables, Answered(r)
    PROVE  HearInv'
<1>1. r \in RunnableType /\ r.pc = "asking" /\ Owns(r) /\ RunOK(r)
  BY DEF QueueInv, TypeOK, Answered, PromptAnswered, PromptFails, Owns, Unfinished, HearInv,
         RunsOK
<1>2. PICK pc \in {"answered", "canceling"}, ok \in BOOLEAN :
         /\ Becomes(r, After(r, pc, ok))
         /\ answer' = [answer EXCEPT ![r.first] = Outcome(ok)]
  <2>1. CASE \E ok \in BOOLEAN : PromptAnswered(r, ok)
    BY <2>1 DEF PromptAnswered, After, Outcome
  <2>2. CASE PromptFails(r)
    <3>1. [r EXCEPT !.pc = "canceling"] = After(r, "canceling", FALSE)
      BY <1>1 DEF RunnableType, RunOK, After
    <3>2. Outcome(FALSE) = "canceled"
      BY DEF Outcome
    <3>3. /\ Becomes(r, After(r, "canceling", FALSE))
          /\ answer' = [answer EXCEPT ![r.first] = Outcome(FALSE)]
      BY <2>2, <3>1, <3>2 DEF PromptFails
    <3>. QED  BY <3>3
  <2>. QED  BY <2>1, <2>2 DEF Answered
<1>3. PICK s : s = After(r, pc, ok)
  OBVIOUS
<1>4. s.key = r.key /\ s.pc = pc /\ s.ok = ok /\ s.first = r.first
  BY <1>1, <1>3 DEF RunnableType, After
<1>5. UNCHANGED <<_pendingPrompts, nextCall, sharing, told>>
  BY DEF Answered, PromptAnswered, PromptFails
<1>6. PICK i \in DOMAIN _pendingPrompts :
              _pendingPrompts[i].key = r.key /\ _pendingPrompts[i].first = r.first
  BY <1>1 DEF QueueInv, Owned, HasEntry
<1>7. answer[r.first] = "none" /\ r.first \in Calls
  BY <1>1 DEF RunOK
<1>8. answer'[r.first] = Outcome(ok) /\ \A c \in Calls : c # r.first => answer'[c] = answer[c]
  BY <1>2, <1>7 DEF QueueInv, TypeOK
<1>9. Past(s) /\ s.pc # "asking"
  BY <1>4 DEF Past
<1>. QED  BY <1>1, <1>2, <1>3, <1>4, <1>5, <1>6, <1>7, <1>8, <1>9, OwnerHears

LEMMA CancelFailsHears ==
    ASSUME QueueInv, HearInv, NEW r \in runnables, CancelFails(r)
    PROVE  HearInv'
<1>1. /\ r \in RunnableType /\ r.pc = "canceling" /\ Owns(r) /\ RunOK(r)
  BY DEF QueueInv, TypeOK, CancelFails, Owns, Unfinished, HearInv, RunsOK
<1>2. PICK s : s = [r EXCEPT !.pc = "failed"]
  OBVIOUS
<1>3. s.key = r.key /\ s.pc = "failed" /\ s.ok = r.ok /\ s.first = r.first
  BY <1>1, <1>2 DEF RunnableType
<1>4. /\ Becomes(r, s)
      /\ UNCHANGED <<_pendingPrompts, nextCall, sharing, answer, told>>
  BY <1>2 DEF CancelFails
<1>5. PICK i \in DOMAIN _pendingPrompts :
              _pendingPrompts[i].key = r.key /\ _pendingPrompts[i].first = r.first
  BY <1>1 DEF QueueInv, Owned, HasEntry
<1>6. answer[r.first] = Outcome(r.ok) /\ Past(s) /\ s.pc # "asking"
  BY <1>1, <1>3 DEF RunOK, Past
<1>. QED  BY <1>1, <1>3, <1>4, <1>5, <1>6, OwnerHears

\* The consumers of a deleted entry wait for its runnable to call them, and no
\* other entry has its first caller.
LEMMA EntryDeletedHears ==
    ASSUME QueueInv, HearInv, NEW r \in runnables, EntryDeleted(r)
    PROVE  HearInv'
<1>1. r \in RunnableType /\ Past(r) /\ Owns(r) /\ RunOK(r) /\ r.pc # "dispatched"
  BY DEF QueueInv, TypeOK, EntryDeleted, Past, Owns, Unfinished, HearInv, RunsOK
<1>2. PICK n \in Nat : n = Len(_pendingPrompts) /\ DOMAIN _pendingPrompts = 1..n
  BY DEF QueueInv, TypeOK
<1>3. PICK p \in 1..n : /\ p = Position(_pendingPrompts, r.key)
                        /\ _pendingPrompts[p].key = r.key
  <2>1. \E i \in DOMAIN _pendingPrompts : _pendingPrompts[i].key = r.key
    BY <1>1 DEF QueueInv, Owned, HasEntry
  <2>. QED  BY <1>2, <2>1, PositionFinds DEF QueueInv
<1>4. _pendingPrompts[p].first = r.first
  BY <1>1, <1>2, <1>3 DEF QueueInv, Owned, HasEntry, KeysApart
<1>5. PICK s : s = [r EXCEPT !.pc = "notifying", !.left = _pendingPrompts[p].consumers]
  OBVIOUS
<1>6. /\ s.pc = "notifying" /\ s.ok = r.ok /\ s.first = r.first
      /\ s.left = _pendingPrompts[p].consumers
  BY <1>1, <1>5 DEF RunnableType
<1>7. /\ _pendingPrompts' = RemoveAt(_pendingPrompts, p)
      /\ runnables' = (runnables \ {r}) \cup {s}
      /\ UNCHANGED <<nextCall, sharing, answer, told>>
  BY <1>3, <1>5 DEF EntryDeleted, Becomes
<1>8. PICK was \in [1..(n - 1) -> 1..n] :
         /\ DOMAIN _pendingPrompts' = 1..(n - 1)
         /\ \A j \in 1..(n - 1) : _pendingPrompts'[j] = _pendingPrompts[was[j]] /\ was[j] # p
         /\ \A i, j \in 1..(n - 1) : was[i] = was[j] => i = j
  <2> DEFINE E == EntryType
             was == [j \in 1..(n - 1) |-> IF j < p THEN j ELSE j + 1]
  <2>1. _pendingPrompts \in Seq(E) /\ p \in 1..Len(_pendingPrompts)
    BY <1>2 DEF QueueInv, TypeOK
  <2> HIDE DEF E
  <2>2. /\ RemoveAt(_pendingPrompts, p) \in Seq(E)
        /\ Len(RemoveAt(_pendingPrompts, p)) = Len(_pendingPrompts) - 1
        /\ \A j \in 1..(Len(_pendingPrompts) - 1) :
              RemoveAt(_pendingPrompts, p)[j] =
                IF j < p THEN _pendingPrompts[j] ELSE _pendingPrompts[j + 1]
    BY <2>1, RemoveAtProperties
  <2>3. /\ DOMAIN _pendingPrompts' = 1..(n - 1)
        /\ \A j \in 1..(n - 1) :
              _pendingPrompts'[j] = IF j < p THEN _pendingPrompts[j] ELSE _pendingPrompts[j + 1]
    BY <1>2, <1>7, <2>2
  <2>4. was \in [1..(n - 1) -> 1..n]
    OBVIOUS
  <2>5. \A j \in 1..(n - 1) : _pendingPrompts'[j] = _pendingPrompts[was[j]] /\ was[j] # p
    BY <2>3
  <2>6. \A i, j \in 1..(n - 1) : was[i] = was[j] => i = j
    OBVIOUS
  <2> HIDE DEF was
  <2>. QED  BY <2>3, <2>4, <2>5, <2>6
<1>9. ASSUME NEW j \in DOMAIN _pendingPrompts'
      PROVE  /\ was[j] \in DOMAIN _pendingPrompts /\ was[j] # p
             /\ _pendingPrompts'[j] = _pendingPrompts[was[j]]
  BY <1>2, <1>8, <1>9
<1>10. Fresh' /\ HeardRight'
  BY <1>7 DEF HearInv, Fresh, HeardRight
<1>11. FirstsApart'
  BY <1>2, <1>8 DEF HearInv, FirstsApart
<1>12. \A x, f : Waits(x, f)' <=> Waits(x, f)
  BY <1>7 DEF Waits
<1>13. EntriesOK'
  <2>1. SUFFICES ASSUME NEW j \in DOMAIN _pendingPrompts'
                 PROVE  EntryOK(_pendingPrompts[j])'
    BY DEF EntriesOK
  <2>2. PICK e : e = _pendingPrompts[was[j]] /\ _pendingPrompts'[j] = e /\ EntryOK(e)
    BY <1>9 DEF HearInv, EntriesOK
  <2>3. e.key # r.key
    BY <1>2, <1>3, <1>9, <2>2 DEF QueueInv, KeysApart
  <2>4. EntryOK(e)'
    BY <1>7, <1>12, <2>2, <2>3 DEF EntryOK
  <2>. QED  BY <2>2, <2>4 DEF EntryOK
<1>14. RunsOK'
  <2>1. SUFFICES ASSUME NEW u \in runnables'
                 PROVE  RunOK(u)'
    BY DEF RunsOK
  <2>2. CASE u = s
    <3>1. Waits(s.left, s.first)
      BY <1>2, <1>4, <1>6 DEF HearInv, EntriesOK, EntryOK
    <3>2. \A j \in DOMAIN _pendingPrompts' : _pendingPrompts'[j].first # s.first
      BY <1>2, <1>4, <1>6, <1>9 DEF HearInv, FirstsApart
    <3>. QED  BY <1>1, <1>6, <1>7, <1>12, <2>2, <3>1, <3>2 DEF RunOK, Past, Telling
  <2>3. CASE u \in runnables
    <3>1. RunOK(u)
      BY <2>3 DEF HearInv, RunsOK
    <3>. QED  BY <1>7, <1>9, <1>12, <3>1 DEF RunOK
  <2>. QED  BY <1>7, <2>2, <2>3
<1>. QED  BY <1>10, <1>11, <1>13, <1>14 DEF HearInv

\* The consumer that is told waits nowhere else.
LEMMA TellConsumerHears ==
    ASSUME QueueInv, HearInv, NEW r \in runnables, TellConsumer(r)
    PROVE  HearInv'
<1>1. r \in RunnableType /\ Telling(r) /\ RunOK(r) /\ Waits(r.left, r.first)
  BY DEF QueueInv, TypeOK, TellConsumer, Telling, HearInv, RunsOK, RunOK
<1>2. PICK n \in Nat : /\ DOMAIN r.left = 1..(n + 1) /\ DOMAIN Tail(r.left) = 1..n
                       /\ \A k \in 1..n : Tail(r.left)[k] = r.left[k + 1]
  <2>1. r.left \in Seq(Calls) /\ r.left # <<>>
    BY <1>1 DEF RunnableType, TellConsumer
  <2>2. /\ Len(r.left) - 1 \in Nat /\ DOMAIN r.left = 1..((Len(r.left) - 1) + 1)
        /\ DOMAIN Tail(r.left) = 1..(Len(r.left) - 1)
        /\ \A k \in 1..(Len(r.left) - 1) : Tail(r.left)[k] = r.left[k + 1]
    BY <2>1
  <2>. QED  BY <2>2
<1>3. PICK c \in Calls : c = Head(r.left) /\ c = r.left[1]
  BY <1>1 DEF RunnableType, TellConsumer
<1>4. c < nextCall /\ sharing[c] = r.first /\ told[c] = "none"
  BY <1>1, <1>2, <1>3 DEF Waits
<1>5. PICK s : s = [r EXCEPT !.pc = "called", !.left = Tail(@)]
  OBVIOUS
<1>6. s.pc = "called" /\ s.ok = r.ok /\ s.first = r.first /\ s.left = Tail(r.left)
  BY <1>1, <1>5 DEF RunnableType
<1>7. /\ told' = [told EXCEPT ![c] = Outcome(r.ok)]
      /\ runnables' = (runnables \ {r}) \cup {s}
      /\ UNCHANGED <<_pendingPrompts, nextCall, sharing, answer>>
  BY <1>3, <1>5 DEF TellConsumer, Becomes, Outcome
<1>8. told'[c] = Outcome(r.ok) /\ \A d \in Calls : d # c => told'[d] = told[d]
  BY <1>7 DEF QueueInv, TypeOK
<1>9. Fresh'
  <2>1. nextCall \in Nat /\ c \in Nat
    BY PrompterAssumption DEF QueueInv, TypeOK, Calls
  <2>2. ~ (c >= nextCall)
    BY <1>4, <2>1
  <2>. QED  BY <1>7, <1>8, <2>2 DEF HearInv, Fresh
<1>10. HeardRight'
  BY <1>1, <1>4, <1>7, <1>8 DEF HearInv, HeardRight, RunOK, Telling
<1>11. FirstsApart'
  BY <1>7 DEF HearInv, FirstsApart
<1>12. EntriesOK'
  <2>1. SUFFICES ASSUME NEW i \in DOMAIN _pendingPrompts
                 PROVE  EntryOK(_pendingPrompts[i])'
    BY <1>7 DEF EntriesOK
  <2>2. PICK e \in EntryType : e = _pendingPrompts[i] /\ EntryOK(e)
    BY EntryTypes DEF QueueInv, HearInv, EntriesOK
  <2>3. e.first # r.first /\ e.consumers \in Seq(Calls)
    BY <1>1, <2>2 DEF RunOK, EntryType
  <2>4. \A k \in DOMAIN e.consumers : e.consumers[k] \in Calls /\ e.consumers[k] # c
    BY <1>4, <2>2, <2>3 DEF EntryOK, Waits
  <2>5. Waits(e.consumers, e.first)'
    BY <1>7, <1>8, <2>2, <2>4 DEF EntryOK, Waits
  <2>6. \A u \in runnables : Past(u) => u \in runnables'
    BY <1>1, <1>7 DEF Past, Telling
  <2>7. EntryOK(e)' /\ _pendingPrompts'[i] = e
    BY <1>7, <2>2, <2>5, <2>6 DEF EntryOK
  <2>. QED  BY <2>7 DEF EntryOK
<1>13. RunsOK'
  <2>1. SUFFICES ASSUME NEW u \in runnables'
                 PROVE  RunOK(u)'
    BY DEF RunsOK
  <2>2. CASE u = s
    <3>1. \A k \in 1..n : /\ Tail(r.left)[k] \in Calls /\ Tail(r.left)[k] # c
                          /\ Tail(r.left)[k] < nextCall
                          /\ sharing[Tail(r.left)[k]] = r.first
                          /\ told[Tail(r.left)[k]] = "none"
      <4>1. SUFFICES ASSUME NEW k \in 1..n
                     PROVE  /\ r.left[k + 1] \in Calls /\ r.left[k + 1] # c
                            /\ r.left[k + 1] < nextCall
                            /\ sharing[r.left[k + 1]] = r.first
                            /\ told[r.left[k + 1]] = "none"
        BY <1>2
      <4>2. k + 1 \in 1..(n + 1) /\ 1 \in 1..(n + 1) /\ k + 1 # 1
        OBVIOUS
      <4>3. r.left \in Seq(Calls)
        BY <1>1 DEF RunnableType
      <4>. QED  BY <1>1, <1>2, <1>3, <4>2, <4>3 DEF Waits
    <3>2. \A j, k \in 1..n : Tail(r.left)[j] = Tail(r.left)[k] => j = k
      BY <1>1, <1>2 DEF Waits
    <3>3. Waits(s.left, s.first)'
      <4>1. PICK t : t = Tail(r.left) /\ DOMAIN t = 1..n
        BY <1>2
      <4>2. \A k \in 1..n : t[k] < nextCall' /\ sharing'[t[k]] = r.first /\ told'[t[k]] = "none"
        BY <1>7, <1>8, <3>1, <4>1
      <4>3. \A j, k \in 1..n : t[j] = t[k] => j = k
        BY <3>2, <4>1
      <4>4. Waits(t, r.first)'
        BY <4>1, <4>2, <4>3 DEF Waits
      <4>. QED  BY <1>6, <4>1, <4>4
    <3>. QED  BY <1>1, <1>6, <1>7, <2>2, <3>3 DEF RunOK, Past, Telling
  <2>3. CASE u \in runnables \ {r}
    <3>1. RunOK(u) /\ ~ Telling(u)
      BY <1>1, <2>3 DEF HearInv, RunsOK, QueueInv, OneCallback, Telling, CallsBack
    <3>. QED  BY <1>7, <3>1 DEF RunOK
  <2>. QED  BY <1>7, <2>2, <2>3
<1>. QED  BY <1>9, <1>10, <1>11, <1>12, <1>13 DEF HearInv

LEMMA PromptEndsHears ==
    ASSUME QueueInv, HearInv, NEW r \in runnables, PromptEnds(r)
    PROVE  HearInv'
<1>1. UNCHANGED <<_pendingPrompts, nextCall, sharing, answer, told>> /\ ~ Past(r)
  BY DEF PromptEnds, Past
<1>2. /\ runnables \ {r} \subseteq runnables'
      /\ \A u \in runnables' : u \in runnables \/ (u.pc = "dispatched" /\ u.ok = FALSE)
  BY OnlyDispatches DEF PromptEnds
<1>3. \A x, f : Waits(x, f)' <=> Waits(x, f)
  BY <1>1 DEF Waits
<1>4. (Fresh /\ HeardRight /\ FirstsApart)'
  BY <1>1 DEF HearInv, Fresh, HeardRight, FirstsApart
<1>5. EntriesOK'
  <2>1. \A e : EntryOK(e) => EntryOK(e)'
    BY <1>1, <1>2, <1>3 DEF EntryOK
  <2>2. SUFFICES ASSUME NEW i \in DOMAIN _pendingPrompts
                 PROVE  EntryOK(_pendingPrompts[i])'
    BY <1>1 DEF EntriesOK
  <2>3. PICK e : e = _pendingPrompts[i] /\ EntryOK(e)
    BY DEF HearInv, EntriesOK
  <2>4. EntryOK(e)' /\ _pendingPrompts'[i] = e
    BY <1>1, <2>1, <2>3
  <2>. QED  BY <2>4 DEF EntryOK
<1>6. RunsOK'
  <2>1. \A u : RunOK(u) => RunOK(u)'
    BY <1>1, <1>3 DEF RunOK
  <2>2. \A u : u.pc = "dispatched" /\ u.ok = FALSE => RunOK(u)'
    BY DEF RunOK, Past, Telling
  <2>. QED  BY <1>2, <2>1, <2>2 DEF HearInv, RunsOK
<1>. QED  BY <1>4, <1>5, <1>6 DEF HearInv

LEMMA HearInitially == Init => HearInv
<1>. SUFFICES ASSUME Init
              PROVE  HearInv
  OBVIOUS
<1>1. Fresh /\ HeardRight /\ RunsOK
  BY DEF Init, Fresh, HeardRight, RunsOK
<1>2. EntriesOK /\ FirstsApart
  BY DEF Init, EntriesOK, FirstsApart
<1>. QED  BY <1>1, <1>2 DEF HearInv

LEMMA HearStep == QueueInv /\ HearInv /\ [Next]_vars => HearInv'
<1>. SUFFICES ASSUME QueueInv, HearInv, [Next]_vars
              PROVE  HearInv'
  OBVIOUS
<1>1. ASSUME NEW key \in Keys, NEW jump \in BOOLEAN, QueueAsyncAuthPrompt(key, jump)
      PROVE  HearInv'
  <2>1. CASE key \in KeysOf(_pendingPrompts) /\ Bind(key)
    BY <1>1, <2>1, BindHears DEF QueueAsyncAuthPrompt
  <2>2. CASE key \notin KeysOf(_pendingPrompts) /\ Add(key, jump)
    BY <1>1, <2>2, AddHears DEF QueueAsyncAuthPrompt
  <2>. QED  BY <1>1, <2>1, <2>2 DEF QueueAsyncAuthPrompt
<1>2. ASSUME NEW r \in runnables, Run(r)
      PROVE  HearInv'
  BY <1>2, StartsHears, AnsweredHears, CancelFailsHears, EntryDeletedHears, TellConsumerHears,
     PromptEndsHears, Zenon DEF Run
<1>3. CASE UNCHANGED vars
  BY <1>3 DEF vars, HearInv, Fresh, EntriesOK, EntryOK, RunsOK, RunOK, FirstsApart, HeardRight,
              Waits
<1>. QED  BY <1>1, <1>2, <1>3, Zenon DEF Next, ProtocolAsks, CalleeAsks

LEMMA HearAlways == Spec => []HearInv
<1>. QED  BY HearInitially, HearStep, QueueAlways, PTL DEF Spec

\* A consumer hears how the prompt it shares ended, and not before it did.
THEOREM EachHearsItsPrompt == Spec => []HearsItsPrompt
<1>1. HearInv => HearsItsPrompt
  BY DEF HearInv, HeardRight, HearsItsPrompt
<1>. QED  BY <1>1, HearAlways, PTL

\* A prompt ends one way and a consumer is told once, whatever the consumers
\* do while run() calls them.
THEOREM AnsweredOnce == Spec => OneAnswer
<1> DEFINE Final == \A c \in Calls : /\ answer[c] # "none" => answer'[c] = answer[c]
                                     /\ told[c] # "none" => told'[c] = told[c]
<1>1. ASSUME QueueInv, HearInv, [Next]_vars
      PROVE  Final
  <2>1. CASE UNCHANGED <<answer, told>>
    BY <2>1
  <2>2. ASSUME NEW r \in runnables, Answered(r)
        PROVE  Final
    <3>1. r.pc = "asking" /\ told' = told
      BY <2>2 DEF Answered, PromptAnswered, PromptFails
    <3>2. answer[r.first] = "none"
      BY <1>1, <3>1 DEF HearInv, RunsOK, RunOK
    <3>3. \A c \in Calls : c # r.first => answer'[c] = answer[c]
      BY <1>1, <2>2 DEF Answered, PromptAnswered, PromptFails, QueueInv, TypeOK
    <3>. QED  BY <3>1, <3>2, <3>3
  <2>3. ASSUME NEW r \in runnables, TellConsumer(r)
        PROVE  Final
    <3>1. Telling(r) /\ r.left # <<>> /\ r.left \in Seq(Calls) /\ answer' = answer
      BY <1>1, <2>3 DEF TellConsumer, Telling, QueueInv, TypeOK, RunnableType
    <3>2. told[Head(r.left)] = "none"
      <4>1. Waits(r.left, r.first)
        BY <1>1, <3>1 DEF HearInv, RunsOK, RunOK
      <4>2. Head(r.left) = r.left[1] /\ 1 \in DOMAIN r.left
        BY <3>1
      <4>. QED  BY <4>1, <4>2 DEF Waits
    <3>3. \A c \in Calls : c # Head(r.left) => told'[c] = told[c]
      BY <1>1, <2>3 DEF TellConsumer, QueueInv, TypeOK
    <3>. QED  BY <3>1, <3>2, <3>3
  <2>4. CASE UNCHANGED vars
    BY <2>1, <2>4 DEF vars
  <2>5. ASSUME NEW key, NEW jump, ProtocolAsks(key, jump) \/ CalleeAsks(key, jump)
        PROVE  Final
    BY <2>1, <2>5 DEF ProtocolAsks, CalleeAsks, QueueAsyncAuthPrompt
  <2>6. ASSUME NEW r \in runnables,
               PromptStarts(r) \/ CancelFails(r) \/ EntryDeleted(r) \/ PromptEnds(r)
        PROVE  Final
    BY <2>1, <2>6 DEF PromptStarts, CancelFails, EntryDeleted, PromptEnds
  <2>. QED  BY <1>1, <2>2, <2>3, <2>4, <2>5, <2>6, Zenon DEF Next, Run
<1>2. QueueInv /\ HearInv /\ [Next]_vars => [Final]_vars
  BY <1>1
<1>. QED  BY <1>2, QueueAlways, HearAlways, PTL DEF Spec, OneAnswer
=============================================================================
