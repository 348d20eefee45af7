------------------------- MODULE CachedCalendarProofs -------------------------
(***************************************************************************)
(* Proofs about the cached calendar, for any items and any number of edits *)
(* and refreshes: the journal says exactly what the server lacks, and the  *)
(* calendar shows what the user did last, of every item whose edits do not *)
(* overlap each other or a playback.                                       *)
(*                                                                         *)
(* Neither holds by itself from step to step: what is true of a row while  *)
(* an edit is on its way depends on how far that edit has come (Mid), and  *)
(* what two playbacks of the same rows have read must stay true of the row *)
(* after one of them was done with it (HeldOK).                            *)
(***************************************************************************)
EXTENDS CachedCalendar, SequenceTheorems, TLAPS

Statements == {"read", "delete", "insert", "restore", "addOffline", "modifyOffline",
               "deleteOffline"}
Flags == {NoFlag, Created, Modified, Deleted}
Types == {Created, Modified, Deleted}
Kinds == {"add", "modify", "delete"}

EditType == [kind : Kinds \cup {"none"}, item : Items \cup {None},
             pc : {"new", "asking", "sent", "storing", "done"},
             script : Seq(Statements), flag : Flags]
ItemVersion == [item : Items, ver : Versions]
RefreshType == [pc : {"new", "asked", "read", "sent", "syncing", "done"}, type : Types,
                itemQueue : SUBSET ItemVersion, current : SUBSET ItemVersion]

Waiting == {n \in Edits : edits[n].pc \in {"asking", "storing"}}

\* The variables that edits move have their shapes.
EditsOK ==
    /\ server \in [Items -> Versions \cup {None}]
    /\ cache \in [Items -> Row]
    /\ \A i \in Items : cache[i].ver = None => cache[i] = Absent
    /\ edits \in [Edits -> EditType]
    /\ \A n \in Edits : InFlight(n) => edits[n].kind \in Kinds /\ edits[n].item \in Items
    /\ shown \in [Items -> Versions \cup {None}]

Apart(q) == \A j, k \in DOMAIN q : q[j] = q[k] => j = k

\* The edits that wait for a statement are in the queue, each once.
QueueOK ==
    /\ dbQueue \in Seq(Edits)
    /\ Range(dbQueue) = Waiting
    /\ Apart(dbQueue)

\* Those that refreshes move.
RefreshesOK ==
    /\ refreshes \in [Refreshes -> RefreshType]
    /\ \A r \in Refreshes : refreshes[r].pc = "asked" => refreshes[r].current = {}
    /\ mSyncQueue \in Seq(Refreshes)
    /\ replays \in Nat

\* And the rest.
RestOK ==
    /\ offline \in BOOLEAN
    /\ toggles \in 0..MaxToggles
    /\ raced \subseteq Items /\ revived \subseteq Items

-----------------------------------------------------------------------------
(* What is true of an item that nothing has raced for.                       *)

Of(n, i) == InFlight(n) /\ edits[n].item = i
Held(r) == refreshes[r].itemQueue \cup refreshes[r].current

Shows(c) == IF c.flag = Deleted THEN None ELSE c.ver

\* The flag of row c is right, s being on the server.
Fits(c, s) == /\ c.flag = NoFlag => c.ver = s
              /\ c.flag = Created => s = None
              /\ c.flag \in {Modified, Deleted} => s # None

\* The flag f, read from the row that is to be changed, will be right.
Kept(f, s) == /\ f \in {NoFlag, Created, Modified}
              /\ f = Created <=> s = None

Result(kind, n) == IF kind = "delete" THEN None ELSE n

\* Edit n, being e, has not begun to change row c, which shows v.
Early(e, n, c, s, v, exact) ==
    /\ Shows(c) = v
    /\ exact => Fits(c, s)
    /\ \/ /\ e.pc = "asking" /\ e.script = <<>>
          /\ e.kind \in {"modify", "delete"}
          /\ e.flag = c.flag /\ v # None
       \/ /\ e.pc = "sent" /\ e.kind = "add"
          /\ v = None
          /\ exact => s = None
       \/ /\ e.pc = "sent" /\ e.kind \in {"modify", "delete"}
          /\ c.flag = NoFlag /\ v # None

\* The server has taken it, and it goes into the cache.
Storing(e, n, c, s, exact) ==
    /\ exact => s = n
    /\ \/ e.kind = "add" /\ e.script = <<"insert">>
       \/ /\ e.kind = "modify" /\ e.flag = NoFlag
          /\ \/ e.script = <<"delete", "insert", "restore">>
             \/ e.script = <<"insert", "restore">>
             \/ e.script = <<"restore">> /\ c = [ver |-> n, flag |-> NoFlag]

\* It goes into the cache, and then into the journal.
Journalling(e, n, c, s, exact) ==
    \/ /\ e.kind = "add"
       /\ exact => s = None
       /\ \/ e.script = <<"insert", "addOffline">>
          \/ e.script = <<"addOffline">> /\ c = [ver |-> n, flag |-> NoFlag]
    \/ /\ e.kind = "modify"
       /\ e.flag \in {NoFlag, Created, Modified}
       /\ exact => Kept(e.flag, s)
       /\ \/ e.script = <<"delete", "insert", "restore", "read", "modifyOffline">>
          \/ e.script = <<"insert", "restore", "read", "modifyOffline">>
          \/ /\ e.script = <<"restore", "read", "modifyOffline">>
             /\ c = [ver |-> n, flag |-> NoFlag]
          \/ e.script = <<"read", "modifyOffline">> /\ c = [ver |-> n, flag |-> e.flag]
          \/ e.script = <<"modifyOffline">> /\ c = [ver |-> n, flag |-> e.flag]
    \/ /\ e.kind = "delete" /\ e.script = <<"deleteOffline">>
       /\ e.flag \in {NoFlag, Created, Modified}
       /\ exact => Kept(e.flag, s)
       /\ c.flag = e.flag /\ c # Absent

\* Its statements are all there.
Stored(e, n, c, s, exact) ==
    /\ e.script = <<>>
    /\ Shows(c) = Result(e.kind, n)
    /\ exact => Fits(c, s)

Mid(e, n, c, s, v, exact) ==
    \/ Early(e, n, c, s, v, exact)
    \/ /\ e.pc = "storing"
       /\ \/ Storing(e, n, c, s, exact)
          \/ Journalling(e, n, c, s, exact)
          \/ Stored(e, n, c, s, exact)

\* What a playback of `type` has read as x is still true of row c, or another
\* playback was done with it.
HeldOK(type, x, c) ==
    CASE type = Deleted -> c = Absent \/ c.flag = Deleted
      [] type # Deleted -> c.ver = x.ver /\ c.flag \in {type, NoFlag}

Exact(i) == i \notin revived

ItemOK(i) ==
    /\ \A m, n \in Edits : Of(m, i) /\ Of(n, i) => m = n
    /\ \A n \in Edits : Of(n, i) => \A r \in Refreshes : \A x \in Held(r) : x.item # i
    /\ \A n \in Edits : Of(n, i) => Mid(edits[n], n, cache[i], server[i], shown[i], Exact(i))
    /\ (\A n \in Edits : ~ Of(n, i)) =>
          Shows(cache[i]) = shown[i] /\ (Exact(i) => Fits(cache[i], server[i]))
    /\ \A r \in Refreshes : \A x \in Held(r) :
          x.item = i => HeldOK(refreshes[r].type, x, cache[i])

CacheInv ==
    /\ EditsOK /\ QueueOK /\ RefreshesOK /\ RestOK
    /\ OneReplay
    /\ \A i \in Items \ raced : ItemOK(i)

-----------------------------------------------------------------------------
(* A statement at a time: rows and edits as values.                          *)

\* Edit e after it has issued the first statement of `script`.
Issued(e, pc, script, c) ==
    [e EXCEPT !.pc = pc, !.script = Tail(script),
              !.flag = IF Head(script) = "read" THEN c.flag ELSE @]

Rows == {c \in Row : c.ver = None => c = Absent}
States == Versions \cup {None}

\* The scripts, statement by statement.
LEMMA Scripts ==
    /\ Head(StoreModify) = "read" /\ Tail(StoreModify) = <<"delete", "insert", "restore">>
    /\ Head(StoreAdopt) = "delete" /\ Tail(StoreAdopt) = <<"insert">>
    /\ Head(StoreDelete) = "delete" /\ Tail(StoreDelete) = <<>>
    /\ Head(AdoptOffline) = "delete" /\ Tail(AdoptOffline) = <<"insert", "addOffline">>
    /\ Head(ModifyOffline) = "read"
    /\ Tail(ModifyOffline) = <<"delete", "insert", "restore", "read", "modifyOffline">>
    /\ Head(DeleteOffline) = "read" /\ Tail(DeleteOffline) = <<"deleteOffline">>
<1>1. AdoptOffline = <<"delete", "insert", "addOffline">>
  <2>1. StoreAdopt \in Seq(Statements) /\ Len(StoreAdopt) = 2
        /\ StoreAdopt[1] = "delete" /\ StoreAdopt[2] = "insert"
    BY DEF StoreAdopt, Statements
  <2>2. /\ AdoptOffline \in Seq(Statements) /\ Len(AdoptOffline) = 3
        /\ AdoptOffline[1] = "delete" /\ AdoptOffline[2] = "insert"
        /\ AdoptOffline[3] = "addOffline"
    <3>1. PICK t \in Seq(Statements) : t = <<"addOffline">>
      <4>1. <<"addOffline">> \in Seq(Statements)
        BY DEF Statements
      <4>. QED  BY <4>1
    <3>2. Len(t) = 1 /\ t[1] = "addOffline"
      BY <3>1
    <3>3. /\ StoreAdopt \o t \in Seq(Statements)
          /\ Len(StoreAdopt \o t) = Len(StoreAdopt) + Len(t)
          /\ \A i \in 1..(Len(StoreAdopt) + Len(t)) :
                (StoreAdopt \o t)[i] = IF i <= Len(StoreAdopt) THEN StoreAdopt[i]
                                        ELSE t[i - Len(StoreAdopt)]
      BY <2>1, ConcatProperties
    <3>4. AdoptOffline = StoreAdopt \o t
      BY <3>1 DEF AdoptOffline
    <3>. QED  BY <2>1, <3>2, <3>3, <3>4
  <2>3. <<"delete", "insert", "addOffline">> \in Seq(Statements)
    BY DEF Statements
  <2>. QED  BY <2>2, <2>3, SeqEqual
<1>2. ModifyOffline = <<"read", "delete", "insert", "restore", "read", "modifyOffline">>
  <2>1. StoreModify \in Seq(Statements) /\ Len(StoreModify) = 4
        /\ StoreModify[1] = "read" /\ StoreModify[2] = "delete"
        /\ StoreModify[3] = "insert" /\ StoreModify[4] = "restore"
    BY DEF StoreModify, Statements
  <2>2. /\ ModifyOffline \in Seq(Statements) /\ Len(ModifyOffline) = 6
        /\ ModifyOffline[1] = "read" /\ ModifyOffline[2] = "delete"
        /\ ModifyOffline[3] = "insert" /\ ModifyOffline[4] = "restore"
        /\ ModifyOffline[5] = "read" /\ ModifyOffline[6] = "modifyOffline"
    <3>1. PICK t \in Seq(Statements) : t = <<"read", "modifyOffline">>
      <4>1. <<"read", "modifyOffline">> \in Seq(Statements)
        BY DEF Statements
      <4>. QED  BY <4>1
    <3>2. Len(t) = 2 /\ t[1] = "read" /\ t[2] = "modifyOffline"
      BY <3>1
    <3>3. /\ StoreModify \o t \in Seq(Statements)
          /\ Len(StoreModify \o t) = Len(StoreModify) + Len(t)
          /\ \A i \in 1..(Len(StoreModify) + Len(t)) :
                (StoreModify \o t)[i] = IF i <= Len(StoreModify) THEN StoreModify[i]
                                         ELSE t[i - Len(StoreModify)]
      BY <2>1, ConcatProperties
    <3>4. ModifyOffline = StoreModify \o t
      BY <3>1 DEF ModifyOffline
    <3>. QED  BY <2>1, <3>2, <3>3, <3>4
  <2>3. <<"read", "delete", "insert", "restore", "read", "modifyOffline">> \in Seq(Statements)
    BY DEF Statements
  <2>. QED  BY <2>2, <2>3, SeqEqual
<1>3. /\ Head(StoreModify) = "read" /\ Tail(StoreModify) = <<"delete", "insert", "restore">>
      /\ Head(StoreAdopt) = "delete" /\ Tail(StoreAdopt) = <<"insert">>
      /\ Head(StoreDelete) = "delete" /\ Tail(StoreDelete) = <<>>
  BY DEF StoreModify, StoreAdopt, StoreDelete
<1>4. Head(DeleteOffline) = "read" /\ Tail(DeleteOffline) = <<"deleteOffline">>
  BY DEF DeleteOffline
<1>5. Head(AdoptOffline) = "delete" /\ Tail(AdoptOffline) = <<"insert", "addOffline">>
  BY <1>1
<1>6. Head(ModifyOffline) = "read"
  BY <1>2
<1>7. Tail(ModifyOffline) = <<"delete", "insert", "restore", "read", "modifyOffline">>
  BY <1>2
<1>. QED  BY <1>3, <1>4, <1>5, <1>6, <1>7

\* Rows stay rows.
LEMMA WrittenIsRow ==
    ASSUME NEW st \in Statements, NEW c \in Rows, NEW f \in Flags, NEW n \in Edits
    PROVE  Written(st, c, f, n) \in Rows
  BY CacheAssumption DEF Statements, Rows, Row, Flags, Written, DeletedOffline, Absent, NoFlag, Created, Modified,
     Deleted, None, Versions, Edits

\* An edit goes on with its script.
LEMMA GoesOnMid ==
    ASSUME NEW e \in EditType, NEW n \in Edits, NEW c \in Rows, NEW s \in States,
           NEW v \in States, NEW exact \in BOOLEAN,
           e.pc = "storing", e.script # <<>>, Mid(e, n, c, s, v, exact)
    PROVE  Mid(Issued(e, e.pc, e.script, c), n, Written(Head(e.script), c, e.flag, n), s, v, exact)
<1> DEFINE d == Issued(e, e.pc, e.script, c)
           w == Written(Head(e.script), c, e.flag, n)
<1>1. /\ d.pc = "storing" /\ d.kind = e.kind /\ d.script = Tail(e.script)
      /\ d.flag = IF Head(e.script) = "read" THEN c.flag ELSE e.flag
  BY DEF Issued, EditType
<1>0. n \in Int /\ n # None /\ n > 0
  BY CacheAssumption DEF Edits, None
<1>2. CASE Storing(e, n, c, s, exact)
  <2>1. CASE e.script = <<"insert">>
    BY <1>0, <1>1, <1>2, <2>1
    DEF Storing, Mid, Stored, Written, Shows, Fits, Result, NoFlag, Created, Modified, Deleted
  <2>2. CASE e.script = <<"delete", "insert", "restore">>
    BY <1>0, <1>1, <1>2, <2>2 DEF Storing, Mid
  <2>3. CASE e.script = <<"insert", "restore">>
    BY <1>0, <1>1, <1>2, <2>3 DEF Storing, Mid, Written
  <2>4. CASE e.script = <<"restore">> 
    BY <1>0, <1>1, <1>2, <2>4
    DEF Storing, Mid, Stored, Written, Shows, Fits, Result, NoFlag, Created, Modified, Deleted
  <2>. QED  BY <1>2, <2>1, <2>2, <2>3, <2>4 DEF Storing
<1>3. CASE Journalling(e, n, c, s, exact) /\ e.kind = "add"
  <2>1. CASE e.script = <<"insert", "addOffline">>
    BY <1>0, <1>1, <1>3, <2>1 DEF Journalling, Mid, Written
  <2>2. CASE e.script = <<"addOffline">>
    BY <1>0, <1>1, <1>3, <2>2 DEF Journalling, Mid, Stored, Written, Absent, Shows, Fits, Result,
       NoFlag, Created, Modified, Deleted
  <2>. QED  BY <1>3, <2>1, <2>2 DEF Journalling
<1>4. CASE Journalling(e, n, c, s, exact) /\ e.kind = "modify"
  <2>1. CASE e.script = <<"delete", "insert", "restore", "read", "modifyOffline">>
    BY <1>1, <1>4, <2>1 DEF Journalling, Mid
  <2>2. CASE e.script = <<"insert", "restore", "read", "modifyOffline">>
    BY <1>1, <1>4, <2>2 DEF Journalling, Mid, Written
  <2>3. CASE e.script = <<"restore", "read", "modifyOffline">>
    BY <1>0, <1>1, <1>4, <2>3 DEF Journalling, Mid, Written, Absent
  <2>4. CASE e.script = <<"read", "modifyOffline">>
    BY <1>0, <1>1, <1>4, <2>4 DEF Journalling, Mid, Written
  <2>5. CASE e.script = <<"modifyOffline">>
    BY <1>0, <1>1, <1>4, <2>5 DEF Journalling, Mid, Stored, Written, Absent, Shows, Fits, Kept,
       Result, NoFlag, Created, Modified, Deleted
  <2>. QED  BY <1>4, <2>1, <2>2, <2>3, <2>4, <2>5 DEF Journalling
<1>5. CASE Journalling(e, n, c, s, exact) /\ e.kind = "delete"
  <2>1. /\ e.script = <<"deleteOffline">> /\ e.kind = "delete"
        /\ e.flag \in {NoFlag, Created, Modified} /\ c.flag = e.flag /\ c # Absent
        /\ exact => Kept(e.flag, s)
    BY <1>5 DEF Journalling
  <2>2. d.script = <<>> /\ d.kind = "delete" /\ w = DeletedOffline(c, e.flag)
    BY <1>1, <2>1 DEF Written
  <2>3. CASE e.flag = Created
    <3>1. w = Absent
      BY <2>2, <2>3 DEF DeletedOffline
    <3>. QED  BY <1>1, <2>1, <2>2, <2>3, <3>1 DEF Mid, Stored, Absent, Shows, Fits, Kept, Result,
              NoFlag, Created, Modified, Deleted
  <2>4. CASE e.flag \in {NoFlag, Modified}
    <3>1. w = [c EXCEPT !.flag = Deleted] /\ w.flag = Deleted
      BY <2>1, <2>2, <2>4
      DEF DeletedOffline, Rows, Row, NoFlag, Created, Modified, Deleted
    <3>. QED  BY <1>1, <2>1, <2>2, <2>4, <3>1 DEF Mid, Stored, Shows, Fits, Kept, Result,
              NoFlag, Created, Modified, Deleted
  <2>. QED  BY <2>1, <2>3, <2>4
<1>. QED  BY <1>2, <1>3, <1>4, <1>5 DEF Mid, Early, Stored, Journalling

\* An edit that has not begun goes into the cache and the journal.
LEMMA OfflineMid ==
    ASSUME NEW e \in EditType, NEW n \in Edits, NEW c \in Rows, NEW s \in States,
           NEW v \in States, NEW exact \in BOOLEAN, e.kind \in Kinds,
           Shows(c) = v, exact => Fits(c, s),
           e.kind = "add" /\ exact => s = None,
           e.kind \in {"modify", "delete"} => v # None
    PROVE  Mid(Issued(e, "storing", OfflineScript(e.kind), c), n,
               Written(Head(OfflineScript(e.kind)), c, e.flag, n), s, v, exact)
<1> DEFINE d == Issued(e, "storing", OfflineScript(e.kind), c)
           w == Written(Head(OfflineScript(e.kind)), c, e.flag, n)
<1>1. /\ d.pc = "storing" /\ d.kind = e.kind /\ d.script = Tail(OfflineScript(e.kind))
      /\ d.flag = IF Head(OfflineScript(e.kind)) = "read" THEN c.flag ELSE e.flag
  BY DEF Issued, EditType
<1>2. CASE e.kind = "add"
  BY <1>1, <1>2, Scripts DEF OfflineScript, Journalling, Mid
<1>3. CASE e.kind \in {"modify", "delete"}
  <2>1. Head(OfflineScript(e.kind)) = "read" /\ w = c /\ d.flag = c.flag
    BY <1>1, <1>3, Scripts DEF OfflineScript, Written
  <2>2. /\ c.flag \in {NoFlag, Created, Modified} /\ c # Absent
        /\ exact => Kept(c.flag, s)
    BY <1>3 DEF Shows, Fits, Kept, Rows, Row, Absent, None, NoFlag, Created, Modified, Deleted
  <2>3. CASE e.kind = "modify"
    BY <1>1, <2>1, <2>2, <2>3, Scripts DEF OfflineScript, Journalling, Mid
  <2>4. CASE e.kind = "delete"
    BY <1>1, <2>1, <2>2, <2>4, Scripts DEF OfflineScript, Journalling, Mid
  <2>. QED  BY <1>3, <2>3, <2>4
<1>. QED  BY <1>2, <1>3 DEF Kinds

\* One that the server has accepted goes into the cache.
LEMMA StoreMid ==
    ASSUME NEW e \in EditType, NEW n \in Edits, NEW c \in Rows, NEW s \in States,
           NEW v \in States, NEW exact \in BOOLEAN, e.pc = "sent",
           Early(e, n, c, s, v, exact)
    PROVE  Mid(Issued(e, "storing", StoreScript(e.kind), c), n,
               Written(Head(StoreScript(e.kind)), c, e.flag, n), Applied(e.kind, n), v, exact)
<1> DEFINE d == Issued(e, "storing", StoreScript(e.kind), c)
<1>1. /\ d.pc = "storing" /\ d.kind = e.kind /\ d.script = Tail(StoreScript(e.kind))
      /\ d.flag = IF Head(StoreScript(e.kind)) = "read" THEN c.flag ELSE e.flag
  BY DEF Issued, EditType
<1>2. CASE e.kind = "add"
  BY <1>1, <1>2, Scripts DEF StoreScript, Applied, Storing, Mid
<1>3. CASE e.kind = "modify"
  BY <1>1, <1>3, Scripts DEF StoreScript, Applied, Storing, Mid, Early
<1>4. CASE e.kind = "delete"
  BY <1>1, <1>4, Scripts DEF StoreScript, Applied, Stored, Mid, Written, Absent, Shows, Fits, Result,
     None, NoFlag, Created, Modified, Deleted
<1>. QED  BY <1>2, <1>3, <1>4 DEF Early

-----------------------------------------------------------------------------
(* The items a step does not touch, and the one it does.                     *)

UnderWay == {"asking", "sent", "storing"}

\* Edit n becomes e, item i has row c, the server holds s of it, and it is to
\* show v.  That is all, except that i may have raced or come back.
EditStep(n, i, e, c, s, v) ==
    /\ edits' = [edits EXCEPT ![n] = e]
    /\ cache' = [cache EXCEPT ![i] = c]
    /\ server' = [server EXCEPT ![i] = s]
    /\ shown' = [shown EXCEPT ![i] = v]
    /\ UNCHANGED refreshes
    /\ raced \subseteq raced'
    /\ \A j \in Items : j # i => (j \in revived' <=> j \in revived)
    /\ InFlight(n) => edits[n].item = i
    /\ e.pc \in UnderWay => e.item = i

\* If i has not, nothing else is under way for it, and it is as it should be.
EditFits(n, i, e, c, s, v) ==
    i \notin raced' =>
      /\ \A m \in Edits : m # n => ~ Of(m, i)
      /\ \A r \in Refreshes : \A x \in Held(r) : x.item # i
      /\ e.pc \in UnderWay => Mid(e, n, c, s, v, i \notin revived')
      /\ e.pc \notin UnderWay => Shows(c) = v /\ (i \notin revived' => Fits(c, s))

\* A step of an edit of item i leaves the other items as they are.
LEMMA EditMoves ==
    ASSUME EditsOK, \A j \in Items \ raced : ItemOK(j),
           NEW n \in Edits, NEW i \in Items, NEW e \in EditType, NEW c \in Rows,
           NEW s \in States, NEW v \in States,
           EditStep(n, i, e, c, s, v), EditFits(n, i, e, c, s, v)
    PROVE  \A j \in Items \ raced' : ItemOK(j)'
<1>. SUFFICES ASSUME NEW j \in Items, j \notin raced'  PROVE ItemOK(j)'
  OBVIOUS
<1>. USE DEF EditStep
<1>1. ItemOK(j)
  OBVIOUS
<1>2. /\ edits \in [Edits -> EditType] /\ edits'[n] = e
      /\ \A m \in Edits : m # n => edits'[m] = edits[m]
  BY DEF EditsOK
<1>3. \A r \in Refreshes : Held(r)' = Held(r)
  BY DEF Held
<1>4. CASE j # i
  <2>1. cache'[j] = cache[j] /\ server'[j] = server[j] /\ shown'[j] = shown[j]
    BY <1>4 DEF EditsOK
  <2>2. \A m \in Edits : Of(m, j)' <=> Of(m, j)
    BY <1>2, <1>4 DEF Of, InFlight, UnderWay
  <2>3. \A m \in Edits : Of(m, j) => edits'[m] = edits[m]
    BY <1>2, <1>4 DEF Of
  <2>4. Exact(j)' <=> Exact(j)
    BY <1>4 DEF Exact
  <2>5. \A m, k \in Edits : Of(m, j)' /\ Of(k, j)' => m = k
    BY <1>1, <2>2 DEF ItemOK
  <2>6. \A m \in Edits : Of(m, j)' => \A r \in Refreshes : \A x \in Held(r)' : x.item # j
    BY <1>1, <1>3, <2>2 DEF ItemOK
  <2>7. \A m \in Edits : Of(m, j)' =>
           Mid(edits'[m], m, cache'[j], server'[j], shown'[j], Exact(j)')
    BY <1>1, <2>1, <2>2, <2>3, <2>4 DEF ItemOK, Exact
  <2>8. (\A m \in Edits : ~ Of(m, j)') =>
           Shows(cache'[j]) = shown'[j] /\ (Exact(j)' => Fits(cache'[j], server'[j]))
    BY <1>1, <2>1, <2>2, <2>4 DEF ItemOK
  <2>9. \A r \in Refreshes : \A x \in Held(r)' :
           x.item = j => HeldOK(refreshes'[r].type, x, cache'[j])
    BY <1>1, <1>3, <2>1 DEF ItemOK
  <2>. QED  BY <2>5, <2>6, <2>7, <2>8, <2>9 DEF ItemOK
<1>5. CASE j = i
  <2>1. cache'[j] = c /\ server'[j] = s /\ shown'[j] = v
    BY <1>5 DEF EditsOK
  <2>2. \A m \in Edits : Of(m, j)' => m = n /\ e.pc \in UnderWay
    BY <1>2, <1>5 DEF Of, InFlight, UnderWay, EditFits
  <2>3. Of(n, j)' <=> e.pc \in UnderWay
    BY <1>2, <1>5 DEF Of, InFlight, UnderWay
  <2>4. \A r \in Refreshes : \A x \in Held(r)' : x.item # j
    BY <1>3, <1>5 DEF EditFits
  <2>5. \A m \in Edits : Of(m, j)' =>
           Mid(edits'[m], m, cache'[j], server'[j], shown'[j], Exact(j)')
    BY <1>2, <1>5, <2>1, <2>2 DEF Exact, EditFits
  <2>6. (\A m \in Edits : ~ Of(m, j)') =>
           Shows(cache'[j]) = shown'[j] /\ (Exact(j)' => Fits(cache'[j], server'[j]))
    BY <1>5, <2>1, <2>3 DEF Exact, EditFits
  <2>. QED  BY <2>2, <2>4, <2>5, <2>6 DEF ItemOK
<1>. QED  BY <1>4, <1>5

\* A step of a playback leaves the items as they are but the one it is done with.
LEMMA PlaybackMoves ==
    ASSUME EditsOK, \A j \in Items \ raced : ItemOK(j),
           NEW i \in Items, NEW c \in Rows, NEW s \in States,
           cache' = [cache EXCEPT ![i] = c], server' = [server EXCEPT ![i] = s],
           UNCHANGED <<edits, shown, revived>>, raced \subseteq raced',
           refreshes' \in [Refreshes -> RefreshType],
           \A r \in Refreshes : \A x \in Held(r)' :
              x.item \notin raced' =>
                 \/ x \in Held(r) /\ refreshes'[r].type = refreshes[r].type
                 \/ /\ HeldOK(refreshes'[r].type, x, cache[x.item])
                    /\ \A m \in Edits : ~ Of(m, x.item),
           i \notin raced' => \/ c = cache[i] /\ s = server[i]
                              \/ /\ \A m \in Edits : ~ Of(m, i)
                                 /\ Shows(c) = Shows(cache[i])
                                 /\ Exact(i) => Fits(c, s)
                                 /\ \A t \in Types, x \in ItemVersion :
                                       HeldOK(t, x, cache[i]) => HeldOK(t, x, c)
    PROVE  \A j \in Items \ raced' : ItemOK(j)'
<1>. SUFFICES ASSUME NEW j \in Items, j \notin raced'  PROVE ItemOK(j)'
  OBVIOUS
<1>1. ItemOK(j)
  OBVIOUS
<1>2. /\ \A m \in Edits : Of(m, j)' <=> Of(m, j)
      /\ Exact(j)' <=> Exact(j)
  BY DEF Of, InFlight, Exact
<1>3. /\ cache'[j] = IF j = i THEN c ELSE cache[j]
      /\ server'[j] = IF j = i THEN s ELSE server[j]
  BY DEF EditsOK
<1>4. \A m \in Edits : Of(m, j) => cache'[j] = cache[j] /\ server'[j] = server[j]
  BY <1>3
<1>5. \A m, k \in Edits : Of(m, j)' /\ Of(k, j)' => m = k
  BY <1>1, <1>2 DEF ItemOK
<1>6. \A m \in Edits : Of(m, j)' => \A r \in Refreshes : \A x \in Held(r)' : x.item # j
  BY <1>1, <1>2 DEF ItemOK
<1>7. \A m \in Edits : Of(m, j)' =>
         Mid(edits'[m], m, cache'[j], server'[j], shown'[j], Exact(j)')
  BY <1>1, <1>2, <1>4 DEF ItemOK, Exact
<1>8. (\A m \in Edits : ~ Of(m, j)') =>
         Shows(cache'[j]) = shown'[j] /\ (Exact(j)' => Fits(cache'[j], server'[j]))
  <2>1. CASE cache'[j] = cache[j] /\ server'[j] = server[j]
    BY <1>1, <1>2, <2>1 DEF ItemOK
  <2>2. CASE j = i /\ Shows(c) = Shows(cache[i]) /\ (Exact(i) => Fits(c, s))
    BY <1>1, <1>2, <1>3, <2>2 DEF ItemOK
  <2>. QED  BY <1>3, <2>1, <2>2
<1>9. \A r \in Refreshes : \A x \in Held(r)' :
         x.item = j => HeldOK(refreshes'[r].type, x, cache'[j])
  <2>. SUFFICES ASSUME NEW r \in Refreshes, NEW x \in Held(r)', x.item = j
                PROVE  HeldOK(refreshes'[r].type, x, cache'[j])
    OBVIOUS
  <2>1. HeldOK(refreshes'[r].type, x, cache[j])
    BY <1>1 DEF ItemOK
  <2>2. refreshes'[r].type \in Types /\ x \in ItemVersion
    BY DEF RefreshType, Held
  <2>3. CASE cache'[j] = cache[j]
    BY <2>1, <2>3
  <2>4. CASE j = i /\ \A t \in Types, y \in ItemVersion :
                         HeldOK(t, y, cache[i]) => HeldOK(t, y, c)
    BY <1>3, <2>1, <2>2, <2>4
  <2>. QED  BY <1>3, <2>3, <2>4
<1>. QED  BY <1>5, <1>6, <1>7, <1>8, <1>9 DEF ItemOK

-----------------------------------------------------------------------------
(* The queue of the database.                                                *)

LEMMA Dequeue ==
    ASSUME NEW S, NEW q \in Seq(S), q # <<>>, Apart(q)
    PROVE  /\ Head(q) \in Range(q)
           /\ Tail(q) \in Seq(S) /\ Range(Tail(q)) = Range(q) \ {Head(q)}
           /\ Apart(Tail(q))
<1>1. /\ Len(q) \in Nat /\ Len(q) > 0 /\ DOMAIN q = 1..Len(q) /\ Head(q) = q[1]
      /\ Tail(q) \in Seq(S) /\ Len(Tail(q)) = Len(q) - 1
      /\ \A k \in 1..Len(Tail(q)) : Tail(q)[k] = q[k + 1]
  BY EmptySeq, HeadTailProperties, LenProperties
<1>2. DOMAIN Tail(q) = 1..(Len(q) - 1)
  BY <1>1, LenProperties
<1>3. Head(q) \in Range(q)
  BY <1>1 DEF Range
<1>4. ASSUME NEW y \in Range(Tail(q))  PROVE y \in Range(q) \ {Head(q)}
  <2>1. PICK k \in 1..(Len(q) - 1) : y = q[k + 1]
    BY <1>1, <1>2 DEF Range
  <2>2. k + 1 \in DOMAIN q /\ 1 \in DOMAIN q /\ k + 1 # 1
    BY <1>1
  <2>. QED  BY <1>1, <2>1, <2>2 DEF Apart, Range
<1>5. ASSUME NEW y \in Range(q) \ {Head(q)}  PROVE y \in Range(Tail(q))
  <2>1. PICK k \in 1..Len(q) : y = q[k]
    BY <1>1 DEF Range
  <2>2. k # 1
    BY <1>1, <2>1
  <2>3. k - 1 \in 1..(Len(q) - 1) /\ (k - 1) + 1 = k
    BY <1>1, <2>2
  <2>. QED  BY <1>1, <1>2, <2>1, <2>3 DEF Range
<1>6. ASSUME NEW j \in DOMAIN Tail(q), NEW k \in DOMAIN Tail(q), Tail(q)[j] = Tail(q)[k]
      PROVE  j = k
  <2>1. q[j + 1] = q[k + 1] /\ j + 1 \in DOMAIN q /\ k + 1 \in DOMAIN q
    BY <1>1, <1>2, <1>6
  <2>2. j + 1 = k + 1
    BY <2>1 DEF Apart
  <2>. QED  BY <1>2, <2>2
<1>. QED  BY <1>1, <1>3, <1>4, <1>5, <1>6 DEF Apart

LEMMA Enqueue ==
    ASSUME NEW S, NEW q \in Seq(S), NEW n \in S, n \notin Range(q), Apart(q)
    PROVE  /\ Append(q, n) \in Seq(S) /\ Range(Append(q, n)) = Range(q) \cup {n}
           /\ Apart(Append(q, n))
<1>1. /\ Len(q) \in Nat /\ DOMAIN q = 1..Len(q)
      /\ Append(q, n) \in Seq(S) /\ Len(Append(q, n)) = Len(q) + 1
      /\ \A k \in 1..Len(q) : Append(q, n)[k] = q[k]
      /\ Append(q, n)[Len(q) + 1] = n
  BY AppendProperties, LenProperties
<1>2. DOMAIN Append(q, n) = 1..(Len(q) + 1)
  BY <1>1, LenProperties
<1>3. \A k \in 1..(Len(q) + 1) : k \in 1..Len(q) \/ k = Len(q) + 1
  BY <1>1
<1>4. Range(Append(q, n)) = Range(q) \cup {n}
  BY <1>1, <1>2, <1>3 DEF Range
<1>5. ASSUME NEW j \in 1..(Len(q) + 1), NEW k \in 1..(Len(q) + 1),
             Append(q, n)[j] = Append(q, n)[k]
      PROVE  j = k
  <2>1. \A l \in 1..Len(q) : q[l] # n
    BY <1>1 DEF Range
  <2>. QED  BY <1>1, <1>3, <1>5, <2>1 DEF Apart
<1>. QED  BY <1>1, <1>2, <1>4, <1>5 DEF Apart

\* The queue that edit n joins: it is in none, or its statement was the first and
\* has completed.
Behind(q, n) == \/ q = dbQueue /\ n \notin Waiting
                \/ q = Tail(dbQueue) /\ dbQueue # <<>> /\ n = Head(dbQueue)

\* Edit n waits behind the others.
LEMMA Requeued ==
    ASSUME QueueOK, NEW n \in Edits, NEW q,
           Behind(q, n),
           dbQueue' = Append(q, n), Waiting' = Waiting \cup {n}
    PROVE  QueueOK'
<1>1. q \in Seq(Edits) /\ Range(q) = Waiting \ {n} /\ Apart(q)
  <2>1. CASE q = dbQueue /\ n \notin Waiting
    BY <2>1 DEF QueueOK
  <2>2. CASE q = Tail(dbQueue) /\ dbQueue # <<>> /\ n = Head(dbQueue)
    BY <2>2, Dequeue DEF QueueOK
  <2>. QED  BY <2>1, <2>2 DEF Behind
<1>2. /\ dbQueue' \in Seq(Edits) /\ Range(dbQueue') = Range(q) \cup {n}
      /\ Apart(dbQueue')
  BY <1>1, Enqueue
<1>. QED  BY <1>1, <1>2 DEF QueueOK

\* Its last statement was the first and has completed.
LEMMA Dequeued ==
    ASSUME QueueOK, dbQueue # <<>>, dbQueue' = Tail(dbQueue),
           Waiting' = Waiting \ {Head(dbQueue)}
    PROVE  QueueOK'
<1>1. /\ dbQueue' \in Seq(Edits) /\ Range(dbQueue') = Range(dbQueue) \ {Head(dbQueue)}
      /\ Apart(dbQueue')
  BY Dequeue DEF QueueOK
<1>. QED  BY <1>1 DEF QueueOK

-----------------------------------------------------------------------------
(* Steps of edits.                                                           *)

LEMMA ScriptTypes ==
    /\ \A kind \in Kinds : /\ OfflineScript(kind) \in Seq(Statements) /\ OfflineScript(kind) # <<>>
                           /\ StoreScript(kind) \in Seq(Statements) /\ StoreScript(kind) # <<>>
    /\ <<"read">> \in Seq(Statements) /\ <<"read">> # <<>>
    /\ Head(<<"read">>) = "read" /\ Tail(<<"read">>) = <<>>
<1>1. /\ StoreModify \in Seq(Statements) /\ StoreModify # <<>>
      /\ StoreAdopt \in Seq(Statements) /\ StoreAdopt # <<>>
      /\ StoreDelete \in Seq(Statements) /\ StoreDelete # <<>>
      /\ DeleteOffline \in Seq(Statements) /\ DeleteOffline # <<>>
  BY DEF StoreModify, StoreAdopt, StoreDelete, DeleteOffline, Statements
<1>2. /\ <<"addOffline">> \in Seq(Statements)
      /\ <<"read", "modifyOffline">> \in Seq(Statements)
  BY DEF Statements
<1>3. /\ AdoptOffline \in Seq(Statements) /\ AdoptOffline # <<>>
      /\ ModifyOffline \in Seq(Statements) /\ ModifyOffline # <<>>
  BY <1>1, <1>2, ConcatProperties, EmptySeq, LenProperties DEF AdoptOffline, ModifyOffline
<1>4. /\ <<"read">> \in Seq(Statements) /\ <<"read">> # <<>>
      /\ Head(<<"read">>) = "read" /\ Tail(<<"read">>) = <<>>
  BY DEF Statements
<1>. QED  BY <1>1, <1>3, <1>4 DEF Kinds, OfflineScript, StoreScript

\* Edit n, being e, issues a statement.
LEMMA Issues ==
    ASSUME EditsOK, QueueOK, NEW n \in Edits, NEW e \in EditType,
           e.item \in Items, e.kind \in Kinds, NEW pc \in {"asking", "storing"},
           NEW script \in Seq(Statements), script # <<>>, NEW q,
           Behind(q, n),
           Issue(n, e, pc, script, q),
           server' \in [Items -> Versions \cup {None}],
           shown' \in [Items -> Versions \cup {None}]
    PROVE  /\ EditsOK' /\ QueueOK'
           /\ cache[e.item] \in Rows
           /\ Issued(e, pc, script, cache[e.item]) \in EditType
           /\ Issued(e, pc, script, cache[e.item]).pc = pc
           /\ Issued(e, pc, script, cache[e.item]).item = e.item
           /\ Written(Head(script), cache[e.item], e.flag, n) \in Rows
           /\ edits' = [edits EXCEPT ![n] = Issued(e, pc, script, cache[e.item])]
           /\ cache' = [cache EXCEPT ![e.item] = Written(Head(script), cache[e.item], e.flag, n)]
<1>1. PICK c \in Rows : c = cache[e.item]
  BY DEF EditsOK, Rows
<1>2. Head(script) \in Statements /\ Tail(script) \in Seq(Statements)
  BY HeadTailProperties
<1>3. PICK w \in Rows : w = Written(Head(script), c, e.flag, n)
  BY <1>2, WrittenIsRow DEF EditType
<1>4. c.flag \in Flags
  BY DEF Rows, Row, Flags
<1>5. PICK d \in EditType : d = Issued(e, pc, script, c)
  BY <1>2, <1>4 DEF Issued, EditType
<1>6. d.pc = pc /\ d.item = e.item /\ d.kind = e.kind
  BY <1>5 DEF Issued, EditType
<1>7. /\ edits' = [edits EXCEPT ![n] = d] /\ cache' = [cache EXCEPT ![e.item] = w]
      /\ dbQueue' = Append(q, n)
  BY <1>1, <1>3, <1>5 DEF Issue, Issued
<1>8. EditsOK'
  <2>1. edits' \in [Edits -> EditType] /\ cache' \in [Items -> Row]
    BY <1>7 DEF EditsOK, Rows
  <2>2. \A i \in Items : cache'[i].ver = None => cache'[i] = Absent
    BY <1>7 DEF EditsOK, Rows
  <2>3. \A m \in Edits : InFlight(m)' => edits'[m].kind \in Kinds /\ edits'[m].item \in Items
    BY <1>6, <1>7 DEF EditsOK, InFlight
  <2>. QED  BY <2>1, <2>2, <2>3 DEF EditsOK
<1>9. QueueOK'
  <2>1. edits'[n] = d /\ \A m \in Edits : m # n => edits'[m] = edits[m]
    BY <1>7 DEF EditsOK
  <2>2. Waiting' = Waiting \cup {n}
    BY <1>6, <2>1 DEF Waiting
  <2>. QED  BY <1>7, <2>2, Requeued
<1>. QED  BY <1>1, <1>3, <1>5, <1>6, <1>7, <1>8, <1>9

LEMMA EditIsEdit ==
    ASSUME NEW kind \in Kinds, NEW i \in Items
    PROVE  /\ Edit(kind, i) \in EditType /\ Edit(kind, i).item = i
           /\ Edit(kind, i).kind = kind /\ Edit(kind, i).flag = NoFlag
           /\ Edit(kind, i).script = <<>>
  BY EmptySeq DEF Edit, EditType, Flags, Kinds

\* An item for which an edit is made without a race is as it was left.
LEMMA AskedItem ==
    ASSUME CacheInv, NEW n \in Edits, NEW i \in Items, Asks(n, i), i \notin raced'
    PROVE  /\ \A m \in Edits : ~ Of(m, i)
           /\ \A r \in Refreshes : \A x \in Held(r) : x.item # i
           /\ Shows(cache[i]) = shown[i]
           /\ Exact(i) => Fits(cache[i], server[i])
<1>1. i \notin raced /\ ~ EditedNow(i) /\ ~ PlayedBackNow(i)
  BY DEF Asks
<1>2. \A m \in Edits : ~ Of(m, i)
  BY <1>1 DEF EditedNow, Of, CacheInv, EditsOK
<1>3. \A r \in Refreshes : \A x \in Held(r) : x.item # i
  BY <1>1 DEF PlayedBackNow, HeldBy, Held, CacheInv, RefreshesOK
<1>4. ItemOK(i)
  BY <1>1 DEF CacheInv
<1>. QED  BY <1>2, <1>3, <1>4 DEF ItemOK

LEMMA AsksKeeps ==
    ASSUME CacheInv, NEW n \in Edits, NEW i \in Items, Asks(n, i)
    PROVE  /\ n \notin Waiting /\ ~ InFlight(n)
           /\ RefreshesOK' /\ OneReplay'
           /\ offline' \in BOOLEAN /\ toggles' \in 0..MaxToggles
           /\ raced \subseteq raced' /\ raced' \subseteq Items
<1>1. n \notin Waiting /\ ~ InFlight(n)
  BY DEF Asks, Waiting, InFlight
<1>2. RefreshesOK' /\ OneReplay'
  BY DEF Asks, CacheInv, RefreshesOK, OneReplay
<1>. QED  BY <1>1, <1>2 DEF Asks, CacheInv, RestOK

\* Edit n, being e, issues a statement for item i, of which the server holds s.
IssueStep(n, i, e, pc, script, q, s) ==
    /\ Behind(q, n) /\ Issue(n, e, pc, script, q)
    /\ server' = [server EXCEPT ![i] = s]
    /\ UNCHANGED <<shown, refreshes>>
    /\ raced \subseteq raced'
    /\ \A j \in Items : j # i => (j \in revived' <=> j \in revived)
    /\ InFlight(n) => edits[n].item = i

IssueFits(n, i, e, pc, script, s) ==
    i \notin raced' =>
      /\ \A m \in Edits : m # n => ~ Of(m, i)
      /\ \A r \in Refreshes : \A x \in Held(r) : x.item # i
      /\ Mid(Issued(e, pc, script, cache[i]), n,
             Written(Head(script), cache[i], e.flag, n), s, shown[i], i \notin revived')

LEMMA IssueKeeps ==
    ASSUME CacheInv, NEW n \in Edits, NEW i \in Items, NEW e \in EditType,
           e.item = i, e.kind \in Kinds, NEW pc \in {"asking", "storing"},
           NEW script \in Seq(Statements), script # <<>>, NEW q, NEW s \in States,
           IssueStep(n, i, e, pc, script, q, s), IssueFits(n, i, e, pc, script, s),
           RefreshesOK', RestOK', OneReplay'
    PROVE  CacheInv'
<1>. USE DEF CacheInv
<1>1. /\ server' \in [Items -> Versions \cup {None}]
      /\ shown' \in [Items -> Versions \cup {None}]
  BY DEF EditsOK, States, IssueStep
<1>2. /\ EditsOK' /\ QueueOK'
      /\ Issued(e, pc, script, cache[i]) \in EditType
      /\ Issued(e, pc, script, cache[i]).pc = pc
      /\ Issued(e, pc, script, cache[i]).item = i
      /\ Written(Head(script), cache[i], e.flag, n) \in Rows
      /\ edits' = [edits EXCEPT ![n] = Issued(e, pc, script, cache[i])]
      /\ cache' = [cache EXCEPT ![i] = Written(Head(script), cache[i], e.flag, n)]
  BY <1>1, Issues DEF IssueStep
<1>3. PICK d \in EditType : d = Issued(e, pc, script, cache[i])
  BY <1>2
<1>4. PICK w \in Rows : w = Written(Head(script), cache[i], e.flag, n)
  BY <1>2
<1>5. PICK v \in States : v = shown[i] /\ shown' = [shown EXCEPT ![i] = v]
  BY DEF EditsOK, States, IssueStep
<1>6. d.pc \in UnderWay /\ d.item = i
  BY <1>2, <1>3 DEF UnderWay
<1>7. EditStep(n, i, d, w, s, v)
  BY <1>2, <1>3, <1>4, <1>5, <1>6 DEF EditStep, IssueStep
<1>8. EditFits(n, i, d, w, s, v)
  BY <1>3, <1>4, <1>5, <1>6 DEF EditFits, IssueFits
<1>9. \A j \in Items \ raced' : ItemOK(j)'
  BY <1>7, <1>8, EditMoves
<1>. QED  BY <1>2, <1>9

LEMMA AdoptItemKeeps ==
    ASSUME CacheInv, NEW n \in Edits, NEW i \in Items, AdoptItem(n, i)
    PROVE  CacheInv'
<1>. USE DEF CacheInv
<1>1. Asks(n, i)
  BY DEF AdoptItem
<1>2. /\ n \notin Waiting /\ ~ InFlight(n)
      /\ RefreshesOK' /\ OneReplay'
      /\ offline' \in BOOLEAN /\ toggles' \in 0..MaxToggles
      /\ raced \subseteq raced' /\ raced' \subseteq Items
  BY <1>1, AsksKeeps
<1>3. PICK e \in EditType : /\ e = Edit("add", i) /\ e.item = i /\ e.kind = "add"
                            /\ e.flag = NoFlag /\ e.script = <<>>
  BY EditIsEdit DEF Kinds
<1>4. /\ revived' = IF cache[i].flag = Deleted THEN revived \cup {i} ELSE revived
      /\ RestOK'
  BY <1>2 DEF AdoptItem, RestOK
<1>5. UNCHANGED <<server, shown, refreshes>>
  BY <1>1 DEF Asks
<1>6. i \notin raced' =>
        /\ \A m \in Edits : ~ Of(m, i)
        /\ \A r \in Refreshes : \A x \in Held(r) : x.item # i
        /\ Shows(cache[i]) = shown[i] /\ shown[i] = None
        /\ i \notin revived' => Fits(cache[i], server[i]) /\ server[i] = None
  <2>. SUFFICES ASSUME i \notin raced'
                PROVE  /\ \A m \in Edits : ~ Of(m, i)
                       /\ \A r \in Refreshes : \A x \in Held(r) : x.item # i
                       /\ Shows(cache[i]) = shown[i] /\ shown[i] = None
                       /\ i \notin revived' => Fits(cache[i], server[i]) /\ server[i] = None
    OBVIOUS
  <2>1. /\ \A m \in Edits : ~ Of(m, i)
        /\ \A r \in Refreshes : \A x \in Held(r) : x.item # i
        /\ Shows(cache[i]) = shown[i]
        /\ Exact(i) => Fits(cache[i], server[i])
    BY <1>1, AskedItem
  <2>2. Shows(cache[i]) = None
    BY DEF AdoptItem, Visible, Shows
  <2>3. i \notin revived' => cache[i].flag # Deleted /\ Exact(i)
    BY <1>4 DEF Exact
  <2>4. i \notin revived' => cache[i] = Absent
    BY <2>2, <2>3 DEF Shows, EditsOK
  <2>. QED  BY <2>1, <2>2, <2>3, <2>4 DEF Fits, Absent
<1>7. CASE offline
  <2>1. Issue(n, e, "storing", OfflineScript("add"), dbQueue)
    BY <1>3, <1>7 DEF AdoptItem, OfflineScript
  <2>2. PICK s \in States : s = server[i] /\ server' = [server EXCEPT ![i] = s]
    BY <1>5 DEF EditsOK, States
  <2>3. cache[i] \in Rows /\ shown[i] \in States
    BY DEF EditsOK, Rows, States
  <2>4. i \notin raced' => Mid(Issued(e, "storing", OfflineScript("add"), cache[i]), n,
                               Written(Head(OfflineScript("add")), cache[i], e.flag, n), s,
                               shown[i], i \notin revived')
    BY <1>3, <1>6, <2>2, <2>3, OfflineMid DEF Kinds
  <2>5. \A j \in Items : j # i => (j \in revived' <=> j \in revived)
    BY <1>4
  <2>6. IssueStep(n, i, e, "storing", OfflineScript("add"), dbQueue, s)
    BY <1>2, <1>5, <2>1, <2>2, <2>5 DEF IssueStep, Behind
  <2>7. IssueFits(n, i, e, "storing", OfflineScript("add"), s)
    BY <1>6, <2>4 DEF IssueFits
  <2>8. OfflineScript("add") \in Seq(Statements) /\ OfflineScript("add") # <<>>
    BY ScriptTypes DEF Kinds
  <2>9. e.kind \in Kinds
    BY <1>3 DEF Kinds
  <2>. QED  BY <1>2, <1>3, <1>4, <2>6, <2>7, <2>8, <2>9, IssueKeeps
<1>8. CASE ~ offline
  <2>1. PICK d \in EditType : /\ d = [e EXCEPT !.pc = "sent"] /\ d.pc = "sent" /\ d.kind = "add"
                              /\ d.item = i
    <3>1. [e EXCEPT !.pc = "sent"] \in EditType
      BY DEF EditType
    <3>. QED  BY <1>3, <3>1 DEF EditType
  <2>2. edits' = [edits EXCEPT ![n] = d] /\ UNCHANGED <<cache, dbQueue>>
    BY <1>3, <1>8, <2>1 DEF AdoptItem
  <2>3. EditsOK'
    BY <1>5, <2>1, <2>2 DEF EditsOK, InFlight, Kinds
  <2>4. Waiting' = Waiting
    BY <1>2, <2>1, <2>2 DEF EditsOK, Waiting
  <2>5. QueueOK'
    BY <2>2, <2>4 DEF QueueOK
  <2>6. PICK c \in Rows, s \in States, v \in States :
           /\ c = cache[i] /\ cache' = [cache EXCEPT ![i] = c]
           /\ s = server[i] /\ server' = [server EXCEPT ![i] = s]
           /\ v = shown[i] /\ shown' = [shown EXCEPT ![i] = v]
    BY <1>5, <2>2 DEF EditsOK, Rows, States
  <2>7. i \notin raced' => Mid(d, n, c, s, v, i \notin revived')
    BY <1>6, <2>1, <2>6 DEF Mid, Early
  <2>8. \A j \in Items : j # i => (j \in revived' <=> j \in revived)
    BY <1>4
  <2>9. \A j \in Items \ raced' : ItemOK(j)'
    <3>1. EditStep(n, i, d, c, s, v)
      BY <1>2, <1>5, <2>1, <2>2, <2>6, <2>8 DEF EditStep
    <3>2. EditFits(n, i, d, c, s, v)
      BY <1>6, <2>1, <2>7 DEF EditFits, UnderWay
    <3>. QED  BY <3>1, <3>2, EditMoves
  <2>. QED  BY <1>2, <1>4, <2>3, <2>5, <2>9
<1>. QED  BY <1>7, <1>8

LEMMA ChangeItemKeeps ==
    ASSUME CacheInv, NEW n \in Edits, NEW i \in Items, NEW kind \in {"modify", "delete"},
           ChangeItem(n, i, kind)
    PROVE  CacheInv'
<1>. USE DEF CacheInv
<1>1. Asks(n, i) /\ UNCHANGED revived
  BY DEF ChangeItem
<1>2. /\ n \notin Waiting /\ ~ InFlight(n)
      /\ RefreshesOK' /\ OneReplay'
      /\ offline' \in BOOLEAN /\ toggles' \in 0..MaxToggles
      /\ raced \subseteq raced' /\ raced' \subseteq Items
  BY <1>1, AsksKeeps
<1>3. RestOK'
  BY <1>1, <1>2 DEF RestOK
<1>4. PICK e \in EditType : /\ e = Edit(kind, i) /\ e.item = i /\ e.kind = kind
                            /\ e.flag = NoFlag /\ e.script = <<>>
  <2>1. kind \in Kinds
    BY DEF Kinds
  <2>. QED  BY <2>1, EditIsEdit
<1>5. UNCHANGED <<server, shown, refreshes>>
  BY <1>1 DEF Asks
<1>6. PICK s \in States : s = server[i] /\ server' = [server EXCEPT ![i] = s]
  BY <1>5 DEF EditsOK, States
<1>7. PICK c \in Rows : c = cache[i]
  BY DEF EditsOK, Rows
<1>8. shown[i] \in States /\ Shows(c) # None
  BY <1>7 DEF ChangeItem, Visible, Shows, EditsOK, States
<1>9. i \notin raced' =>
        /\ \A m \in Edits : ~ Of(m, i)
        /\ \A r \in Refreshes : \A x \in Held(r) : x.item # i
        /\ Shows(c) = shown[i] /\ shown[i] # None
        /\ i \notin revived' => Fits(c, s)
  BY <1>1, <1>6, <1>7, <1>8, AskedItem DEF Exact
<1>10. CASE offline
  <2>1. Issue(n, e, "storing", OfflineScript(kind), dbQueue)
    BY <1>4, <1>10 DEF ChangeItem
  <2>2. e.kind \in Kinds /\ e.kind # "add"
    BY <1>4 DEF Kinds
  <2>3. i \notin raced' => Mid(Issued(e, "storing", OfflineScript(kind), c), n,
                               Written(Head(OfflineScript(kind)), c, e.flag, n), s,
                               shown[i], i \notin revived')
    BY <1>4, <1>8, <1>9, <2>2, OfflineMid
  <2>4. IssueStep(n, i, e, "storing", OfflineScript(kind), dbQueue, s)
    BY <1>1, <1>2, <1>5, <1>6, <2>1 DEF IssueStep, Behind
  <2>5. IssueFits(n, i, e, "storing", OfflineScript(kind), s)
    BY <1>7, <1>9, <2>3 DEF IssueFits
  <2>6. OfflineScript(kind) \in Seq(Statements) /\ OfflineScript(kind) # <<>>
    BY ScriptTypes DEF Kinds
  <2>. QED  BY <1>2, <1>3, <1>4, <2>2, <2>4, <2>5, <2>6, IssueKeeps
<1>11. CASE ~ offline
  <2>1. Issue(n, e, "asking", <<"read">>, dbQueue)
    BY <1>4, <1>11 DEF ChangeItem
  <2>2. e.kind \in Kinds
    BY <1>4 DEF Kinds
  <2>3. /\ <<"read">> \in Seq(Statements) /\ <<"read">> # <<>>
        /\ Head(<<"read">>) = "read" /\ Tail(<<"read">>) = <<>>
    BY ScriptTypes
  <2>4. i \notin raced' => Mid(Issued(e, "asking", <<"read">>, c), n,
                               Written(Head(<<"read">>), c, e.flag, n), s,
                               shown[i], i \notin revived')
    <3>1. PICK d : d = Issued(e, "asking", <<"read">>, c)
      OBVIOUS
    <3>2. d.pc = "asking" /\ d.kind = kind /\ d.script = <<>> /\ d.flag = c.flag
      BY <1>4, <2>3, <3>1 DEF Issued, EditType
    <3>3. Written(Head(<<"read">>), c, e.flag, n) = c
      BY <2>3 DEF Written
    <3>. QED  BY <1>9, <3>1, <3>2, <3>3 DEF Mid, Early
  <2>5. IssueStep(n, i, e, "asking", <<"read">>, dbQueue, s)
    BY <1>1, <1>2, <1>5, <1>6, <2>1 DEF IssueStep, Behind
  <2>6. IssueFits(n, i, e, "asking", <<"read">>, s)
    BY <1>7, <1>9, <2>4 DEF IssueFits
  <2>. QED  BY <1>2, <1>3, <1>4, <2>2, <2>3, <2>5, <2>6, IssueKeeps
<1>. QED  BY <1>10, <1>11

\* An edit under way has its item for itself, or the item has raced.
LEMMA OwnItem ==
    ASSUME CacheInv, NEW n \in Edits, InFlight(n)
    PROVE  /\ edits[n] \in EditType /\ edits[n].item \in Items /\ edits[n].kind \in Kinds
           /\ cache[edits[n].item] \in Rows /\ server[edits[n].item] \in States
           /\ shown[edits[n].item] \in States
           /\ edits[n].item \notin raced =>
                /\ \A m \in Edits : m # n => ~ Of(m, edits[n].item)
                /\ \A r \in Refreshes : \A x \in Held(r) : x.item # edits[n].item
                /\ Mid(edits[n], n, cache[edits[n].item], server[edits[n].item],
                       shown[edits[n].item], edits[n].item \notin revived)
<1>1. edits[n] \in EditType /\ edits[n].item \in Items /\ edits[n].kind \in Kinds
  BY DEF CacheInv, EditsOK
<1>2. /\ cache[edits[n].item] \in Rows /\ server[edits[n].item] \in States
      /\ shown[edits[n].item] \in States
  BY <1>1 DEF CacheInv, EditsOK, Rows, States
<1>3. Of(n, edits[n].item)
  BY DEF Of
<1>4. edits[n].item \notin raced => ItemOK(edits[n].item)
  BY <1>1 DEF CacheInv
<1>. QED  BY <1>1, <1>2, <1>3, <1>4 DEF ItemOK, Exact

\* The edit ends: its listener is told.
LEMMA AnswerKeeps ==
    ASSUME CacheInv, NEW n \in Edits, InFlight(n), NEW done \in BOOLEAN, Answer(n, done),
           UNCHANGED <<server, cache, refreshes, raced, revived>>,
           QueueOK', RefreshesOK', RestOK', OneReplay',
           edits[n].item \notin raced =>
             /\ done => edits[n].pc = "storing" /\ edits[n].script = <<>>
             /\ ~ done => edits[n].pc = "sent"
    PROVE  CacheInv'
<1>. USE DEF CacheInv
<1>1. PICK i \in Items : i = edits[n].item
  BY OwnItem
<1>2. PICK e \in EditType : e = Ended /\ e.pc = "done"
  <2>1. Ended \in EditType /\ Ended.pc = "done"
    BY EmptySeq DEF Ended, NoEdit, EditType, Flags
  <2>. QED  BY <2>1
<1>3. edits' = [edits EXCEPT ![n] = e]
  BY <1>2 DEF Answer
<1>4. PICK v \in States :
         /\ v = (IF done THEN Result(edits[n].kind, n) ELSE shown[i])
         /\ shown' = [shown EXCEPT ![i] = v]
  <2>1. Result(edits[n].kind, n) \in States /\ shown[i] \in States
    BY CacheAssumption, <1>1, OwnItem DEF Result, States, Versions, Edits
  <2>2. shown' = [shown EXCEPT ![i] = IF done THEN Result(edits[n].kind, n) ELSE shown[i]]
    BY <1>1 DEF Answer, Result, EditsOK
  <2>. QED  BY <2>1, <2>2
<1>5. EditsOK'
  BY <1>2, <1>3, <1>4 DEF EditsOK, InFlight, States
<1>6. PICK c \in Rows, s \in States :
         /\ c = cache[i] /\ cache' = [cache EXCEPT ![i] = c]
         /\ s = server[i] /\ server' = [server EXCEPT ![i] = s]
  BY <1>1, OwnItem DEF EditsOK
<1>7. EditStep(n, i, e, c, s, v)
  BY <1>1, <1>2, <1>3, <1>4, <1>6 DEF EditStep, UnderWay
<1>8. EditFits(n, i, e, c, s, v)
  <2>. SUFFICES ASSUME i \notin raced
                PROVE  /\ \A m \in Edits : m # n => ~ Of(m, i)
                       /\ \A r \in Refreshes : \A x \in Held(r) : x.item # i
                       /\ Shows(c) = v /\ (i \notin revived => Fits(c, s))
    BY <1>2 DEF EditFits, UnderWay
  <2>1. /\ \A m \in Edits : m # n => ~ Of(m, i)
        /\ \A r \in Refreshes : \A x \in Held(r) : x.item # i
        /\ Mid(edits[n], n, c, s, shown[i], i \notin revived)
    BY <1>1, <1>6, OwnItem
  <2>2. CASE done
    <3>1. edits[n].pc = "storing" /\ edits[n].script = <<>>
      BY <1>1, <2>2
    <3>2. /\ ~ Storing(edits[n], n, c, s, i \notin revived)
          /\ ~ Journalling(edits[n], n, c, s, i \notin revived)
          /\ ~ Early(edits[n], n, c, s, shown[i], i \notin revived)
      BY <3>1 DEF Storing, Journalling, Early
    <3>3. Stored(edits[n], n, c, s, i \notin revived)
      BY <2>1, <3>2 DEF Mid
    <3>. QED  BY <1>4, <2>1, <2>2, <3>3 DEF Stored
  <2>3. CASE ~ done
    BY <1>1, <1>4, <2>1, <2>3 DEF Mid, Early
  <2>. QED  BY <2>1, <2>2, <2>3
<1>9. \A j \in Items \ raced' : ItemOK(j)'
  BY <1>7, <1>8, EditMoves
<1>. QED  BY <1>5, <1>9

\* The edit whose statement completes.
LEMMA FirstInQueue ==
    ASSUME CacheInv, dbQueue # <<>>
    PROVE  /\ Head(dbQueue) \in Edits /\ Head(dbQueue) \in Waiting
           /\ InFlight(Head(dbQueue)) /\ Behind(Tail(dbQueue), Head(dbQueue))
<1>1. Head(dbQueue) \in Waiting
  BY Dequeue DEF CacheInv, QueueOK
<1>. QED  BY <1>1 DEF Waiting, InFlight, Behind

\* It goes on with the rest of its script, or with another one.
LEMMA DbGoesOn ==
    ASSUME CacheInv, NEW n \in Edits, NEW pc \in {"asking", "storing"},
           NEW script \in Seq(Statements), script # <<>>,
           dbQueue # <<>>, n = Head(dbQueue), Issue(n, edits[n], pc, script, Tail(dbQueue)),
           UNCHANGED <<offline, server, refreshes, mSyncQueue, replays, toggles, shown, raced,
                       revived>>,
           edits[n].item \notin raced =>
             Mid(Issued(edits[n], pc, script, cache[edits[n].item]), n,
                 Written(Head(script), cache[edits[n].item], edits[n].flag, n),
                 server[edits[n].item], shown[edits[n].item], edits[n].item \notin revived)
    PROVE  CacheInv'
<1>1. InFlight(n) /\ Behind(Tail(dbQueue), n)
  BY FirstInQueue
<1>2. PICK i \in Items : i = edits[n].item
  BY <1>1, OwnItem
<1>3. PICK e \in EditType : e = edits[n] /\ e.item = i /\ e.kind \in Kinds
  BY <1>1, <1>2, OwnItem
<1>4. PICK s \in States : s = server[i] /\ server' = [server EXCEPT ![i] = s]
  BY <1>1, <1>2, OwnItem DEF CacheInv, EditsOK
<1>5. RefreshesOK' /\ RestOK' /\ OneReplay'
  BY DEF CacheInv, RefreshesOK, RestOK, OneReplay
<1>6. IssueStep(n, i, e, pc, script, Tail(dbQueue), s)
  BY <1>1, <1>2, <1>3, <1>4 DEF IssueStep
<1>7. IssueFits(n, i, e, pc, script, s)
  <2>1. i \notin raced => /\ \A m \in Edits : m # n => ~ Of(m, i)
                          /\ \A r \in Refreshes : \A x \in Held(r) : x.item # i
    BY <1>1, <1>2, OwnItem
  <2>. QED  BY <1>2, <1>3, <1>4, <2>1 DEF IssueFits
<1>. QED  BY <1>3, <1>5, <1>6, <1>7, IssueKeeps

LEMMA DbCompletesKeeps == ASSUME CacheInv, DbCompletes  PROVE CacheInv'
<1>. USE DEF CacheInv
<1>1. PICK n \in Edits : n = Head(dbQueue) /\ n \in Waiting /\ InFlight(n)
  BY FirstInQueue DEF DbCompletes
<1>2. PICK e \in EditType : e = edits[n] /\ e.item \in Items /\ e.kind \in Kinds
  BY <1>1, OwnItem
<1>3. PICK i \in Items : i = e.item
  BY <1>2
<1>4. PICK c \in Rows : c = cache[i]
  BY <1>1, <1>2, <1>3, OwnItem
<1>5. server[i] \in States /\ shown[i] \in States
  BY <1>1, <1>2, <1>3, OwnItem
<1>6. i \notin raced => Mid(e, n, c, server[i], shown[i], i \notin revived)
  BY <1>1, <1>2, <1>3, <1>4, OwnItem
<1>7. /\ dbQueue # <<>>
      /\ UNCHANGED <<offline, server, refreshes, mSyncQueue, replays, toggles, raced, revived>>
  BY DEF DbCompletes
<1>8. e.pc \in {"asking", "storing"}
  BY <1>1, <1>2 DEF Waiting
<1>9. CASE e.script # <<>> /\ Issue(n, e, e.pc, e.script, Tail(dbQueue)) /\ UNCHANGED shown
  <2>1. e.script \in Seq(Statements)
    BY DEF EditType
  <2>2. i \notin raced => Mid(Issued(e, e.pc, e.script, c), n,
                              Written(Head(e.script), c, e.flag, n),
                              server[i], shown[i], i \notin revived)
    <3>1. CASE e.pc = "storing"
      BY <1>5, <1>6, <1>9, <3>1, GoesOnMid
    <3>2. CASE e.pc = "asking"
      BY <1>6, <1>9, <3>2 DEF Mid, Early
    <3>. QED  BY <1>8, <3>1, <3>2
  <2>. QED  BY <1>1, <1>2, <1>3, <1>4, <1>7, <1>8, <1>9, <2>1, <2>2, DbGoesOn
<1>10. CASE /\ e.script = <<>> /\ e.pc = "asking" /\ e.flag \in {Created, Modified}
            /\ Issue(n, e, "storing", OfflineScript(e.kind), Tail(dbQueue))
            /\ UNCHANGED shown
  <2>1. OfflineScript(e.kind) \in Seq(Statements) /\ OfflineScript(e.kind) # <<>>
    BY <1>2, ScriptTypes
  <2>2. i \notin raced => Mid(Issued(e, "storing", OfflineScript(e.kind), c), n,
                              Written(Head(OfflineScript(e.kind)), c, e.flag, n),
                              server[i], shown[i], i \notin revived)
    <3>. SUFFICES ASSUME i \notin raced
                  PROVE  Mid(Issued(e, "storing", OfflineScript(e.kind), c), n,
                             Written(Head(OfflineScript(e.kind)), c, e.flag, n),
                             server[i], shown[i], i \notin revived)
      OBVIOUS
    <3>1. Early(e, n, c, server[i], shown[i], i \notin revived)
      BY <1>6, <1>10 DEF Mid
    <3>2. /\ Shows(c) = shown[i] /\ shown[i] # None /\ e.kind # "add"
          /\ i \notin revived => Fits(c, server[i])
      BY <1>10, <3>1 DEF Early
    <3>. QED  BY <1>2, <1>5, <3>2, OfflineMid
  <2>. QED  BY <1>1, <1>2, <1>3, <1>4, <1>7, <1>10, <2>1, <2>2, DbGoesOn
<1>11. CASE /\ e.script = <<>> /\ e.pc = "asking" /\ e.flag \notin {Created, Modified}
            /\ edits' = [edits EXCEPT ![n].pc = "sent"]
            /\ dbQueue' = Tail(dbQueue)
            /\ UNCHANGED <<cache, shown>>
  <2>1. PICK d \in EditType : /\ d = [e EXCEPT !.pc = "sent"] /\ d.pc = "sent" /\ d.item = i
                              /\ d.kind = e.kind /\ edits' = [edits EXCEPT ![n] = d]
    <3>1. [e EXCEPT !.pc = "sent"] \in EditType
      BY DEF EditType
    <3>. QED  BY <1>2, <1>3, <1>11, <3>1 DEF EditType, EditsOK
  <2>2. EditsOK'
    BY <1>2, <1>3, <1>7, <1>11, <2>1 DEF EditsOK, InFlight
  <2>3. Waiting' = Waiting \ {n}
    BY <2>1 DEF EditsOK, Waiting
  <2>4. QueueOK'
    BY <1>1, <1>7, <1>11, <2>3, Dequeued
  <2>5. RefreshesOK' /\ RestOK' /\ OneReplay'
    BY <1>7 DEF RefreshesOK, RestOK, OneReplay
  <2>6. PICK s \in States, v \in States :
           /\ s = server[i] /\ server' = [server EXCEPT ![i] = s]
           /\ v = shown[i] /\ shown' = [shown EXCEPT ![i] = v]
           /\ cache' = [cache EXCEPT ![i] = c]
    BY <1>4, <1>5, <1>7, <1>11 DEF EditsOK
  <2>7. EditStep(n, i, d, c, s, v)
    BY <1>2, <1>3, <1>7, <2>1, <2>6 DEF EditStep
  <2>8. EditFits(n, i, d, c, s, v)
    <3>. SUFFICES ASSUME i \notin raced
                  PROVE  /\ \A m \in Edits : m # n => ~ Of(m, i)
                         /\ \A r \in Refreshes : \A x \in Held(r) : x.item # i
                         /\ Mid(d, n, c, s, v, i \notin revived)
      BY <1>7, <2>1 DEF EditFits, UnderWay
    <3>1. /\ \A m \in Edits : m # n => ~ Of(m, i)
          /\ \A r \in Refreshes : \A x \in Held(r) : x.item # i
      BY <1>1, <1>2, <1>3, OwnItem
    <3>2. Early(e, n, c, s, v, i \notin revived)
      BY <1>6, <1>11, <2>6 DEF Mid
    <3>3. c.flag = NoFlag
      BY <1>11, <3>2 DEF Early, Shows, Rows, Row, NoFlag, Created, Modified, Deleted
    <3>. QED  BY <1>11, <2>1, <3>1, <3>2, <3>3 DEF Mid, Early
  <2>9. \A j \in Items \ raced' : ItemOK(j)'
    BY <2>7, <2>8, EditMoves
  <2>. QED  BY <2>2, <2>4, <2>5, <2>9
<1>12. CASE /\ e.script = <<>> /\ e.pc = "storing"
            /\ Answer(n, TRUE)
            /\ dbQueue' = Tail(dbQueue)
            /\ UNCHANGED cache
  <2>1. Waiting' = Waiting \ {n}
    BY <1>12 DEF Answer, Ended, NoEdit, EditsOK, Waiting
  <2>2. QueueOK'
    BY <1>1, <1>7, <1>12, <2>1, Dequeued
  <2>3. RefreshesOK' /\ RestOK' /\ OneReplay'
    BY <1>7 DEF RefreshesOK, RestOK, OneReplay
  <2>. QED  BY <1>1, <1>2, <1>7, <1>12, <2>2, <2>3, AnswerKeeps
<1>. QED  BY <1>1, <1>2, <1>9, <1>10, <1>11, <1>12 DEF DbCompletes

LEMMA ProviderAnswersKeeps ==
    ASSUME CacheInv, NEW n \in Edits, ProviderAnswers(n)
    PROVE  CacheInv'
<1>. USE DEF CacheInv
<1>1. edits[n].pc = "sent" /\ InFlight(n) /\ n \notin Waiting
  BY DEF ProviderAnswers, InFlight, Waiting
<1>2. PICK e \in EditType : e = edits[n] /\ e.item \in Items /\ e.kind \in Kinds
  BY <1>1, OwnItem
<1>3. PICK i \in Items : i = e.item
  BY <1>2
<1>4. PICK c \in Rows : c = cache[i]
  BY <1>1, <1>2, <1>3, OwnItem
<1>5. server[i] \in States /\ shown[i] \in States
  BY <1>1, <1>2, <1>3, OwnItem
<1>6. i \notin raced =>
        /\ \A m \in Edits : m # n => ~ Of(m, i)
        /\ \A r \in Refreshes : \A x \in Held(r) : x.item # i
        /\ Early(e, n, c, server[i], shown[i], i \notin revived)
  BY <1>1, <1>2, <1>3, <1>4, OwnItem DEF Mid
<1>7. /\ UNCHANGED <<offline, refreshes, mSyncQueue, replays, toggles, raced, revived>>
      /\ RefreshesOK' /\ RestOK' /\ OneReplay'
  BY DEF ProviderAnswers, RefreshesOK, RestOK, OneReplay
<1>8. CASE /\ server' = [server EXCEPT ![i] = Applied(e.kind, n)]
           /\ Issue(n, e, "storing", StoreScript(e.kind), dbQueue)
           /\ UNCHANGED shown
  <2>1. StoreScript(e.kind) \in Seq(Statements) /\ StoreScript(e.kind) # <<>>
    BY <1>2, ScriptTypes
  <2>2. Applied(e.kind, n) \in States
    BY CacheAssumption DEF Applied, States, Versions, Edits
  <2>3. IssueStep(n, i, e, "storing", StoreScript(e.kind), dbQueue, Applied(e.kind, n))
    BY <1>1, <1>2, <1>3, <1>7, <1>8 DEF IssueStep, Behind
  <2>4. IssueFits(n, i, e, "storing", StoreScript(e.kind), Applied(e.kind, n))
    <3>. SUFFICES ASSUME i \notin raced
                  PROVE  Mid(Issued(e, "storing", StoreScript(e.kind), c), n,
                             Written(Head(StoreScript(e.kind)), c, e.flag, n),
                             Applied(e.kind, n), shown[i], i \notin revived)
      BY <1>4, <1>6, <1>7 DEF IssueFits
    <3>. QED  BY <1>1, <1>2, <1>5, <1>6, StoreMid
  <2>. QED  BY <1>2, <1>3, <1>7, <2>1, <2>2, <2>3, <2>4, IssueKeeps
<1>9. CASE /\ Issue(n, e, "storing", OfflineScript(e.kind), dbQueue)
           /\ UNCHANGED <<server, shown>>
  <2>1. OfflineScript(e.kind) \in Seq(Statements) /\ OfflineScript(e.kind) # <<>>
    BY <1>2, ScriptTypes
  <2>2. server' = [server EXCEPT ![i] = server[i]]
    BY <1>9 DEF EditsOK
  <2>3. IssueStep(n, i, e, "storing", OfflineScript(e.kind), dbQueue, server[i])
    BY <1>1, <1>2, <1>3, <1>7, <1>9, <2>2 DEF IssueStep, Behind
  <2>4. IssueFits(n, i, e, "storing", OfflineScript(e.kind), server[i])
    <3>. SUFFICES ASSUME i \notin raced
                  PROVE  Mid(Issued(e, "storing", OfflineScript(e.kind), c), n,
                             Written(Head(OfflineScript(e.kind)), c, e.flag, n),
                             server[i], shown[i], i \notin revived)
      BY <1>4, <1>6, <1>7 DEF IssueFits
    <3>1. /\ Shows(c) = shown[i]
          /\ i \notin revived => Fits(c, server[i])
          /\ e.kind = "add" => (i \notin revived => server[i] = None)
          /\ e.kind \in {"modify", "delete"} => shown[i] # None
      BY <1>1, <1>2, <1>6 DEF Early
    <3>. QED  BY <1>2, <1>5, <3>1, OfflineMid
  <2>. QED  BY <1>2, <1>3, <1>5, <1>7, <2>1, <2>3, <2>4, IssueKeeps
<1>10. CASE Answer(n, FALSE) /\ UNCHANGED <<server, cache, dbQueue>>
  <2>1. Waiting' = Waiting
    BY <1>1, <1>10 DEF Answer, Ended, NoEdit, EditsOK, Waiting
  <2>2. QueueOK'
    BY <1>10, <2>1 DEF QueueOK
  <2>. QED  BY <1>1, <1>7, <1>10, <2>2, AnswerKeeps
<1>. QED  BY <1>2, <1>3, <1>8, <1>9, <1>10 DEF ProviderAnswers

-----------------------------------------------------------------------------
(* Steps of refreshes.                                                       *)

\* What a step of refresh r may make of it: nothing is held that was not, but for
\* what it has just read.
RefreshStep(r, rec) ==
    /\ rec \in RefreshType
    /\ rec.pc = "asked" => rec.current = {}
    /\ refreshes' = [refreshes EXCEPT ![r] = rec]

Empty(rec) == rec.itemQueue = {} /\ rec.current = {}

LEMMA NoRefreshIsEmpty ==
    /\ \A pc \in {"done", "syncing"} :
          /\ [NoRefresh EXCEPT !.pc = pc] \in RefreshType
          /\ [NoRefresh EXCEPT !.pc = pc].pc = pc
          /\ Empty([NoRefresh EXCEPT !.pc = pc])
    /\ \A type \in Types :
          /\ [NoRefresh EXCEPT !.pc = "asked", !.type = type] \in RefreshType
          /\ Empty([NoRefresh EXCEPT !.pc = "asked", !.type = type])
  BY DEF NoRefresh, RefreshType, Empty, Types, Created, Modified, Deleted

\* The refreshes that wait are as many replays as somebody waits for: one or none.
LEMMA SynchronizeSteps ==
    ASSUME RefreshesOK, OneReplay, NEW r \in Refreshes, Synchronize(r)
    PROVE  /\ \E rec : RefreshStep(r, rec) /\ Empty(rec)
           /\ mSyncQueue' \in Seq(Refreshes) /\ replays' \in Nat /\ OneReplay'
<1>1. CASE mSyncQueue # <<>> \/ ~ offline
  <2>1. /\ refreshes' = [refreshes EXCEPT ![r] = [NoRefresh EXCEPT !.pc = "syncing"]]
        /\ mSyncQueue' = Append(mSyncQueue, r)
        /\ replays' = IF mSyncQueue = <<>> THEN replays + 1 ELSE replays
    BY <1>1 DEF Synchronize
  <2>2. Append(mSyncQueue, r) \in Seq(Refreshes) /\ Append(mSyncQueue, r) # <<>>
    BY AppendProperties DEF RefreshesOK
  <2>3. replays' = 1
    BY <2>1 DEF OneReplay
  <2>4. PICK rec \in RefreshType : /\ rec = [NoRefresh EXCEPT !.pc = "syncing"]
                                   /\ rec.pc = "syncing" /\ Empty(rec)
    BY NoRefreshIsEmpty
  <2>5. RefreshStep(r, rec)
    BY <2>1, <2>4 DEF RefreshStep
  <2>6. OneReplay'
    BY <2>1, <2>2, <2>3 DEF OneReplay
  <2>. QED  BY <2>1, <2>2, <2>3, <2>4, <2>5, <2>6
<1>2. CASE ~ (mSyncQueue # <<>> \/ ~ offline)
  <2>1. /\ refreshes' = [refreshes EXCEPT ![r] = [NoRefresh EXCEPT !.pc = "done"]]
        /\ UNCHANGED <<mSyncQueue, replays>>
    BY <1>2 DEF Synchronize
  <2>. QED  BY <2>1, NoRefreshIsEmpty DEF OneReplay, RefreshesOK, RefreshStep, Empty
<1>. QED  BY <1>1, <1>2

LEMMA PlaybackSteps ==
    ASSUME RefreshesOK, OneReplay, NEW r \in Refreshes, NEW type \in Types, Playback(r, type)
    PROVE  /\ \E rec : RefreshStep(r, rec) /\ Empty(rec)
           /\ mSyncQueue' \in Seq(Refreshes) /\ replays' \in Nat /\ OneReplay'
  BY NoRefreshIsEmpty DEF Playback, OneReplay, RefreshesOK, RefreshStep, Empty

\* It takes up one of the rows it has read, or none is left.
LEMMA PopSteps ==
    ASSUME RefreshesOK, OneReplay, NEW r \in Refreshes, PopItemQueue(r)
    PROVE  /\ \E rec : /\ RefreshStep(r, rec)
                       /\ \/ Empty(rec)
                          \/ /\ rec.type = refreshes[r].type
                             /\ rec.itemQueue \cup rec.current \subseteq refreshes[r].itemQueue
           /\ mSyncQueue' \in Seq(Refreshes) /\ replays' \in Nat /\ OneReplay'
<1>1. CASE NextCallback(r)
  <2>1. refreshes[r].type \in Types
    BY DEF RefreshesOK, RefreshType
  <2>2. \/ Playback(r, Modified) \/ Playback(r, Deleted)
        \/ Synchronize(r)
    BY <1>1, <2>1 DEF NextCallback, Types, Created, Modified, Deleted
  <2>. QED  BY <2>2, SynchronizeSteps, PlaybackSteps DEF Types
<1>2. CASE /\ \E x \in refreshes[r].itemQueue :
                 refreshes' = [refreshes EXCEPT ![r] =
                    [refreshes[r] EXCEPT !.pc = "sent", !.itemQueue = @ \ {x}, !.current = {x}]]
           /\ UNCHANGED <<mSyncQueue, replays>>
  <2>1. PICK x \in refreshes[r].itemQueue :
           refreshes' = [refreshes EXCEPT ![r] =
              [refreshes[r] EXCEPT !.pc = "sent", !.itemQueue = @ \ {x}, !.current = {x}]]
    BY <1>2
  <2>2. PICK rec : rec = [refreshes[r] EXCEPT !.pc = "sent", !.itemQueue = @ \ {x}, !.current = {x}]
    OBVIOUS
  <2>3. refreshes[r] \in RefreshType
    BY DEF RefreshesOK
  <2>4. /\ rec \in RefreshType /\ rec.pc = "sent" /\ rec.type = refreshes[r].type
        /\ rec.itemQueue \cup rec.current \subseteq refreshes[r].itemQueue
    BY <2>2, <2>3 DEF RefreshType
  <2>5. RefreshStep(r, rec)
    BY <2>1, <2>2, <2>4 DEF RefreshStep
  <2>. QED  BY <1>2, <2>4, <2>5 DEF OneReplay, RefreshesOK
<1>. QED  BY <1>1, <1>2 DEF PopItemQueue

\* Steps that leave the edits and the rows, and only let go of what was held.
LEMMA ItemsKept ==
    ASSUME UNCHANGED <<server, cache, edits, shown, revived>>,
           \A q \in Refreshes : \A x \in Held(q)' :
              x \in Held(q) /\ refreshes'[q].type = refreshes[q].type
    PROVE  \A j \in Items : ItemOK(j) => ItemOK(j)'
<1>. SUFFICES ASSUME NEW j \in Items, ItemOK(j)  PROVE ItemOK(j)'
  OBVIOUS
<1>1. \A m \in Edits : Of(m, j)' <=> Of(m, j)
  BY DEF Of, InFlight
<1>2. Exact(j)' <=> Exact(j)
  BY DEF Exact
<1>3. \A m, k \in Edits : Of(m, j)' /\ Of(k, j)' => m = k
  BY <1>1 DEF ItemOK
<1>4. \A m \in Edits : Of(m, j)' => \A q \in Refreshes : \A x \in Held(q)' : x.item # j
  BY <1>1 DEF ItemOK
<1>5. \A m \in Edits : Of(m, j)' =>
         Mid(edits'[m], m, cache'[j], server'[j], shown'[j], Exact(j)')
  BY <1>1, <1>2 DEF ItemOK, Exact
<1>6. (\A m \in Edits : ~ Of(m, j)') =>
         Shows(cache'[j]) = shown'[j] /\ (Exact(j)' => Fits(cache'[j], server'[j]))
  BY <1>1, <1>2 DEF ItemOK
<1>7. \A q \in Refreshes : \A x \in Held(q)' :
         x.item = j => HeldOK(refreshes'[q].type, x, cache'[j])
  BY DEF ItemOK
<1>. QED  BY <1>3, <1>4, <1>5, <1>6, <1>7 DEF ItemOK

\* A refresh that reads nothing and plays nothing back disturbs no item.
LEMMA RefreshKeeps ==
    ASSUME CacheInv, NEW r \in Refreshes, NEW rec, RefreshStep(r, rec),
           \/ Empty(rec)
           \/ /\ rec.type = refreshes[r].type
              /\ rec.itemQueue \cup rec.current \subseteq Held(r),
           mSyncQueue' \in Seq(Refreshes), replays' \in Nat, OneReplay',
           offline' \in BOOLEAN, toggles' \in 0..MaxToggles,
           UNCHANGED <<server, cache, dbQueue, edits, shown, raced, revived>>
    PROVE  CacheInv'
<1>. USE DEF CacheInv
<1>1. refreshes' \in [Refreshes -> RefreshType]
  BY DEF RefreshStep, RefreshesOK
<1>2. RefreshesOK'
  BY <1>1 DEF RefreshStep, RefreshesOK
<1>3. EditsOK' /\ RestOK'
  BY DEF EditsOK, InFlight, RestOK
<1>4. QueueOK'
  BY DEF QueueOK, Waiting
<1>5. \A q \in Refreshes : \A x \in Held(q)' :
         x \in Held(q) /\ refreshes'[q].type = refreshes[q].type
  BY DEF RefreshStep, RefreshesOK, Held, Empty
<1>6. \A j \in Items : ItemOK(j) => ItemOK(j)'
  BY <1>5, ItemsKept
<1>. QED  BY <1>2, <1>3, <1>4, <1>6

\* Making one.
LEMMA RefreshBegins ==
    ASSUME RefreshesOK, OneReplay, NEW r \in Refreshes, NEW off \in BOOLEAN, Refresh(r, off)
    PROVE  /\ \E rec : RefreshStep(r, rec) /\ Empty(rec)
           /\ mSyncQueue' \in Seq(Refreshes) /\ replays' \in Nat /\ OneReplay'
<1>1. Synchronize(r) \/ Playback(r, Created)
  BY DEF Refresh
<1>. QED  BY <1>1, SynchronizeSteps, PlaybackSteps DEF Types

LEMMA UserRefreshesKeeps ==
    ASSUME CacheInv, NEW r \in Refreshes, UserRefreshes(r) \/ GoOnline(r)
    PROVE  CacheInv'
<1>1. /\ Refresh(r, offline) \/ Refresh(r, FALSE)
      /\ offline' \in BOOLEAN /\ toggles' \in 0..MaxToggles
      /\ UNCHANGED <<server, cache, dbQueue, edits, shown, raced, revived>>
  BY DEF UserRefreshes, GoOnline, CacheInv, RestOK
<1>2. offline \in BOOLEAN
  BY DEF CacheInv, RestOK
<1>3. /\ \E rec : RefreshStep(r, rec) /\ Empty(rec)
      /\ mSyncQueue' \in Seq(Refreshes) /\ replays' \in Nat /\ OneReplay'
  BY <1>1, <1>2, RefreshBegins DEF CacheInv
<1>. QED  BY <1>1, <1>3, RefreshKeeps

LEMMA GoOfflineKeeps == ASSUME CacheInv, GoOffline  PROVE CacheInv'
<1>. USE DEF CacheInv
<1>1. UNCHANGED <<server, cache, dbQueue, edits, refreshes, mSyncQueue, replays, shown, raced,
                  revived>>
  BY DEF GoOffline
<1>2. EditsOK' /\ QueueOK' /\ RefreshesOK' /\ OneReplay'
  BY <1>1 DEF EditsOK, InFlight, QueueOK, Waiting, RefreshesOK, OneReplay
<1>3. RestOK'
  BY <1>1, CacheAssumption DEF GoOffline, RestOK
<1>4. \A j \in Items : ItemOK(j) => ItemOK(j)'
  BY <1>1, ItemsKept DEF Held
<1>. QED  BY <1>1, <1>2, <1>3, <1>4

LEMMA ReplayEndsKeeps == ASSUME CacheInv, ReplayEnds  PROVE CacheInv'
<1>. USE DEF CacheInv
<1>1. /\ UNCHANGED <<offline, server, cache, dbQueue, edits, toggles, shown, raced, revived>>
      /\ mSyncQueue' = <<>> /\ replays' = 0
  BY DEF ReplayEnds, RefreshesOK, OneReplay
<1>2. PICK rec \in RefreshType : /\ rec = [NoRefresh EXCEPT !.pc = "done"]
                                 /\ rec.pc = "done" /\ Empty(rec)
  BY NoRefreshIsEmpty
<1>3. \A q \in Refreshes : refreshes'[q] = rec \/ refreshes'[q] = refreshes[q]
  BY <1>2 DEF ReplayEnds, RefreshesOK
<1>4. refreshes' \in [Refreshes -> RefreshType]
  BY <1>2 DEF ReplayEnds, RefreshesOK
<1>5. RefreshesOK' /\ OneReplay'
  BY <1>1, <1>2, <1>3, <1>4, EmptySeq DEF RefreshesOK, OneReplay
<1>6. EditsOK' /\ RestOK'
  BY <1>1 DEF EditsOK, InFlight, RestOK
<1>7. QueueOK'
  BY <1>1 DEF QueueOK, Waiting
<1>8. \A q \in Refreshes : \A x \in Held(q)' :
         x \in Held(q) /\ refreshes'[q].type = refreshes[q].type
  BY <1>2, <1>3 DEF Held, Empty
<1>9. \A j \in Items : ItemOK(j) => ItemOK(j)'
  BY <1>1, <1>8, ItemsKept
<1>. QED  BY <1>1, <1>5, <1>6, <1>7, <1>9

\* What is read is true of the rows, and of no item an edit is under way for.
LEMMA PlaybackReadsKeeps ==
    ASSUME CacheInv, NEW r \in Refreshes, PlaybackReads(r)
    PROVE  CacheInv'
<1>. USE DEF CacheInv
<1>1. PICK found \in SUBSET Items :
         /\ found = {i \in Items : cache[i] # Absent /\ cache[i].flag = refreshes[r].type}
         /\ refreshes' = [refreshes EXCEPT ![r].pc = "read",
               ![r].itemQueue = {[item |-> i, ver |-> cache[i].ver] : i \in found}]
         /\ raced' = raced \cup {i \in found : EditedNow(i)}
  BY DEF PlaybackReads
<1>2. /\ UNCHANGED <<offline, server, cache, dbQueue, edits, mSyncQueue, replays, toggles,
                     shown, revived>>
      /\ refreshes[r].current = {} /\ refreshes[r] \in RefreshType
  BY DEF PlaybackReads, RefreshesOK
<1>3. PICK queue : queue = {[item |-> i, ver |-> cache[i].ver] : i \in found}
  OBVIOUS
<1>4. \A x \in queue : /\ x \in ItemVersion /\ x.item \in found /\ x.ver = cache[x.item].ver
                       /\ cache[x.item] # Absent /\ cache[x.item].flag = refreshes[r].type
  <2>. SUFFICES ASSUME NEW i \in found, NEW x, x = [item |-> i, ver |-> cache[i].ver]
                PROVE  /\ x \in ItemVersion /\ x.item \in found /\ x.ver = cache[x.item].ver
                       /\ cache[x.item] # Absent /\ cache[x.item].flag = refreshes[r].type
    BY <1>3
  <2>1. cache[i] # Absent /\ cache[i].flag = refreshes[r].type
    BY <1>1
  <2>2. cache[i].ver \in Versions
    BY <1>1, <2>1 DEF EditsOK, Row
  <2>. QED  BY <2>1, <2>2 DEF ItemVersion
<1>5. PICK rec : rec = [refreshes[r] EXCEPT !.pc = "read", !.itemQueue = queue]
  OBVIOUS
<1>6. /\ rec \in RefreshType /\ rec.pc = "read" /\ rec.type = refreshes[r].type
      /\ rec.itemQueue = queue /\ rec.current = {}
  BY <1>2, <1>4, <1>5 DEF RefreshType
<1>7. refreshes' = [refreshes EXCEPT ![r] = rec]
  BY <1>1, <1>3, <1>5 DEF RefreshesOK
<1>8. RefreshesOK' /\ OneReplay'
  BY <1>2, <1>6, <1>7 DEF RefreshesOK, OneReplay
<1>9. EditsOK' /\ RestOK'
  BY <1>1, <1>2 DEF EditsOK, InFlight, RestOK
<1>10. QueueOK'
  BY <1>2 DEF QueueOK, Waiting
<1>11. \A q \in Refreshes : \A x \in Held(q)' :
          x.item \notin raced' =>
             \/ x \in Held(q) /\ refreshes'[q].type = refreshes[q].type
             \/ /\ HeldOK(refreshes'[q].type, x, cache[x.item])
                /\ \A m \in Edits : ~ Of(m, x.item)
  <2>. SUFFICES ASSUME NEW q \in Refreshes, NEW x \in Held(q)', x.item \notin raced'
                PROVE  \/ x \in Held(q) /\ refreshes'[q].type = refreshes[q].type
                       \/ /\ HeldOK(refreshes'[q].type, x, cache[x.item])
                          /\ \A m \in Edits : ~ Of(m, x.item)
    OBVIOUS
  <2>1. CASE q # r
    BY <1>7, <2>1 DEF RefreshesOK, Held
  <2>2. CASE q = r
    <3>1. x \in queue /\ refreshes'[q].type = refreshes[r].type
      BY <1>6, <1>7, <2>2 DEF RefreshesOK, Held
    <3>2. \A m \in Edits : ~ Of(m, x.item)
      BY <1>1, <1>4, <3>1 DEF EditedNow, Of, EditsOK
    <3>3. HeldOK(refreshes[r].type, x, cache[x.item])
      BY <1>4, <3>1 DEF HeldOK
    <3>. QED  BY <3>1, <3>2, <3>3
  <2>. QED  BY <2>1, <2>2
<1>12. ASSUME NEW j \in Items, j \notin raced'  PROVE ItemOK(j)'
  <2>1. PICK c \in Rows, s \in States :
           /\ c = cache[j] /\ cache' = [cache EXCEPT ![j] = c]
           /\ s = server[j] /\ server' = [server EXCEPT ![j] = s]
    BY <1>2 DEF EditsOK, Rows, States
  <2>2. raced \subseteq raced' /\ refreshes' \in [Refreshes -> RefreshType]
    BY <1>1, <1>8 DEF RefreshesOK
  <2>3. UNCHANGED <<edits, shown, revived>>
    BY <1>2
  <2>4. j \notin raced' => c = cache[j] /\ s = server[j]
    BY <2>1
  <2>. QED  BY <1>11, <1>12, <2>1, <2>2, <2>3, <2>4, PlaybackMoves
<1>. QED  BY <1>8, <1>9, <1>10, <1>12

LEMMA PlaybackStartsKeeps ==
    ASSUME CacheInv, NEW r \in Refreshes, PlaybackStarts(r)
    PROVE  CacheInv'
<1>1. /\ Synchronize(r) \/ PopItemQueue(r)
      /\ UNCHANGED <<offline, server, cache, dbQueue, edits, toggles, shown, raced, revived>>
  BY DEF PlaybackStarts
<1>2. offline' \in BOOLEAN /\ toggles' \in 0..MaxToggles
  BY <1>1 DEF CacheInv, RestOK
<1>3. /\ \E rec : /\ RefreshStep(r, rec)
                  /\ \/ Empty(rec)
                     \/ /\ rec.type = refreshes[r].type
                        /\ rec.itemQueue \cup rec.current \subseteq refreshes[r].itemQueue
      /\ mSyncQueue' \in Seq(Refreshes) /\ replays' \in Nat /\ OneReplay'
  BY <1>1, SynchronizeSteps, PopSteps DEF CacheInv
<1>4. refreshes[r].itemQueue \subseteq Held(r)
  BY DEF Held
<1>. QED  BY <1>1, <1>2, <1>3, <1>4, RefreshKeeps

\* The row that was played back shows what it has shown, fits the server, and
\* agrees with whatever else was read of it.
PlayedRow(type, c) ==
    IF type = Deleted THEN Absent ELSE IF c = Absent THEN c ELSE [c EXCEPT !.flag = NoFlag]

LEMMA PlayedBack ==
    ASSUME NEW type \in Types, NEW x \in ItemVersion, NEW c \in Rows, HeldOK(type, x, c)
    PROVE  /\ PlayedRow(type, c) \in Rows
           /\ Shows(PlayedRow(type, c)) = Shows(c)
           /\ Fits(PlayedRow(type, c), Applied(KindOf(type), x.ver))
           /\ \A t \in Types, y \in ItemVersion : HeldOK(t, y, c) => HeldOK(t, y, PlayedRow(type, c))
<1>1. x.ver \in Versions /\ x.ver # None
  BY CacheAssumption DEF ItemVersion, Versions, None
<1>2. CASE type = Deleted
  <2>1. PlayedRow(type, c) = Absent /\ Applied(KindOf(type), x.ver) = None
    BY <1>2 DEF PlayedRow, Applied, KindOf, Created, Modified, Deleted
  <2>2. c = Absent \/ c.flag = Deleted
    BY <1>2 DEF HeldOK
  <2>3. Absent \in Rows /\ Fits(Absent, None) /\ Shows(Absent) = None /\ Shows(c) = None
    BY <2>2 DEF Absent, Rows, Row, Fits, Shows, None, NoFlag, Created, Modified, Deleted
  <2>4. ASSUME NEW t \in Types, NEW y \in ItemVersion, HeldOK(t, y, c), t # Deleted
        PROVE  FALSE
    <3>1. y.ver \in Versions /\ y.ver # None
      BY CacheAssumption DEF ItemVersion, Versions, None
    <3>. QED  BY <2>2, <2>4, <3>1
              DEF HeldOK, Absent, Types, NoFlag, Created, Modified, Deleted
  <2>. QED  BY <2>1, <2>3, <2>4 DEF HeldOK
<1>3. CASE type # Deleted
  <2>1. c.ver = x.ver /\ c.flag \in {type, NoFlag}
    BY <1>3 DEF HeldOK
  <2>2. c # Absent /\ c.flag # Deleted
    BY <1>1, <1>3, <2>1 DEF Absent, NoFlag, Deleted
  <2>3. PICK w \in Rows : w = PlayedRow(type, c) /\ w.ver = c.ver /\ w.flag = NoFlag
    <3>1. [c EXCEPT !.flag = NoFlag] \in Rows
      BY <1>1, <2>1 DEF Rows, Row
    <3>. QED  BY <1>3, <2>2, <3>1 DEF PlayedRow, Rows, Row
  <2>4. Applied(KindOf(type), x.ver) = x.ver
    BY <1>3 DEF Applied, KindOf, Types, Created, Modified, Deleted
  <2>5. Shows(w) = Shows(c) /\ Fits(w, x.ver)
    BY <2>1, <2>2, <2>3 DEF Shows, Fits, NoFlag, Created, Modified, Deleted
  <2>6. \A t \in Types, y \in ItemVersion : HeldOK(t, y, c) => HeldOK(t, y, w)
    BY <2>2, <2>3 DEF HeldOK
  <2>. QED  BY <2>3, <2>4, <2>5, <2>6
<1>. QED  BY <1>2, <1>3

LEMMA PlaybackGoesOnKeeps ==
    ASSUME CacheInv, NEW r \in Refreshes, PlaybackGoesOn(r)
    PROVE  CacheInv'
<1>. USE DEF CacheInv
<1>1. PICK type \in Types : type = refreshes[r].type
  BY DEF RefreshesOK, RefreshType
<1>2. PICK x \in refreshes[r].current :
         \/ /\ server' = [server EXCEPT ![x.item] = Applied(KindOf(type), x.ver)]
            /\ cache' = [cache EXCEPT ![x.item] = PlayedRow(type, cache[x.item])]
         \/ UNCHANGED <<server, cache>>
  <2>1. KindOf(type) = "delete" <=> type = Deleted
    BY DEF KindOf, Types, Created, Modified, Deleted
  <2>. QED  BY <1>1, <2>1 DEF PlaybackGoesOn, PlayedRow, EditsOK
<1>3. x \in ItemVersion /\ x \in Held(r)
  BY DEF RefreshesOK, RefreshType, Held
<1>4. PICK i \in Items : i = x.item
  BY <1>3 DEF ItemVersion
<1>5. cache[i] \in Rows /\ server[i] \in States
  BY DEF EditsOK, Rows, States
<1>6. /\ PopItemQueue(r)
      /\ UNCHANGED <<offline, dbQueue, edits, toggles, shown, raced, revived>>
  BY DEF PlaybackGoesOn
<1>7. PICK rec : /\ RefreshStep(r, rec)
                 /\ \/ Empty(rec)
                    \/ /\ rec.type = refreshes[r].type
                       /\ rec.itemQueue \cup rec.current \subseteq refreshes[r].itemQueue
  BY <1>6, PopSteps
<1>8. mSyncQueue' \in Seq(Refreshes) /\ replays' \in Nat /\ OneReplay'
  BY <1>6, PopSteps
<1>9. RefreshesOK'
  BY <1>7, <1>8 DEF RefreshStep, RefreshesOK
<1>10. \A q \in Refreshes : \A y \in Held(q)' :
          y \in Held(q) /\ refreshes'[q].type = refreshes[q].type
  BY <1>7 DEF RefreshStep, RefreshesOK, Held, Empty
<1>11. PICK c \in Rows, s \in States :
          /\ cache' = [cache EXCEPT ![i] = c] /\ server' = [server EXCEPT ![i] = s]
          /\ \/ c = PlayedRow(type, cache[i]) /\ s = Applied(KindOf(type), x.ver)
             \/ c = cache[i] /\ s = server[i]
  <2>1. CASE UNCHANGED <<server, cache>>
    BY <1>5, <2>1 DEF EditsOK
  <2>2. CASE /\ server' = [server EXCEPT ![x.item] = Applied(KindOf(type), x.ver)]
             /\ cache' = [cache EXCEPT ![x.item] = PlayedRow(type, cache[x.item])]
    <3>1. Applied(KindOf(type), x.ver) \in States
      BY <1>3 DEF Applied, States, ItemVersion
    <3>2. PlayedRow(type, cache[i]) \in Rows
      BY <1>5 DEF PlayedRow, Rows, Row, Absent, NoFlag
    <3>. QED  BY <1>4, <2>2, <3>1, <3>2
  <2>. QED  BY <1>2, <2>1, <2>2
<1>12. EditsOK'
  <2>1. /\ cache' \in [Items -> Row] /\ server' \in [Items -> Versions \cup {None}]
        /\ \A j \in Items : cache'[j].ver = None => cache'[j] = Absent
    BY <1>11 DEF EditsOK, Rows, States
  <2>. QED  BY <1>6, <2>1 DEF EditsOK, InFlight
<1>13. QueueOK' /\ RestOK'
  BY <1>6 DEF QueueOK, Waiting, RestOK
<1>14. i \notin raced' => \/ c = cache[i] /\ s = server[i]
                          \/ /\ \A m \in Edits : ~ Of(m, i)
                             /\ Shows(c) = Shows(cache[i])
                             /\ Exact(i) => Fits(c, s)
                             /\ \A t \in Types, y \in ItemVersion :
                                   HeldOK(t, y, cache[i]) => HeldOK(t, y, c)
  <2>. SUFFICES ASSUME i \notin raced,
                       c = PlayedRow(type, cache[i]), s = Applied(KindOf(type), x.ver)
                PROVE  /\ \A m \in Edits : ~ Of(m, i)
                       /\ Shows(c) = Shows(cache[i])
                       /\ Exact(i) => Fits(c, s)
                       /\ \A t \in Types, y \in ItemVersion :
                             HeldOK(t, y, cache[i]) => HeldOK(t, y, c)
    BY <1>6, <1>11
  <2>1. ItemOK(i)
    OBVIOUS
  <2>2. HeldOK(type, x, cache[i])
    BY <1>1, <1>3, <1>4, <2>1 DEF ItemOK
  <2>3. \A m \in Edits : ~ Of(m, i)
    BY <1>3, <1>4, <2>1 DEF ItemOK
  <2>. QED  BY <1>3, <1>5, <2>2, <2>3, PlayedBack
<1>15. \A j \in Items \ raced' : ItemOK(j)'
  <2>1. UNCHANGED <<edits, shown, revived>> /\ raced \subseteq raced'
    BY <1>6
  <2>2. refreshes' \in [Refreshes -> RefreshType]
    BY <1>9 DEF RefreshesOK
  <2>. QED  BY <1>10, <1>11, <1>14, <2>1, <2>2, PlaybackMoves
<1>. QED  BY <1>8, <1>9, <1>12, <1>13, <1>15

-----------------------------------------------------------------------------
(* The invariant.                                                            *)

LEMMA CacheInvInit == Init => CacheInv
<1>. SUFFICES ASSUME Init  PROVE CacheInv
  OBVIOUS
<1>. USE DEF Init
<1>1. server \in [Items -> Versions \cup {None}]
  BY CacheAssumption DEF Versions
<1>2. cache \in [Items -> Row] /\ \A i \in Items : cache[i].ver = None => cache[i] = Absent
  BY <1>1 DEF Row, Absent
<1>3. NoEdit \in EditType /\ NoEdit.pc = "new"
  BY EmptySeq DEF NoEdit, EditType, Flags
<1>4. edits \in [Edits -> EditType] /\ \A n \in Edits : edits[n].pc = "new"
  BY <1>3 DEF Edits
<1>5. EditsOK
  BY <1>1, <1>2, <1>4 DEF EditsOK, InFlight
<1>6. QueueOK
  <2>1. Waiting = {}
    BY <1>4 DEF Waiting
  <2>2. dbQueue \in Seq(Edits) /\ DOMAIN dbQueue = {}
    BY EmptySeq, LenProperties
  <2>. QED  BY <2>1, <2>2 DEF QueueOK, Apart, Range
<1>7. NoRefresh \in RefreshType /\ NoRefresh.pc = "new" /\ Empty(NoRefresh)
  BY DEF NoRefresh, RefreshType, Types, Empty
<1>8. /\ refreshes \in [Refreshes -> RefreshType]
      /\ \A r \in Refreshes : refreshes[r].pc = "new" /\ Empty(refreshes[r])
  BY <1>7 DEF Refreshes
<1>9. RefreshesOK /\ OneReplay
  BY <1>8, EmptySeq DEF RefreshesOK, OneReplay
<1>10. RestOK
  BY CacheAssumption DEF RestOK
<1>11. ASSUME NEW i \in Items  PROVE ItemOK(i)
  <2>1. \A n \in Edits : ~ Of(n, i)
    BY <1>4 DEF Of, InFlight
  <2>2. \A r \in Refreshes : Held(r) = {}
    BY <1>8 DEF Held, Empty
  <2>3. Shows(cache[i]) = shown[i] /\ Fits(cache[i], server[i])
    BY DEF Shows, Fits, NoFlag, Created, Modified, Deleted
  <2>. QED  BY <2>1, <2>2, <2>3 DEF ItemOK
<1>. QED  BY <1>5, <1>6, <1>9, <1>10, <1>11 DEF CacheInv

LEMMA CacheInvStep == CacheInv /\ [Next]_vars => CacheInv'
<1>. SUFFICES ASSUME CacheInv, [Next]_vars  PROVE CacheInv'
  OBVIOUS
<1>1. ASSUME NEW n \in Edits, NEW i \in Items, AdoptItem(n, i)  PROVE CacheInv'
  BY <1>1, AdoptItemKeeps
<1>2. ASSUME NEW n \in Edits, NEW i \in Items,
             ChangeItem(n, i, "modify") \/ ChangeItem(n, i, "delete")
      PROVE  CacheInv'
  BY <1>2, ChangeItemKeeps
<1>3. ASSUME NEW n \in Edits, ProviderAnswers(n)  PROVE CacheInv'
  BY <1>3, ProviderAnswersKeeps
<1>4. CASE DbCompletes
  BY <1>4, DbCompletesKeeps
<1>5. CASE GoOffline
  BY <1>5, GoOfflineKeeps
<1>6. ASSUME NEW r \in Refreshes, UserRefreshes(r) \/ GoOnline(r)  PROVE CacheInv'
  BY <1>6, UserRefreshesKeeps
<1>7. ASSUME NEW r \in Refreshes, PlaybackReads(r)  PROVE CacheInv'
  BY <1>7, PlaybackReadsKeeps
<1>8. ASSUME NEW r \in Refreshes, PlaybackStarts(r)  PROVE CacheInv'
  BY <1>8, PlaybackStartsKeeps
<1>9. ASSUME NEW r \in Refreshes, PlaybackGoesOn(r)  PROVE CacheInv'
  BY <1>9, PlaybackGoesOnKeeps
<1>10. CASE ReplayEnds
  BY <1>10, ReplayEndsKeeps
<1>11. CASE UNCHANGED vars
  <2>1. UNCHANGED <<offline, server, cache, dbQueue, edits, refreshes, mSyncQueue, replays,
                    toggles, shown, raced, revived>>
    BY <1>11 DEF vars
  <2>2. EditsOK' /\ QueueOK' /\ RefreshesOK' /\ RestOK' /\ OneReplay'
    BY <2>1 DEF CacheInv, EditsOK, InFlight, QueueOK, Waiting, RefreshesOK, RestOK, OneReplay
  <2>3. \A j \in Items : ItemOK(j) => ItemOK(j)'
    BY <2>1, ItemsKept DEF Held
  <2>. QED  BY <2>1, <2>2, <2>3 DEF CacheInv
<1>. QED  BY <1>1, <1>2, <1>3, <1>4, <1>5, <1>6, <1>7, <1>8, <1>9, <1>10, <1>11 DEF Next

LEMMA CacheInvAlways == Spec => []CacheInv
  BY CacheInvInit, CacheInvStep, PTL DEF Spec

-----------------------------------------------------------------------------
(* The theorems.                                                             *)

\* Every variable keeps its shape, and the edits that wait for a statement of the
\* database are in its queue, each once, whatever completes in between.
THEOREM CacheTypeCorrect == Spec => []TypeOK
<1>1. CacheInv => TypeOK
  BY DEF CacheInv, EditsOK, QueueOK, RefreshesOK, RestOK, Waiting, Apart, Range, TypeOK
<1>. QED  BY <1>1, CacheInvAlways, PTL

\* Of an item nothing has raced for, the journal says exactly what the server
\* lacks: the rows without a flag are what the server holds, those flagged as
\* created are not there, and those flagged as modified or deleted are (adoptItem,
\* modifyItem and deleteItem, playbackOfflineItems).
THEOREM JournalIsExact == Spec => []JournalExact
<1>1. CacheInv => JournalExact
  <2>. SUFFICES ASSUME CacheInv, NEW i \in Items \ (raced \cup revived), Quiet(i)
                PROVE  CASE cache[i].flag = NoFlag -> cache[i].ver = server[i]
                         [] cache[i].flag = Created -> server[i] = None
                         [] OTHER -> server[i] # None
    BY DEF JournalExact
  <2>1. \A n \in Edits : ~ Of(n, i)
    BY DEF Quiet, EditedNow, Of, CacheInv, EditsOK
  <2>2. Fits(cache[i], server[i])
    BY <2>1 DEF CacheInv, ItemOK, Exact
  <2>3. cache[i].flag \in Flags
    BY DEF CacheInv, EditsOK, Row, Flags
  <2>. QED  BY <2>2, <2>3 DEF Fits, Flags, NoFlag, Created, Modified, Deleted
<1>. QED  BY <1>1, CacheInvAlways, PTL

\* What the calendar shows of an item nothing has raced for is what the last edit
\* that was reported done has left, however often it was played back.
THEOREM LastEditIsShown == Spec => []ShowsLastEdit
<1>1. CacheInv => ShowsLastEdit
  <2>. SUFFICES ASSUME CacheInv, NEW i \in Items \ raced, ~ EditedNow(i)
                PROVE  Visible(i) = shown[i]
    BY DEF ShowsLastEdit
  <2>1. \A n \in Edits : ~ Of(n, i)
    BY DEF EditedNow, Of, CacheInv, EditsOK
  <2>. QED  BY <2>1 DEF CacheInv, ItemOK, Shows, Visible
<1>. QED  BY <1>1, CacheInvAlways, PTL

\* However many refreshes find a sync in action, one replayChangesOn is under way
\* while somebody waits for it, and none otherwise (synchronize).
THEOREM OneReplayAtATime == Spec => []OneReplay
<1>1. CacheInv => OneReplay
  BY DEF CacheInv
<1>. QED  BY <1>1, CacheInvAlways, PTL
=============================================================================
