------------------------------ MODULE MsgKeySet ------------------------------
(***************************************************************************)
(* The run-length encoded sets of article numbers in which news keeps what *)
(* has been read: mailnews/base/util/nsMsgKeySet.cpp.                      *)
(*                                                                         *)
(* m_data holds words: a literal n stands for itself, a negative word -l   *)
(* and the word n behind it for n..n+l.  A chunk is one or the other.      *)
(***************************************************************************)
EXTENDS Integers, FiniteSets, FiniteSetsExt, Sequences, SequencesExt

CONSTANTS Largest, \* bound: the numbers are 0..Largest
          Lines    \* the lines of newsrc files: sequences of <<from, to>>

\* Lines go up, but neighbours need not be merged, as in "1,2, 3, 4".  Nothing is
\* before an article 1: a line that Output wrote has no 0.
ASSUME KeySetAssumption ==
    /\ Largest \in Nat
    /\ \A line \in Lines :
         /\ line \in Seq((0..Largest) \X (0..Largest))
         /\ \A i \in DOMAIN line : line[i][1] <= line[i][2]
         /\ \A i, j \in DOMAIN line : i < j => line[i][2] < line[j][1]
         /\ \A i \in DOMAIN line : line[i][1] = 1 => i = 1

VARIABLES m_data,               \* the words, m_length of them
          m_cached_value,       \* the last number IsMember was asked for, or -1
          m_cached_value_index, \* the words in front of where that search ended
          reply                 \* what the last call returned

vars == <<m_data, m_cached_value, m_cached_value_index, reply>>

Numbers == 0..Largest

-----------------------------------------------------------------------------
(* Words and chunks.                                                       *)

\* A negative word is a length, and the next word belongs to it.
Starts(data) == {i \in DOMAIN data : i = 1 \/ data[i - 1] >= 0}

From(data, i) == IF data[i] < 0 THEN data[i + 1] ELSE data[i]
To(data, i) == IF data[i] < 0 THEN data[i + 1] - data[i] ELSE data[i]
Size(data, i) == IF data[i] < 0 THEN 2 ELSE 1

\* The word with which the chunk that ends with word l starts.
StartOf(data, l) == IF l > 1 /\ data[l - 1] < 0 THEN l - 1 ELSE l

\* msg_emit_range
Emit(from, to) == IF from = to THEN <<from>> ELSE <<-(to - from), from>>

\* out are the words written before the chunk that ends with word l is read: if it
\* is the neighbour of their last chunk it extends that one.
Merge(data, l, out) ==
    LET i == StartOf(data, l)
        k == StartOf(out, Len(out))
    IN  IF data[l] < 0 THEN out
        ELSE IF out # <<>> /\ To(out, k) + 1 = From(data, i)
          THEN SubSeq(out, 1, k - 1) \o Emit(From(out, k), To(data, i))
          ELSE out \o Emit(From(data, i), To(data, i))

Merged(data) == LET merged[l \in 0..Len(data)] ==
                      IF l = 0 THEN <<>> ELSE Merge(data, l, merged[l - 1])
                IN  merged[Len(data)]

\* Two numbers are two literals, not a range.
Unpaired(data) == [i \in DOMAIN data |->
                     IF data[i] = -1 THEN data[i + 1]
                     ELSE IF i > 1 /\ data[i - 1] = -1 THEN data[i] + 1
                     ELSE data[i]]

Optimize(data) == Unpaired(Merged(data))

Holds(data, i, n) == From(data, i) <= n /\ n <= To(data, i)

\* The first chunk from word i on that does not end before n, or the end.
Search(data, i, n) ==
    Min({j \in Starts(data) : j >= i /\ To(data, j) >= n} \cup {Max({i, Len(data) + 1})})

-----------------------------------------------------------------------------
(* Operations.  Add, Remove and AddRange reset the cache, SetLastMember    *)
(* does not.                                                               *)

\* Add, Remove and AddRange return whether they have changed anything.
Changed(call, is) == [call |-> call, of |-> -1, is |-> is]
NoReply == Changed("none", -1)

Forget == m_cached_value' = -1 /\ UNCHANGED m_cached_value_index

Add(n) ==
    /\ IF \E i \in Starts(m_data) : Holds(m_data, i, n)
         THEN reply' = Changed("Add", 0) /\ UNCHANGED m_data
         ELSE /\ reply' = Changed("Add", 1)
              /\ m_data' = Optimize(InsertAt(m_data, Search(m_data, 1, n), n))
    /\ Forget

\* What is left of a range: the cases of Remove.
Without(from, to, n) ==
    CASE to = from + 1 -> <<IF n = from THEN to ELSE from>>
      [] to = from + 2 -> <<IF n = from THEN from + 1 ELSE from,
                            IF n = to THEN to - 1 ELSE to>>
      [] to > from + 2 /\ n = from -> <<from - to + 1, from + 1>>
      [] to > from + 2 /\ n = to -> <<from - to + 1, from>>
      [] OTHER -> Emit(from, n - 1) \o Emit(n + 1, to)

RemoveNumber(n) ==
    /\ IF \E i \in Starts(m_data) : Holds(m_data, i, n)
         THEN LET i == CHOOSE j \in Starts(m_data) : Holds(m_data, j, n)
                  left == IF m_data[i] < 0 THEN Without(From(m_data, i), To(m_data, i), n)
                                           ELSE <<>>
              IN  /\ reply' = Changed("Remove", 1)
                  /\ m_data' = Optimize(SubSeq(m_data, 1, i - 1) \o left
                                  \o SubSeq(m_data, i + Size(m_data, i), Len(m_data)))
         ELSE reply' = Changed("Remove", 0) /\ UNCHANGED m_data
    /\ Forget

\* fault: the end of the new range is compared with the wrong end of the chunk
ApartEarly(data, i, j, end) ==
    /\ To(data, j) > end + 1
    /\ j > i => From(data, j) > To(data, StartOf(data, j - 1)) + 1

\* Chunk j neither overlaps nor touches the numbers up to end, nor the chunks from i
\* on that they have been joined with.
Apart(data, i, j, end) ==
    /\ From(data, j) > end + 1
    /\ j > i => From(data, j) > To(data, StartOf(data, j - 1)) + 1

\* The new range takes in the chunks from word i up to word j, which it overlaps or
\* touches.  Unlike Add it does not call Optimize.
AddRange(start, end) ==
    /\ start < end
    /\ IF \E i \in Starts(m_data) : Holds(m_data, i, start) /\ Holds(m_data, i, end)
         THEN reply' = Changed("AddRange", 0) /\ UNCHANGED m_data
         ELSE LET i == Search(m_data, 1, start - 1)
                  j == Min({k \in Starts(m_data) : k >= i /\ Apart(m_data, i, k, end)}
                           \cup {Len(m_data) + 1})
                  from == IF j > i THEN Min({start, From(m_data, i)}) ELSE start
                  to == IF j > i THEN Max({end, To(m_data, StartOf(m_data, j - 1))}) ELSE end
              IN  /\ reply' = Changed("AddRange", 1)
                  /\ m_data' = SubSeq(m_data, 1, i - 1) \o Emit(from, to)
                                  \o SubSeq(m_data, j, Len(m_data))
    /\ Forget

\* fault: the search goes on from the last answer for smaller numbers too
ResumeAlways(n) == IF m_cached_value > 0 THEN m_cached_value_index + 1 ELSE 1

Resume(n) == IF m_cached_value > 0 /\ m_cached_value < n THEN m_cached_value_index + 1
                                                         ELSE 1

IsMember(n) ==
    LET i == Search(m_data, Resume(n), n)
    IN  /\ reply' = [call |-> "IsMember", of |-> n, is |->
                     IF i \in DOMAIN m_data /\ Holds(m_data, i, n) THEN 1 ELSE 0]
        /\ m_cached_value' = n
        /\ m_cached_value_index' = i - 1
        /\ UNCHANGED m_data

\* The last number, but for a range the one before it.
GetLastMember(data) ==
    LET l == Len(data)
    IN  IF l = 0 THEN 0
        ELSE IF l > 1 /\ data[l - 1] < 0 THEN data[l] - data[l - 1] - 1
        ELSE data[l]

\* Chunks that start beyond the mark are dropped from the end, but never the only
\* word; of a range that goes on beyond it the rest is cut off, but for one number.
Trimmed(data, mark) ==
    LET l == Max({0} \cup {k \in DOMAIN data : data[k] >= 0 /\ (k = 1 \/ data[k] <= mark)})
    IN  IF l > 1 /\ data[l - 1] < 0 /\ data[l] - data[l - 1] - 1 > mark
          THEN SubSeq(data, 1, l - 2) \o Emit(data[l], mark)
          ELSE SubSeq(data, 1, l)

SetLastMember(mark) ==
    /\ m_data' = IF mark < GetLastMember(m_data) THEN Trimmed(m_data, mark) ELSE m_data
    /\ reply' = [call |-> "SetLastMember", of |-> mark, is |-> -1]
    /\ UNCHANGED <<m_cached_value, m_cached_value_index>>

-----------------------------------------------------------------------------
(* Saving and loading.                                                     *)

\* "if the newsrc file specifies a range 1-x as being read, we internally
\* pretend that article 0 is read as well".
Parsed(line) ==
    LET words[k \in 0..Len(line)] ==
          IF k = 0 THEN <<>>
          ELSE words[k - 1] \o Emit(IF line[k][1] = 1 THEN 0 ELSE line[k][1], line[k][2])
    IN  words[Len(line)]

\* The chunk that ends with word l is written without 0 and what was written before.
Written(data, l, line) ==
    LET i == StartOf(data, l)
        from == Max({1, From(data, i), IF line = <<>> THEN 0 ELSE Last(line)[2] + 1})
    IN  IF data[l] < 0 \/ from > To(data, i) THEN line
        ELSE Append(line, <<from, To(data, i)>>)

Output(data) == LET line[l \in 0..Len(data)] ==
                      IF l = 0 THEN <<>> ELSE Written(data, l, line[l - 1])
                IN  line[Len(data)]

Reload ==
    /\ m_data' = Parsed(Output(m_data))
    /\ m_cached_value' = -1
    /\ m_cached_value_index' = 0
    /\ reply' = NoReply

-----------------------------------------------------------------------------
(* Queries.                                                                *)

\* The chunk that ends with word l is subtracted, as far as it is in the range.
Uncounted(data, l, start, end, count) ==
    LET i == StartOf(data, l)
        from == Max({From(data, i), start})
        to == Min({To(data, i), end})
    IN  IF data[l] < 0 \/ to < from THEN count ELSE count - (to - from + 1)

CountMissingInRange(data, start, end) ==
    LET count[l \in 0..Len(data)] ==
          IF l = 0 THEN end - start + 1 ELSE Uncounted(data, l, start, end, count[l - 1])
    IN  count[Len(data)]

\* The numbers in front of the chunk at word i that are in no chunk; those behind
\* the last chunk are endless.
Hole(data, i) == <<IF i = 1 THEN 1 ELSE To(data, StartOf(data, i - 1)) + 1,
                   IF i > Len(data) THEN Largest + 1 ELSE From(data, i) - 1>>

\* fault: a hole of which min is the last number is gone by
MissingInShort(data, min, max) ==
    {i \in Starts(data) \cup {Len(data) + 1} :
       LET hole == Hole(data, i)
       IN  hole[1] <= hole[2] /\ hole[2] > min /\ hole[1] <= max}

\* The holes that are not empty and meet the range.
MissingIn(data, min, max) ==
    {i \in Starts(data) \cup {Len(data) + 1} :
       LET hole == Hole(data, i)
       IN  hole[1] <= hole[2] /\ hole[2] >= min /\ hole[1] <= max}

Clipped(hole, min, max) == <<Max({hole[1], min}), Min({hole[2], max})>>

\* When there is none the first one answers with what lies behind the last chunk.
FirstMissingRange(data, min, max) ==
    LET missing == MissingIn(data, min, max)
    IN  IF missing # {} THEN Clipped(Hole(data, Min(missing)), min, max)
        ELSE IF \E i \in Starts(data) : Hole(data, i)[1] > max THEN <<0, 0>>
        ELSE Clipped(Hole(data, Len(data) + 1), min, max)

LastMissingRange(data, min, max) ==
    LET missing == MissingIn(data, min, max)
    IN  IF missing # {} THEN Clipped(Hole(data, Max(missing)), min, max) ELSE <<0, 0>>

Init ==
    /\ \E line \in Lines : m_data = Parsed(line)
    /\ m_cached_value = -1
    /\ m_cached_value_index = 0
    /\ reply = NoReply

Next ==
    \/ \E n \in Numbers : Add(n)
    \/ \E n \in Numbers : RemoveNumber(n)
    \/ \E start, end \in Numbers : AddRange(start, end)
    \/ \E n \in Numbers : IsMember(n)
    \/ \E mark \in Numbers : SetLastMember(mark)
    \/ Reload

Spec == Init /\ [][Next]_vars
-----------------------------------------------------------------------------
(* Properties.                                                             *)

Members(data) == UNION {From(data, i)..To(data, i) : i \in Starts(data)}

\* The words are what the code takes them for, through any sequence of calls:
\* chunks go up and do not overlap, 0 is no length and no literal but the first
\* word, and a search that is resumed starts at a chunk, or behind the last, with
\* only smaller numbers in front of it.
WellFormed ==
    /\ m_data \in Seq(-Largest..Largest)
    /\ \A i \in Starts(m_data) : /\ i + Size(m_data, i) - 1 <= Len(m_data)
                                 /\ 0 <= From(m_data, i) /\ To(m_data, i) <= Largest
    /\ \A i, j \in Starts(m_data) : i < j => To(m_data, i) < From(m_data, j)
    /\ m_cached_value \in -1..Largest
    /\ m_cached_value > 0 => \/ m_cached_value_index + 1 \in Starts(m_data)
                             \/ m_cached_value_index >= Len(m_data)
    /\ m_cached_value > 0 => \A i \in Starts(m_data) :
                               i <= m_cached_value_index => To(m_data, i) < m_cached_value
    /\ reply.is \in {-1, 0, 1}

\* Each operation does to the members, and answers, what it should: what is
\* merged, split, cut off and resumed in the words never shows.
Abstract == INSTANCE NumberSet WITH keys <- Members(m_data)
IsANumberSet == Abstract!Spec

\* A maximal run of numbers of the set.
IsRun(r, set) == /\ r[1] <= r[2] /\ r[1]..r[2] \subseteq set
                 /\ r[1] - 1 \notin set /\ r[2] + 1 \notin set

\* Unread articles are counted, and asked for, from the gaps of the set: the
\* count and the first and the last gap within any range are right.
QueriesRight ==
    \A min, max \in 1..Largest : min <= max =>
      LET missing == min..max \ Members(m_data)
          first == FirstMissingRange(m_data, min, max)
          last == LastMissingRange(m_data, min, max)
      IN  /\ CountMissingInRange(m_data, min, max) = Cardinality(missing)
          /\ IF missing = {} THEN last = <<0, 0>> /\ ~ IsRun(first, missing)
             ELSE /\ IsRun(first, missing) /\ first[1] = Min(missing)
                  /\ IsRun(last, missing) /\ last[2] = Max(missing)
=============================================================================
