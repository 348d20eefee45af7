------------------------------ MODULE NumberSet ------------------------------
(***************************************************************************)
(* What mailnews/base/util/nsMsgKeySet.h promises of a set of article      *)
(* numbers, whatever it is encoded in: its operations and their answers.   *)
(***************************************************************************)
EXTENDS Integers

CONSTANT Largest \* the numbers are 0..Largest

VARIABLES keys, \* the members
          reply \* what the last call returned

Numbers == 0..Largest
Answer(call, of, yes) == [call |-> call, of |-> of, is |-> IF yes THEN 1 ELSE 0]
NoReply == [call |-> "none", of |-> -1, is |-> -1]

Init == keys \in SUBSET Numbers /\ reply = NoReply

Add(n) == keys' = keys \cup {n} /\ reply' = Answer("Add", -1, n \notin keys)

Remove(n) == keys' = keys \ {n} /\ reply' = Answer("Remove", -1, n \in keys)

\* 0 says that nothing has changed; 1 may be said too often.
AddRange(first, last) == /\ keys' = keys \cup first..last
                         /\ \E more \in BOOLEAN :
                               /\ keys' # keys => more
                               /\ reply' = Answer("AddRange", -1, more)

IsMember(n) == reply' = Answer("IsMember", n, n \in keys) /\ UNCHANGED keys

\* Nothing up to the mark is lost; at most one number beyond it stays.
SetLastMember(mark) == /\ {k \in keys : k <= mark} \subseteq keys'
                       /\ keys' \subseteq keys
                       /\ \A k, l \in keys' : k > mark /\ l > mark => k = l
                       /\ reply' = [call |-> "SetLastMember", of |-> mark, is |-> -1]

\* Saved and loaded: a line that begins with 1 stands for 0 too.
Reload == /\ keys' = (keys \ {0}) \cup {n \in {0} : 1 \in keys}
          /\ reply' = NoReply

Next == \/ \E n \in Numbers : Add(n) \/ Remove(n) \/ IsMember(n) \/ SetLastMember(n)
        \/ \E first, last \in Numbers : first < last /\ AddRange(first, last)
        \/ Reload

Spec == Init /\ [][Next]_<<keys, reply>>
=============================================================================
