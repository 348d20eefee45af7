------------------------------- MODULE CopyLine -------------------------------
(***************************************************************************)
(* What the message copy service promises its clients: requests stand in   *)
(* one line; the copy of a request begins only when no older request for   *)
(* its destination is left in the line; a request leaves the line when its *)
(* listener is told the outcome, once, and then never begins again.        *)
(*                                                                         *)
(* No queue scan, no flag, no call stack: CopyService implements this (see *)
(* CopyService!Line).                                                      *)
(***************************************************************************)
EXTENDS Naturals, Sequences, SequencesExt

CONSTANTS
    Ids,     \* the requests, numbered in the order they are made
    Dsts,    \* the destinations
    Outcomes \* what a listener may be told

VARIABLES
    line,    \* the requests not answered yet, oldest first
    begun,   \* the requests whose copy has begun
    told     \* what each listener has been told

lineVars == <<line, begun, told>>

Init == /\ line = <<>>
        /\ begun = {}
        /\ told = [id \in Ids |-> "none"]

\* A request is made.
Join(id, d) ==
    /\ id \notin begun
    /\ told[id] = "none"
    /\ \A k \in DOMAIN line : line[k].id < id
    /\ line' = Append(line, [id |-> id, dst |-> d])
    /\ UNCHANGED <<begun, told>>

\* The k-th in the line is the oldest request for its destination.
Foremost(k) == \A j \in 1..(k - 1) : line[j].dst # line[k].dst

Begin(k) ==
    /\ Foremost(k)
    /\ begun' = begun \cup {line[k].id}
    /\ UNCHANGED <<line, told>>

Tell(k, rv) ==
    /\ line' = RemoveAt(line, k)
    /\ told' = [told EXCEPT ![line[k].id] = rv]
    /\ UNCHANGED begun

\* What is told is about a copy that began.
Answer(k, rv) == line[k].id \in begun /\ Tell(k, rv)

Next == \/ \E id \in Ids, d \in Dsts : Join(id, d)
        \/ \E k \in DOMAIN line : Begin(k) \/ \E rv \in Outcomes : Tell(k, rv)

\* The promise to any client.
Spec == Init /\ [][Next]_lineVars

\* The promise to clients who never ask for the same copy twice at a time:
\* only copies that began are answered, and no destination stands still.
Serve(d) == \E k \in DOMAIN line : /\ line[k].dst = d
                                   /\ Begin(k) \/ \E rv \in Outcomes : Answer(k, rv)

ServedNext == \/ \E id \in Ids, d \in Dsts : Join(id, d)
              \/ \E d \in Dsts : Serve(d)

ServedSpec ==
    /\ Init /\ [][ServedNext]_lineVars
    /\ \A d \in Dsts : WF_lineVars(Serve(d))
===============================================================================
