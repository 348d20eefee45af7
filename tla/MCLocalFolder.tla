---------------------------- MODULE MCLocalFolder ----------------------------
(* Values of the constants of LocalFolder for TLC. *)
EXTENDS LocalFolder

CONSTANTS A, B, C, D, E, F, none

Copies(src) == [type |-> "messages", src |-> src, dst |-> D, name |-> none, from |-> <<src>>]
Saves(src, from) == [type |-> "file", src |-> src, dst |-> D, name |-> none, from |-> from]

\* A and C are local folders, B an IMAP folder with its messages offline; E is
\* a sent message to file, F a draft that replaces an older one.
Jobs == A :> [source |-> "mailbox", move |-> TRUE, total |-> 2]
     @@ B :> [source |-> "offline", move |-> FALSE, total |-> 2]
     @@ C :> [source |-> "mailbox", move |-> FALSE, total |-> 3]
     @@ E :> [source |-> "file", move |-> FALSE, total |-> 0]
     @@ F :> [source |-> "file", move |-> TRUE, total |-> 1]

LocalOffers == {Copies(A), Copies(B), Saves(E, <<>>), Saves(F, <<none>>)}
LocalFaults == {"space", "locked", "open", "start", "read", "write", "delete", "stop"}

DraftOffers == {Copies(A), Copies(B), Copies(C), Saves(F, <<none>>)}
DraftFaults == {"start"}
StopOffers == {Copies(C)}
StopFaults == {"stop"}

Nobody == {}
Anywhere == {D}
NoNames == [n \in Names |-> {n}]
=============================================================================
