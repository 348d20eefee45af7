---------------------------- MODULE MCCopyService ----------------------------
(* Values of the constants of CopyService for TLC. *)
EXTENDS CopyService

CONSTANTS A, B, C, D, F, a, b, none

msgs(src, dst) == [type |-> "messages", src |-> src, dst |-> dst, name |-> none,
                   from |-> <<src>>]
file(src, dst, from) == [type |-> "file", src |-> src, dst |-> dst, name |-> none,
                         from |-> from]
folder(src, dst, name) == [type |-> "folder", src |-> src, dst |-> dst,
                           name |-> name, from |-> <<src>>]
gathered(src, dst, from) == [type |-> "messages", src |-> src, dst |-> dst,
                             name |-> none, from |-> from]

SameNames == [n \in Names |-> {n}]

\* Messages, a file and a folder, to two destinations.
QueueOffers == {msgs(A, C), msgs(B, C), file(F, C, <<>>), msgs(A, D), folder(B, D, b)}
\* Listeners copy on to C; D may be done before it returns.
ToC == {o \in QueueOffers : o.dst = C}
OnlyD == {D}

\* Requests of every kind, one of which has messages of two folders.
FreeOffers == {folder(A, D, a), gathered(A, D, <<A, B>>), file(F, D, <<>>), msgs(A, C)}
AnyOfThem == FreeOffers
Everywhere == {C, D}

\* Two destinations, two sources; listeners and folders as they please.
NestedOffers == {msgs(A, C), msgs(B, C), msgs(A, D)}
AnyNested == NestedOffers

\* What a folder named n is called in a destination that already has an n.
Renamed == [n \in Names |-> {n, <<n>>}]
=============================================================================
