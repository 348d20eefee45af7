---------------------------- MODULE MCBiffManager ----------------------------
(* Values of the constants of BiffManager for TLC. *)
EXTENDS BiffManager

CONSTANTS pop1, pop2, imap, local, remote

\* Two accounts deliver to Local Folders, one has folders of its own.
SharedTarget == [s \in Servers |-> IF s = imap THEN remote ELSE local]
=============================================================================
