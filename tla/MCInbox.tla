------------------------------- MODULE MCInbox -------------------------------
(* Inbox on two interchangeable entries. *)
EXTENDS Inbox, TLC

EntrySymmetry == Permutations(Slug)
=============================================================================
