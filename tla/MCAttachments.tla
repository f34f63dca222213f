--------------------------- MODULE MCAttachments ----------------------------
(***************************************************************************)
(* Attachments on a small instance.                                        *)
(***************************************************************************)
EXTENDS Attachments, TLC

Ids == Permutations(Users) \cup Permutations(Tasks) \cup Permutations(Files)
         \cup Permutations(Requests)
=============================================================================
