--------------------------- MODULE MCReplyReview ---------------------------
(***************************************************************************)
(* Instances of ReplyReview: drafts and requests are interchangeable.      *)
(***************************************************************************)
EXTENDS ReplyReview, TLC

RequestSymmetry == Permutations(Requests) \cup Permutations(Drafts)
=============================================================================
