---------------------------- MODULE MCStatusCopy ----------------------------
(* Small instances of StatusCopy: a submitted record is approved, rejected   *)
(* back to a draft, or cancelled.                                            *)
EXTENDS StatusCopy

CONSTANTS p1, p2

DraftPendingApproved ==
  {<<"draft", "pending">>, <<"pending", "draft">>, <<"pending", "approved">>}
=============================================================================
