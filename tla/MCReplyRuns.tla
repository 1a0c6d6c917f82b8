---------------------------- MODULE MCReplyRuns ----------------------------
(* One session, a few messages and one recovery, for TLC. *)
EXTENDS ReplyRuns
=============================================================================
