---------------------------- MODULE MCSlackOutbox ----------------------------
(* The outbox of one thread and one campaign, as the cfgs bound it.         *)
EXTENDS SlackOutbox

=============================================================================
