-------------------------- MODULE MCDraftRevisions --------------------------
(* One draft thread, as Revision.cfg bounds it.  Replies are ordered, so     *)
(* they are not symmetric; liveness rules out the symmetry of workers.       *)
EXTENDS DraftRevisions

=============================================================================
