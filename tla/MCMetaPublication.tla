-------------------------- MODULE MCMetaPublication --------------------------
(* One approval and two operators at a terminal on small instances.         *)
EXTENDS MetaPublication

=============================================================================
