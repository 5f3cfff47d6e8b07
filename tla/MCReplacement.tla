---------------------------- MODULE MCReplacement ----------------------------
(* The replacement of one ad by the workers Replacement.cfg names; each cfg *)
(* gives the constants their values.                                        *)
EXTENDS Replacement

=============================================================================
