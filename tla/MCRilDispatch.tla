---------------------------- MODULE MCRilDispatch ----------------------------
(* Names for the strings of an array, for the model checker. *)
EXTENDS RilDispatch

MCItem == <<"s1", "s2", "s3">>
=============================================================================
