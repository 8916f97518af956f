---------------------------- MODULE MCCardDetect ----------------------------
(* Small instances of CardDetect.                                            *)
EXTENDS CardDetect

=============================================================================
