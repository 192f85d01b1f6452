------------------------------ MODULE MCBrowse ------------------------------
(* Small instances of Browse.  Ids are ordered, so they are numbers and    *)
(* there is no symmetry among them.                                        *)
EXTENDS Browse
=============================================================================
