--------------------------- MODULE MCLibrarySync ----------------------------
(* LibrarySync for TLC. *)
EXTENDS LibrarySync

CONSTANTS a, b, i1, i2, i3

=============================================================================
