------------------------------- MODULE MCPages -------------------------------
(* A small instance of Pages for TLC. *)
EXTENDS PagesProperties

MCWidths == {1, 2}

=============================================================================
