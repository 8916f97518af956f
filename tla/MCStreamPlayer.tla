--------------------------- MODULE MCStreamPlayer ---------------------------
(* Small instances of StreamPlayer.                                          *)
EXTENDS StreamPlayer

=============================================================================
