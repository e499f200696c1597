--------------------------- MODULE MCStreamBuffer ---------------------------
(* An instance of StreamBuffer for TLC.                                    *)
EXTENDS StreamBuffer
=============================================================================
