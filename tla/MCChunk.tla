------------------------------- MODULE MCChunk -------------------------------
(* Lines that come back, and lines on both sides of the byte boundary.     *)
EXTENDS Chunk
MCLines == {1, 2, 255, 256, 257}
=============================================================================
