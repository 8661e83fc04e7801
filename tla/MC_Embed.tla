------------------------------ MODULE MC_Embed ------------------------------
(* embed.py on inputs of every length up to two full literal lines and    *)
(* one byte more, so that a line is closed by the loop (18, 36 bytes),    *)
(* or left open (17, 19, 37).  The build embeds non-empty files.          *)
EXTENDS Embed

MCBytes == {10}
MCMaxData == 2 * Chunk + 1
=============================================================================
