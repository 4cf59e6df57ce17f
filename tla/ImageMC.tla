-------------------------------- MODULE ImageMC -------------------------------
(* Lengths, keys and garbage for model checking Image.                       *)
EXTENDS Image

\* Words above 24 bits stand for lengths behind the end of any file.
MCValue(w) == MapThenSumSet(LAMBDA i : 2^i, w)
MCLengths == {WordOf(n) : n \in 1 .. 36}

\* Keys that the rotations move across both ends of the word.
MCKeys == {{0, 5, 31}, {7, 8, 26, 27, 28}}

\* Nothing, the length of some instructions, one with wild upper bits.
MCGarbage == {{}, WordOf(15), {2, 30}}
=============================================================================
