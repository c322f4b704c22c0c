------------------------------- MODULE MCBitmap -------------------------------
(* An instance of Bitmap with two builds: longs as wide as the             *)
(* instructions, and twice as wide.                                        *)
EXTENDS Bitmap

MCWidths == {2, 4}
===============================================================================
