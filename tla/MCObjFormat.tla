---------------------------- MODULE MCObjFormat -----------------------------
(* A segment of four cells' worth of bytes, laid out as every mix of cells *)
(* and pads of one to three cells' worth, with an 8-bit size_t.            *)
EXTENDS ObjFormat
=============================================================================
