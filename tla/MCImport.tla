----------------------------- MODULE MCImport -----------------------------
(* An instance of Import: a photo of two files, and a video that is larger
   than the whole buffer. *)
EXTENDS Import

MCSize == [jpg |-> 1, raf |-> 1, mov |-> 3]
MCShotOf == [jpg |-> "photo", raf |-> "photo", mov |-> "video"]
=============================================================================
