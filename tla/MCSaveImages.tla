---------------------------- MODULE MCSaveImages ----------------------------
(* One frame of two or three pictures, for a queue of one.                  *)
EXTENDS SaveImages

MCFrames == {1}
MCPictures == MCFrames \X Kinds
MCPictureOf == [f \in MCFrames |-> [k \in Kinds |-> <<f, k>>]]
=============================================================================
