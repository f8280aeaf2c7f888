--------------------------- MODULE MCEncryptMeta ---------------------------
(***************************************************************************)
(* Instance of EncryptMeta: encryption b1 is of plaintext b, others of a.  *)
(***************************************************************************)
EXTENDS EncryptMeta

CONSTANTS a, b, a1, b1

MCPlain == [e \in Encs |-> IF e = b1 THEN b ELSE a]
=============================================================================
