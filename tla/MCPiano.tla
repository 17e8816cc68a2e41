------------------------------ MODULE MCPiano ------------------------------
(***************************************************************************)
(* Two or three keys, and an uninitialised local that is 0 (the byte of a  *)
(* cleared context), the byte of a key or a word that no byte equals.      *)
(***************************************************************************)
EXTENDS PianoProperties

MCKeys    == {60, 62}
MCKeys3   == {60, 62, 64}
MCGarbage == {0, KeyCode(60), 65536}
=============================================================================
