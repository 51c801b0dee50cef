----------------------------- MODULE MCViewers -----------------------------
(* Sessions of every kind.                                                  *)
EXTENDS Viewers
MCKinds == Whep \cup Moq
=============================================================================
