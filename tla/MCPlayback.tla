----------------------------- MODULE MCPlayback -----------------------------
(* Two files that meet, as the muxer cuts them, and one after a gap.        *)
EXTENDS Playback, LibraryLaws

Frame(at, key) == [at |-> at, key |-> key]
First  == [start |-> 0, end |-> 4, frames |-> <<Frame(0, TRUE), Frame(1, FALSE), Frame(2, TRUE), Frame(3, FALSE)>>]
Second == [start |-> 4, end |-> 6, frames |-> <<Frame(0, TRUE), Frame(1, FALSE)>>]
Third  == [start |-> 9, end |-> 11, frames |-> <<Frame(0, TRUE), Frame(1, FALSE)>>]

MCFiles == {First, Second, Third}
MCInstants == {3, 5, 12}
MCRates == {1, 4}
=============================================================================
