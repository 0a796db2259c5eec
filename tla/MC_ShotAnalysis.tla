-------------------------- MODULE MC_ShotAnalysis --------------------------
(***************************************************************************)
(* Six strobes light a ball that flies six pixels in a tenth of a          *)
(* millisecond and rises by one; besides its exposures the search may      *)
(* return a shadow of the third, a dark circle behind the fourth, one off  *)
(* the line and one too large.                                             *)
(***************************************************************************)
EXTENDS ShotAnalysis

MCPauses == <<7, 18, 30, 22, 30, 0>>

Exposure(s, radius) ==
  [x |-> 300 + 6 * FlashAt[s], y |-> 700 - FlashAt[s], r |-> radius, colour |-> 10, strobe |-> s]

Spurious(x, y, radius, colour) ==
  [x |-> x, y |-> y, r |-> radius, colour |-> colour, strobe |-> 0]

MCCircles ==
  {Exposure(s, 30) : s \in 1..6 \ {4}} \cup {Exposure(4, 33)} \cup
  {Spurious(459, 670, 29, 10), Spurious(640, 638, 30, 2), Spurious(560, 700, 30, 10),
   Spurious(720, 630, 45, 10)}
=============================================================================
