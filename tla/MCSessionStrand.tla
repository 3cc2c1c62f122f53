--------------------------- MODULE MCSessionStrand ---------------------------
(* TLC instances of SessionStrand.                                          *)
EXTENDS SessionStrand, TLC

CONSTANTS s1, s2, s3

\* Two clients that may each log in as an administrator and send a command.
TwoSpeakers == [s \in Sessions |-> 2]
SpeakerSymmetry == Permutations(Sessions)

\* One client that may, one that sends one line, and one that only listens.
Mixed == [s \in Sessions |-> CASE s = s1 -> 2 [] s = s2 -> 1 [] OTHER -> 0]
=============================================================================
