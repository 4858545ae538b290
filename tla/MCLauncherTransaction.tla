------------------------ MODULE MCLauncherTransaction ------------------------
(* Instances of LauncherTransaction for TLC.                               *)
EXTENDS LauncherTransaction

CONSTANTS a1, a2, b1, A, B, r1, r2

(* Two registrations of game A and one of game B.                          *)
TwoGames == [i \in {a1, a2, b1} |-> IF i = b1 THEN B ELSE A]

(* The second release has A under another name, and no B.                  *)
TwoReleases == [r \in {r1, r2} |-> IF r = r1 THEN {a1, b1} ELSE {a2}]

(* Both games were installed by hand, without a shared database.           *)
PlayedBefore == {a1, b1, Launcher}
=============================================================================
