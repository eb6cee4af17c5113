----------------------------- MODULE MCBetImport -----------------------------
(***************************************************************************)
(* BetImport on three season files.                                        *)
(***************************************************************************)
EXTENDS BetImport

File(from, to) == << "E0_", from, to, ".csv" >>

Match(k) == "match" :> k

\* The first season is over.  The second is downloaded twice; the third comes
\* out empty first, then with its header only, then with a match.
MCDownloads ==
  File(18, 19) :> << <<Match(1), Match(2)>> >> @@
  File(19, 20) :> << <<Match(3)>>, <<Match(3), Match(4)>> >> @@
  File(20, 21) :> << EmptyFile, << >>, <<Match(5)>> >>
=============================================================================
