--------------------------- MODULE MCSeasonReport ---------------------------
(***************************************************************************)
(* SeasonReport on the clubs and calendars of MCSeason.                    *)
(***************************************************************************)
EXTENDS MCSeason, SeasonReport

\* 1-0, 0-0, 2-2, 1-3 and 4-2: a scoreline for every market, both kinds of
\* 4+ neighbours, and a red card for one home side.
ReportSheets == {SheetOf(1, 0, 2), SheetOf(0, 0, 1), SheetOf(2, 2, 3),
                 SheetOf(1, 3, 0), SheetOf(4, 2, 1)}
=============================================================================
