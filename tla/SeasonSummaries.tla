--------------------------- MODULE SeasonSummaries ---------------------------
(***************************************************************************)
(* The season-wide summaries of data_proc.SeasonSummary: summary_goals,    *)
(* summary_ft_results, summary_goal_spread, summary_goal_markets and       *)
(* summary_stats, as operators on the DataFrame df of one season.          *)
(*                                                                         *)
(* Besides its paired columns a row holds FTR, the full-time result, and   *)
(* the odds PS and B365 of two bookmakers, one per result, in hundredths;  *)
(* 0 stands for an empty cell (NaN), which no odds can be.  Percentages    *)
(* are kept as fractions of 1 and rounding to two decimals is left out.    *)
(***************************************************************************)
EXTENDS LeagueTables, FiniteSetsExt

NumOfMatches(df) == Len(df)

-----------------------------------------------------------------------------
(***************************************************************************)
(* summary_goals: goals of the whole match and of its two halves.          *)
(***************************************************************************)
GoalRows == {"home_goals", "away_goals", "total_goals"}

\* Mutant: the away row sums the home column.
GoalCountPasted(df, row, col) ==
  LET home == Total(Column(df, "H", col), DOMAIN df)
  IN  IF row = "total_goals" THEN 2 * home ELSE home

GoalCount(df, row, col) ==
  LET home == Total(Column(df, "H", col), DOMAIN df)
      away == Total(Column(df, "A", col), DOMAIN df)
  IN  CASE row = "home_goals"  -> home
        [] row = "away_goals"  -> away
        [] row = "total_goals" -> home + away

SummaryGoals(df) ==
  [row \in GoalRows |->
     LET ft == GoalCount(df, row, "FTG")
         fh == GoalCount(df, row, "HTG")
         avg(n) == Float(n, NumOfMatches(df))
     IN  [ft_cnt |-> ft, fh_cnt |-> fh, sh_cnt |-> ft - fh,
          ft_avg |-> avg(ft), fh_avg |-> avg(fh), sh_avg |-> avg(ft - fh)]]

-----------------------------------------------------------------------------
(***************************************************************************)
(* summary_ft_results.  Row names and results go together: home_win is H,  *)
(* draw is D and away_win is A.  Means skip empty cells.                   *)
(***************************************************************************)
\* Mutant: the results listed in another order than the rows.
WithResultShuffled(df, r) ==
  {i \in DOMAIN df : df[i].FTR = [H |-> "D", D |-> "H", A |-> "A"][r]}

WithResult(df, r) == {i \in DOMAIN df : df[i].FTR = r}

MeanOdds(df, S, book, r) ==
  LET column == [i \in DOMAIN df |-> df[i][book][r]]
  IN  Mean(column, {i \in S : column[i] # 0})

\* Which odds column the avg_winodds_bet cell of each row is computed from.
WinOddsBetCell == [H |-> "D", D |-> "H", A |-> "A"]

SummaryFtResults(df) ==
  LET cnt == [r \in Results |-> Cardinality(WithResult(df, r))]
      all == cnt["H"] + cnt["D"] + cnt["A"]
  IN  [r \in Results |->
         LET bet == WinOddsBetCell[r]
         IN  [match_cnt       |-> cnt[r],
              match_pct       |-> Float(cnt[r], all),
              avg_odds_pin    |-> MeanOdds(df, DOMAIN df, "PS", r),
              avg_odds_bet    |-> MeanOdds(df, DOMAIN df, "B365", r),
              avg_winodds_pin |-> MeanOdds(df, WithResult(df, r), "PS", r),
              avg_winodds_bet |-> MeanOdds(df, WithResult(df, bet), "B365", bet),
              fair_odds       |-> DivF(Int64(1), Float(cnt[r], all))]]

-----------------------------------------------------------------------------
(***************************************************************************)
(* summary_goal_spread: matches per scoreline up to 3-3, the rest as 4+.   *)
(* 100 / match_pct divides Python floats, so an absent scoreline raises    *)
(* ZeroDivisionError; the 4+ row divides numpy floats and does not.        *)
(***************************************************************************)
Scorelines == (0 .. 3) \X (0 .. 3)

SpreadCount(df, score) ==
  Cardinality({i \in DOMAIN df : df[i].H.FTG = score[1] /\ df[i].A.FTG = score[2]})

SpreadCounts(df) == [s \in Scorelines |-> SpreadCount(df, s)]

SpreadRest(df) == NumOfMatches(df) - SumFunctionOnSet(SpreadCounts(df), Scorelines)

GoalSpreadRaises(df) == \E s \in Scorelines : SpreadCount(df, s) = 0

-----------------------------------------------------------------------------
(***************************************************************************)
(* summary_goal_markets: matches under and over k + 0.5 goals.  Both fair  *)
(* odds divide Python floats: a market that always or never wins raises.   *)
(***************************************************************************)
\* Mutant: the lines stop one short.
MarketsShort == 0 .. 3

Markets == 0 .. 4

\* Mutant: exactly k goals count as over.
UnderCountStrict(df, k) ==
  Cardinality({i \in DOMAIN df : df[i].H.FTG + df[i].A.FTG < k})

UnderCount(df, k) ==
  Cardinality({i \in DOMAIN df : df[i].H.FTG + df[i].A.FTG <= k})

OverCount(df, k) == NumOfMatches(df) - UnderCount(df, k)

GoalMarketsRaises(df) ==
  \E k \in Markets : UnderCount(df, k) = 0 \/ OverCount(df, k) = 0

-----------------------------------------------------------------------------
(***************************************************************************)
(* summary_stats: count, mean, maximum and minimum of six statistics, for  *)
(* the home team, the away team and both together.                         *)
(***************************************************************************)
StatColumns == {"C", "S", "ST", "Y", "R", "F"}
StatRows    == {"Home team", "Away team", "Total"}

\* Mutant: the total forgets the away team.
StatSeriesPasted(df, row, col) ==
  Column(df, IF row = "Away team" THEN "A" ELSE "H", col)

StatSeries(df, row, col) ==
  CASE row = "Home team" -> Column(df, "H", col)
    [] row = "Away team" -> Column(df, "A", col)
    [] row = "Total"     -> [i \in DOMAIN df |-> df[i].H[col] + df[i].A[col]]

SummaryStats(df) ==
  [row \in StatRows |->
     [col \in StatColumns |->
        LET series == StatSeries(df, row, col)
            values == {series[i] : i \in DOMAIN df}
        IN  [cnt |-> Total(series, DOMAIN df), per_game |-> Mean(series, DOMAIN df),
             max |-> Max(values), min |-> Min(values)]]]
=============================================================================
