# Premier League dashboard: a TLA+ development

The repository holds two small Streamlit applications and a vendored editor
plugin. The core of it is `data_proc.py`, which gathers match files and computes
league tables, a results matrix and season summaries from them, and `pl_app.py`,
the dashboard that shows them; `stock_app.py` scans a database of share prices
for candle patterns. This development models all of it but the plugin: the
algorithms as TLA+ operators on the rows of a season, the season as a state
machine that adds a match at a time, the importer as a process that can be killed
half-way, and the two pages as scripts that Streamlit reruns whenever the user
touches a widget. TLC checks small leagues and short sessions; TLAPS proves every
invariant the runs check, of tables, summaries, imported file and both pages,
for every league, every set of season files, every database and every session.

## 1. Inventory

| Component | State it keeps | Operations | What makes it correct |
|---|---|---|---|
| **League tables** `SeasonSummary.calc_main_tables` (data_proc.py:413-690) | none; a pure function of the season's rows | counts, totals, averages, `rank_points` and dense rank for the overall, home and away table | every match is credited once to each side; rank follows points, goal difference, goals; overall averages are averages over all matches |
| **Results matrix, head-to-head** `get_result_matrix` (35-56), `calc_team_stats` (692-778) | none | first score of each ordered pair; three rows per team out of three tables | matrix and table tell the same story; Total = Home + Away; fails exactly when a pair has not met, or the team did not play |
| **Season summaries** `summary_goals`, `summary_ft_results`, `summary_goal_spread`, `summary_goal_markets`, `summary_stats` (58-411) | none | counts, means, extremes, odds | they count the same goals, results, cards and fouls as the tables do along other code paths; names and columns belong together |
| **Dashboard** `pl_app.py` | the browser's widget values, the page, the run under way | one script run from the top per touch of a widget; reads bet_data.csv every time | a page at rest belongs to what its widgets show and to one reading of the file; choices survive; it comes to rest |
| **Importer** `read_csv_data` (8-23) | data/bet_data.csv | concatenates the season files, names each season after its file, overwrites the result in place | a finished import holds every file listed, once and whole; an unfinished one is the beginning of one |
| **Stock page** `stock_app.py` | none between runs; form values and buttons are the browser's | load, choose, scan for patterns, draw charts | a page at rest answers the presses before its last run, with the values submitted; a chart has a recognition behind it |
| **Stock database** `stock_data.py` | app.db, four ORM tables | the code that fills it (68-133) is commented out | primary keys are unique; nothing enforces the foreign keys |
| **python-mode** | - | - | vendored vim plugin; imported by neither application |

How they interact. The importer writes a file; the dashboard reads it at the
start of every run (no lock, no notification, and not even the same path:
`data/bet_data.csv` against `bet_data.csv`). In a run the dashboard creates a
`SeasonSummary` on the rows of the chosen season, calls `get_result_matrix`
unconditionally, then `calc_main_tables` or `calc_team_stats` for the page. The
summaries are not called by any page; `data_proc.main` prints one of them. The
stock page shares nothing with the dashboard but Streamlit; it reads app.db and
two HTML files that are not in the repository.

What is hard here:

* **Arithmetic with narrow assumptions**: three ranking criteria packed into one
  integer; averages of averages; divisions by a count that may be zero, which
  raise or not depending on whether a Python or a numpy float is divided.
* **Hand-aligned tables**: nearly every number exists in three near-identical
  blocks (home, away, overall), matched by position with lists of names. One
  wrong cell is plausible and no test exists to notice.
* **Seasons in progress**: the file grows; teams exist that have played at one
  venue only, pairs exist that have not met.
* **Streamlit's execution model**: runs given up half-way, elements left over
  from earlier runs, widgets that come and go with their values, buttons that
  are true in one run only, values that wait in a form, a file that changes
  between (not within) runs.
* **A file without a protocol**: written in place by a process that may be
  killed, copied by hand, read by another.

`PROJECT.json` lists these as hazards, each at its line with the properties that
would notice it.

## 2. Modules

```
DataFrame          masks, sums, means and IEEE fractions, as data_proc.py uses them
  DataFrameTheorems  (TLAPS) lemmas on them, on folds and on concatenation
  LeagueTables     calc_main_tables, get_result_matrix, calc_team_stats
    Season         a season in progress            Standings   what tables promise
      MCSeason        (TLC)                          ^ refined by Season
      SeasonProofs    (TLAPS, with DataFrameTheorems)
    SeasonSummaries   the five summary methods
      SeasonReport    Season + summaries; they are compared
        MCSeasonReport, MCGoalSpread   (TLC)
        ReportProofs  (TLAPS, with SeasonProofs)

Streamlit          widgets, the page, runs and touches, one browser session
CsvFiles           csv files without a line, as against those without a row
  PlApp            the dashboard (with Streamlit, CsvFiles and LeagueTables)
    MCPlApp           (TLC)
    PageProofs        (TLAPS, with DataFrameTheorems)
  StockApp         the stock page (with Streamlit and StockDb, the schema and queries)
    MCStockApp        (TLC)
    StockProofs       (TLAPS)

SeasonFiles        the season files and what can come out of importing them (with CsvFiles)
  SeasonFileTheorems  (TLAPS, with DataFrameTheorems) lemmas on them
  BetImport        the importer, downloads and kills
    MCBetImport       (TLC)
    ImportProofs      (TLAPS, with SeasonFileTheorems)
  Dashboard        PlApp on the files that BetImport promises
    MCDashboard       (TLC)
    DashboardProofs   (TLAPS, with PageProofs and SeasonFileTheorems)
```

**DataFrame.** A frame is a sequence of rows, a filter a set of positions.
`Masked(df, mask)` is `df[mask]` where the rows themselves are needed.
`Total(f, S)` is the sum of a column over some rows; it is defined as the number
of units contributed, which is the same number (`TotalIsSum`) and can be reasoned
about with theorems on cardinality. A float is a fraction; denominator 0 stands
for NaN or inf, with the rules numpy follows.

**LeagueTables.** One operator per computed thing: `HomeTally` and `AwayTally`
are the count columns of the two blocks, `OverallTally` the combination at
571-588, `RankPoints` and `Rank` lines 499-506 and 670-680, `OverallAverages` the
weighting at 589-642. A table is a function of its type and a team. In which
order its rows are shown is not determined by the code: teams are collected
through a set and `sort_values` is not stable, so level teams may come out either
way; `RowOrders` is the set of orders there can be. `MatrixRaises` and
`TeamStatsRaises` say when the code ends in an IndexError or a KeyError.

**Season.** `data` is `SeasonSummary.data`. The program never changes it; the
world does: `PlayMatch` appends the next fixture of a fixed calendar with any of
the given match sheets. Every table is asked for in every state, which is what a
dashboard does during a season. Constants: the clubs, the calendar, the sheets,
and the most goals a side scores in a match. The assumptions say that sheets are
consistent (half-time goals within full-time goals, FTR follows the score) and
`GoalsAssumption` that no team can reach 500 goals in a season: below that the
packed `rank_points` is sound, and a Premier League season stays far below.

**Standings** is the abstract specification: running totals, and one action in
which a match credits its two sides. It knows no file, filter or sum. Season
implements it under the mapping `table[type][team] <- TallyOf(data, type, team)`.

**SeasonSummaries, SeasonReport.** The summary methods, and the properties that
relate them to the tables and to each other.

**Streamlit** is not in the repository and is modelled from what the two scripts
rely on: a run reads the widget values of the moment it began; an element
replaces what stood at its position (`Emit`); an st call gives the run up when a
request is pending (`Draw` waits for `~rerun`, `StartRun` takes over); an
exception is drawn and ends the run (`Raise`); a run that ends removes the rest
of the old page and the values of widgets that are gone (`EndRun`); a selectbox is
identified by its label and options; a button is pressed in the run it starts and
in no other. The variables are the browser (`store`, the widget values;
`display`, the areas of the page), the request for a run (`rerun`) and the run
(`pc`, `states`, `cursor`).

**CsvFiles** names the file without a single line, `EmptyFile`, which `read_csv`
refuses. A file with nothing but its header is the sequence without rows, and
`read_csv` returns a frame for it.

**PlApp** adds the script: one action per statement that draws or loads, in the
order of the script: `Load` (13-15), `DrawPageMenu` (50), `DrawSeasonMenu` (51-53),
`ComputeMatrix` (55-59), the three pages (62-103). `bet_data` is the content of
the file, `all_df` the frame of the run. An empty file raises in `read_csv`; one
with nothing but its header has a season menu without options, the season is
None, and the matrix of no rows has no column `Teams`, a KeyError. A row
cut before its season column has no season (NaN in pandas, a season of its own
to `unique` and one that equals nothing to the filter). Plain computations
(`ComputeMatrix`) cannot be given up, as nothing in them calls Streamlit; `Load`
can, in the heading that is written before the file is read. The six frames of
`calc_team_stats` are one element, and the two columns are one area: both only
change what an older run leaves before the page is at rest, about which no
property speaks. Elements are kept as what they are computed from (rows and argument), since how
is LeagueTables' business.

**SeasonFiles, BetImport.** A season file has a name, of which only the two years
matter, and successive downloads, some of which may be empty. The importer lists
the files in any order (`glob`), reads them one at a time while they may be
downloaded again (`ReadFile`), ends in an exception for an empty file or none at
all, takes a file with nothing but its header for a season without rows, and then empties the output (`OpenFile`) and writes it in buffers that end
anywhere in a row (`Flush`, `Close`). It may be killed in every state, and then
what has been written stays. A buffer that ends in the header line is left out:
the first one holds it. `Imports` and `Contents` say what readers may find.
Assumed: there are finitely many season files and what is downloaded is a
sequence of rows (`DownloadsAssumption`); the names have years in them and no two
have the same (`NameAssumption`), as the file name is the only source of the
season.

**Dashboard** composes the two by what the importer promises: `Files` of PlApp is
`Contents` of SeasonFiles (`FilesAssumption`), and `ImportProofs` proves that
BetImport's output never is anything else. Between them somebody copies
`data/bet_data.csv` to `bet_data.csv`, which no code does; the copy may happen at
any moment, of an import at any stage.

**StockDb, StockApp.** A database is four tables; the two that fill menus keep
their order. Assumed (`IsDatabase`, `DatabasesAssumption`): tables are finite
and primary keys unique; foreign keys may dangle, as SQLite does not enforce them
by default and the queries are inner joins, and a momentum may be NULL. StockApp is the script:
the sidebar and its forms (`Edit` changes a value in the browser, `Submit`
sends all values of a form with its button), the scan, and the charts, one action
for each element that can be the last one before a run is given up. A chart and
its heading are one element. Of the fixed texts and the spinner only the calls to
Streamlit are kept, in which a run can be given up (`"headings"`, and the last step
of `DrawChart`). A momentum without a value stops the scan with a TypeError after
the charts of the rows before it; a stock code that is not two parts is a
ValueError (`StockElement`). The page
cannot be run from the repository alone (module `stock_price`, app.db and the
`trading_view` files are missing); `html` says whether those files are there.

## 3. Runs

| Run | Instance | Shows |
|---|---|---|
| season_tables | 3 clubs, double round robin, a sheet per result | `TypeOK`; the tables implement Standings; in every order level teams can come out, the rows of a table descend by the three criteria |
| season_ranking | 4 clubs, single round robin, 4 sheets | rank = points, then goal difference, then goals; a match leaves the order of the others alone |
| season_late_host | 3 clubs, one hosting last, 5 sheets | overall averages are pooled averages or NaN; shots per goal lie between those of the venues or are undefined; matrix and table agree; the matrix exists once the tables say that every pair has met, and not before; head-to-head adds up |
| season_report | 3 clubs, double round robin, 5 sheets | summaries and tables count the same goals, results, scorelines, cards, fouls; there are goal markets exactly after a goalless draw and a match of five goals |
| goal_markets | 5 clubs, 20 matches, 16 scorelines | a season with a goal spread has its goal markets |
| pl_app | 4 contents of the file, 3 touches | a page at rest is current and whole; page and season stay picked; the page comes to rest |
| bet_import | 3 season files, 6 downloads, 5 rows | a finished import holds every file once; an unfinished one cuts at most one season; readers find an import or its beginning |
| dashboard | 2 season files of 2 rows, 1 touch | whatever copy of a file being written it reads, all but the last two seasons of the menu are shown whole; after an ordered import the menu starts at the newest season |
| stock_app | 3 databases, 3 days, 4 touches | a page at rest answers the presses before its last run, with the submitted values; every chart has a recognition behind it; the page comes to rest |
| win_odds | as season_report | *violated*: finding 1 |
| goal_spread | as goal_markets | *violated*: finding 2 |
| favourite_teams | as pl_app | *violated*: finding 3 |

Findings. (1) `summary_ft_results` lists its last odds column in the order draw,
home, away under rows named home, draw, away (data_proc.py:136). (2) A season
without one of the sixteen scorelines, such as 02-03 in the repository's file,
has no goal spread: `100 / match_pct` raises (170). (3) The head-to-head menus
are the same six clubs for every season; one that did not play it, such as Man
City in 01-02, ends the page in a KeyError (729).

**Bounds.** With three clubs every club plays at both venues twice, so every
state of "played nowhere / at one venue / at both" occurs, and in every table;
`LateHost` adds a club that is in the overall table for four matches before it
hosts. Four clubs are what it takes for two of them to look on while two play.
The four sheets hold all results and pairs that let goal difference and goals
scored disagree; a fifth adds clean sheets on both sides. Five clubs are the
smallest league with at least sixteen matches; there a constraint
(`FifteenThenAny`) fixes the first fifteen scores and leaves the others open
between the missing scoreline and two that occurred, since only which scorelines
are present matters.

For the dashboard, three touches reach Head-to-Head and another team there, or
another season and page, or leave a page and come back to it, each touch at any
moment of any run; four contents of the file make any replacement, before,
between or during runs: the first season lacks a club of the menus, the second is
under way, the third content is an empty file, the fourth only a header. The
importer has a season that never changes, one that grows between two downloads and
one that is empty at first and then only a header; their rows can be cut after, in and before the season column. In the
composition every content of the file that two season files can lead to, whole,
cut or in either order, replaces every other at any moment; each season has the
two matches that its results matrix takes; one touch of any
widget at any moment covers the older season and the other pages. The stock page
has an empty database, one that holds what the script does not expect (a NULL
momentum beside two that can be drawn, a code that cannot be split) and one in which a stock shows two patterns of
opposite trends on one day, another stock a pattern that is not a top one, and
rows dangle at two places; four touches edit two values of a form, submit them and
press again, or press two buttons before a run begins, or leave the page. Each
bound is a CONSTANT of the module or a definition of its MC module.

**Fairness.** PlApp and StockApp have it: weak fairness of `Server`, the process
that starts runs and executes the script, which runs whenever it has something to
do. User, importer and whoever copies files owe nothing. `ComesToRest` relies on
the user touching widgets finitely often (`MaxTouches`): a user who never stops
can keep any run from ending. Deadlock checking is off throughout because seasons
end, files stop being downloaded and users leave.

## 4. Proofs

Every invariant of a passing run, the action properties and the refinement of
Standings are theorems. They hold for all constants that the modules' assumptions admit: clubs,
calendars and match sheets (`TeamsAssumption`, `CalendarAssumption`,
`SheetsAssumption`, `GoalsAssumption`), season files and their downloads
(`DownloadsAssumption`, `NameAssumption`), the dashboard's files and menus
(`FramesAssumption`, `MenuAssumption`), databases and dates
(`DatabasesAssumption`, `DatesAssumption`), and any number of touches
(`TouchesAssumption`). Where the text says "from TypeOK", the property is one of
every file that the type invariant describes, and the work is in the operators.

**Operators** (DataFrameTheorems). Sums over teams (`SumFunctionOnSet`), boolean
indexing (`Masked`) and `pd.concat` (`FlattenSeq`) are recursive functions, and
before anything can be said of one it has to be shown to exist. The library's
induction theorems take the predicate as an operator, which the provers cannot
instantiate; here the predicate is a set, so that induction is a fact about
subsets of Nat (`NatSetInduction`, from `WFMin`) or of the powerset of a finite
set (`FiniteSetInduction`). With these, `SumExists`, `MaskExists` and
`FlattenExists` give the functions, and the rest follows:

* sums: one term taken out (`SumRemove`), sums of sums (`SumAdds`, `SumTimes`), `Total`
  as a sum (`TotalIsSum`), a total as the sum of the totals of its groups
  (`TotalByGroup`), bounds, and the effect of one more row (`TotalAddRow`);
* masks: what `Masked` selects are the rows at increasing positions, each selected
  row once (`MaskedPositions`); a mask that is true in one block of rows selects
  that block (`MaskedBlock`);
* concatenation: the frames are consecutive blocks (`FlattenBlocks`), so a frame
  with one season of its own comes back whole out of a concatenation
  (`SeasonsOfConcat`), and of one that was cut all but the block that was cut
  (`SeasonsOfCut`).

**Tables** (SeasonProofs).

* `TypeCorrect`: `TypeOK` is inductive as it stands: the rows are the calendar's
  fixtures, in order, each with one of the published sheets. That last conjunct
  is what the others build on: it carries the bound on goals to every row.
* `RankingSound` (`RankFollowsCriteria`). `TypeOK` bounds the rows of a team by
  its fixtures (`RowsOfTeam`), each row's goals by `MaxGoals`, hence the team's
  goals by 499 (`GoalsOfRows`, `TallyIsRanked`); below that packing is
  lexicographic order (`PackedOrder`); and a dense rank, the number of distinct
  values at or above one's own, is strictly monotonic (`DenseRank`).
* `BystandersSound` (`BystandersKeepOrder`). A match adds its row to the filters
  of the two teams that play it and to no other (`RowsAfterMatch`), sums over
  old rows do not change (`TallyKeeps`), so two bystanders keep their rows, and
  by RankingSound in both states their order. The dense rank itself may change,
  which is why the property is about order.
* `StandingsImplemented` (`ImplementsStandings`). The empty file maps to the
  blank table (`TallyOfNoRows`); adding a row adds one to one of won, drawn and
  lost and its goals to the totals (`CountAddRow`, `GoalsCredit`, `TallyCredits`),
  for the overall table through the sum of the two venues (`OverallCredits`), so
  that every `PlayMatch` maps to a `Match` of Standings (`MatchCreditsTables`).
* `TablesDescend` (`TableDescends`). A row order sorts by rank, and by
  RankingSound rank sorts by the three criteria; that `set` and `sort_values` leave
  the order of level teams open does not matter to that.

**Averages, head-to-head, summaries, matrix** (ReportProofs), all from `TypeOK`.

* `AveragesPooled` (`AveragesArePooled`). Home and away rows of a team are
  disjoint and make up its rows; the mean of two means weighted by matches is the
  mean over all of them, as fractions (`WeightedMean`), and no number while one
  venue has no match (`WeightedNaN`).
* `ShotsPerGoalSound` (`ShotsPerGoalNeedGoals`). The overall ratio is a weighted
  mean of the venues' ratios, so it lies between them (`WeightedBetween`), and is no
  number when one of them is none (`WeightedNoNumber`).
* `HeadToHeadSound` (`HeadToHeadAddsUp`). The three rows of `calc_team_stats` are
  read from three tables; the overall one is the sum of the others.
* `GoalsAgree`, `ResultsAgree`, `StatsAgree` (`...AgreeWithTables`). The file is
  split by its home teams, and again by its away teams (`VenuesSplitFile`); a total
  over the file is the sum over teams of their totals at that venue (`VenueSums`,
  `VenueCounts`), which is where the summaries meet the tables.
* `SpreadAgrees`, `MarketsFollowSpread`. The sixteen scorelines and the others
  partition the file (`ScorelinesCounted`, `CountOfOthers`); a 0-0 and a 3-3, which a
  spread needs, are under and over every line of the markets.
* `MarketsAfterExtremes` (`MarketsNeedExtremes`). Fair odds divide by the matches
  under and over each of five lines. A goalless match is under all of them and one
  of five goals over all of them; the outermost lines leave no other.
* `MatrixSound` (`MatrixTellsTheTable`). If no pair meets twice at the same ground
  (`NoFixtureTwice`, the only hypothesis here, and one the league's calendar meets: the
  matrix shows the first score of a pair and would lose a second), then in a
  matrix that can be computed each cell is one row of the file and each row one
  cell (`CellsAreRows`), and adding up a team's cells is adding up its rows
  (`TotalReindexed`).
* `MatrixExists` (`MatrixOnlyWhenAllMet`), under the same hypothesis. A club's home
  rows are one for each guest it has had (`RowsMeetOnce`), so it has as many as
  there are other clubs exactly when it has had them all.

**Importer** (SeasonFileTheorems, ImportProofs). `ContentPromised`
(`ContentIsPromised`), `ImportFresh` (`ImportIsFresh`), `CutAtMostOnce`
(`OneSeasonIsCutAtMost`) and `ImportTypeCorrect` (`TypeOK`). None of them is
inductive: what is written depends on what was read many steps before. `ReadingOK`
adds that. The files listed are files that were present at the listing, each once
(`HasListed`); the frames in `dfs` are frames of the first of these files in some
download that was not empty and not older than the listing (`HasRead`); when the
importer writes it has read all of them (`WritesAll`); and an import is no newer
than the directory (`ImportOK`, `DirOK`). A file is then a part of a concatenation, plus at
most one row that lost its season (`IsPart`, `ContentIsPart`), and `SeasonsOfCut` says
which of its seasons are whole (`PartSeasons`).

**Dashboard's page** (PageProofs).

* `RestingPage` (`RestingPageIsCurrent`). The invariant `Inv` says what a page is
  like at every statement of a run: what the run has drawn in an area is the
  prefix that belongs to that statement, to its file and to the values it reads,
  and stale elements may follow (`RunOK`); the statement is one that file and
  values lead to; at the end the prefix is the whole page (`EndRunShows`), and
  `EndRun` cuts off the rest (`RestOK`). The page at rest belongs to the values of
  the run; that it belongs to those of the browser, too, is `RemembersOK`: as long
  as no touch is pending the two agree on every widget of the page.
* `PicksStay` (`PageAndSeasonStayPicked`). Only `EndRun` removes the value of a
  selectbox; by `RunOK` a run that ends has drawn both menus, unless the file was
  empty.
* `PageTypeCorrect` (`TypeOK`). `Inv` leaves the stale elements of a sidebar open,
  and those can still be touched; `TypeInv` adds that their defaults, too, are
  options of theirs (`WidgetsOK`).

**Dashboard on the importer's files** (DashboardProofs). `OlderSeasonsWhole`
(`OlderSeasonsAreWhole`) and `NewestIsDefault` (`NewestSeasonByDefault`) need no
invariant of their own. A page at rest is made from one file (`SeasonMenuAtRest`,
`DataAtRest`, from `Inv` of PageProofs); that file is a part of a concatenation
(`ContentIsPart`); entry k of the season menu is the season of the first row p[k]
that has it, and p ascends (`MenuHasRows`). A season with two more behind it in the
menu therefore ends before the row that may have lost its season, and before the
season that was being written, so its block is whole (`OlderSeasonIsWhole`). The
last entry of an import is the season of its last file (`LastSeasonIsNewest`).

**Stock page** (StockProofs). `RestingPageAnswered` (`RestingPageAnswers`),
`ChartsRecognised` (`ChartsShowRecognisedDays`), `StockTypeCorrect` (`TypeOK`). The
invariant is again one of prefixes (`DrawnAt` of `SidebarFor` and `MainFor`, the page
the values ask for) with the branch the run took (`BranchAt`), and adds two things.

* Presses: a button has a value in the browser exactly while its press is waiting
  for a run, and in the run exactly if it answers that press (`ButtonsOK`).
* A scan: the charts of a column are in one-to-one correspondence with the rows that
  `Found` gives for it less those left in `stocks` (`ColumnsAt`). It begins with a
  query whose result is finite and lists each row once (`FoundIsFinite`,
  `QueryRows`), each chart moves one row (`ChartAdded`), and when no rows are left
  the correspondence is with all of `Found`. That a row has one chart and a chart
  one row is then a matter of cardinality (`ChartsShowOnce`).

At rest, `RemembersOK` turns the values the run read into those of the browser and
its presses (`RestAgrees`, `RestScan`). Dangling foreign keys need no case of their
own: `Joined` drops them.

Only model-checked: `ComesToRest` of PlApp and of StockApp. Liveness needs
ENABLED of `Server`, which is out of the prover's reach. The three findings are
counterexamples of TLC. That the lemmas speak of the very operators the code is
translated to, and that the assumptions are those of the code, no proof can
show; TLC evaluates the assumptions on every instance.

## 5. Abstractions

Team names, odds and dates are data the properties do not look into; labels and
options of widgets are short identifiers. Rounding to
two decimals, column labels, formatting of scores and page layout are left out.
Percentages are fractions of 1. Odds are hundredths, with 0 for an empty cell.
`Total` and the fractions are unbounded integers: pandas' int64 cannot overflow
with the numbers of a season. One browser session is modelled: the script keeps
nothing outside a run, so sessions share only the file. A request for a run
arrives at once; a late one is the same as a late touch. A run that was given up
keeps the old page and widget values, and only a finished one removes them; a
value that arrives while a run is ending survives it. Two presses before a run
begins are answered by one run that reads both buttons as pressed. The importer's
glob pattern and name slicing are written for Windows paths; the model takes the
file name they are meant to yield. The buffers of `to_csv` end anywhere in a row,
and a cut row is told apart only by what is left of its season.

## 6. Not modelled, and what is left

* **python-mode** (`src/python-mode/`) is a vendored vim plugin with vendored
  copies of pylint, astroid, rope, autopep8 and others. Neither application imports
  it, and it is somebody else's program. It is also nearly all of the repository's
  lines: about 130,000 of them, against some 1,200 in the four files of the
  applications, of which the map covers the greater part.
* **The database builder** (stock_data.py:68-133) is commented out and calls a
  module that is not in the repository; nothing runs that could be modelled. The
  contents of app.db are an input of StockApp.
* Left out of the modelled files: fixed texts, layout, colours, rounding, printing
  (`data_proc.main` among it) and the measuring of run times.

Left for later, in this order: the dashboard on three season files in TLC, so that
a whole season precedes a cut one and a lost row in one menu (the theorem covers
it already); one lemma module on runs of Streamlit for PageProofs and StockProofs,
which each prove that `Emit` extends a prefix and `EndRun` cuts off the rest.
