-------------------------------- MODULE PlApp --------------------------------
(***************************************************************************)
(* pl_app.py, the dashboard: its script under Streamlit, in one browser    *)
(* session.                                                                *)
(*                                                                         *)
(* bet_data.csv is read at the start of every run.  It may have been       *)
(* replaced since the previous one, which by itself starts no run.         *)
(***************************************************************************)
EXTENDS LeagueTables, Streamlit, CsvFiles

CONSTANTS
  Files,      \* what bet_data.csv may hold: EmptyFile, or rows with a season
  MenuTeams,  \* the clubs of home_menu and away_menu
  MaxTouches  \* a bound on how often the user touches a widget

VARIABLES
  bet_data,   \* the rows of bet_data.csv, or EmptyFile
  all_df,     \* the rows the run has loaded, EmptyFile when it could not
  touches     \* how often the user has touched a widget

vars == <<streamlit, bet_data, all_df, touches>>

\* A file holds rows, in an order, and the menus list clubs.
ASSUME FramesAssumption == \A df \in Files \ {EmptyFile} : df \in Seq(ToSet(df))
ASSUME MenuAssumption == MenuTeams \in Seq(ToSet(MenuTeams)) /\ Len(MenuTeams) >= 2
ASSUME TouchesAssumption == MaxTouches \in Nat

-----------------------------------------------------------------------------
(***************************************************************************)
(* The widgets of the sidebar.                                             *)
(***************************************************************************)
\* all_df["season"].unique(): the seasons in the order of the file.
Seasons(df) ==
  LET season == [i \in DOMAIN df |-> df[i].season]
  IN  Masked(season, [i \in DOMAIN df |-> \A j \in 1 .. i - 1 : season[j] # season[i]])

PageMenu == Selectbox("page", <<"league_tables", "results_matrix", "head_to_head">>, 1)

\* Mutant: the default forgets that options count from zero in the code.
SeasonMenuOffByOne(df) ==
  Selectbox("season", Seasons(df), Len(Seasons(df)) - 1)

\* Mutant: the default is the first season of the file.
SeasonMenuOldest(df) == Selectbox("season", Seasons(df), 1)

SeasonMenu(df) == Selectbox("season", Seasons(df), Len(Seasons(df)))

TableMenu == Selectbox("table", <<"overall", "home", "away">>, 1)
HomeMenu  == Selectbox("home_team", MenuTeams, 1)
AwayMenu  == Selectbox("away_team", MenuTeams, 2)

-----------------------------------------------------------------------------
(***************************************************************************)
(* What the pages show.                                                    *)
(***************************************************************************)
\* An empty season cell is NaN, which equals nothing, itself included.
NaN == << >>

\* SeasonSummary(all_df, season).data, for every season of the frame.
SeasonRows(df) ==
  [season \in {df[i].season : i \in DOMAIN df} |->
     Masked(df, [i \in DOMAIN df |-> df[i].season = season /\ season # NaN])]

(***************************************************************************)
(* data_summary.data of a run that loaded df and reads these widget values.*)
(* The season menu of a file without rows is empty and returns None, which *)
(* is the season of no row.                                                *)
(***************************************************************************)
Data(df, values) ==
  IF df = << >> THEN << >> ELSE SeasonRows(df)[Selected(values, SeasonMenu(df))]

(***************************************************************************)
(* An element is kept as what it is computed from; how calc_main_tables,   *)
(* get_result_matrix and calc_team_stats compute it is in LeagueTables.    *)
(***************************************************************************)
Element(kind, data, arg) == [kind |-> kind, data |-> data, arg |-> arg]

TableElement(data, type) == Element("calc_main_tables", data, type)
MatrixElement(data)      == Element("get_result_matrix", data, "")
HeaderElement(team)      == Element("header", << >>, team)
StatsElement(data, team) == Element("calc_team_stats", data, team)
ErrorElement(name)       == Element("exception", << >>, name)

-----------------------------------------------------------------------------
(***************************************************************************)
(* The script, one action per statement that draws or loads.               *)
(***************************************************************************)
Init == Open /\ bet_data \in Files /\ all_df = EmptyFile /\ touches = 0

\* Statements that begin with an st call, where a run can be given up.
StCalls == {"load", "page_menu", "season_menu", "table_menu", "league_table",
            "results_matrix", "home_menu", "away_menu",
            "home_header", "home_stats", "away_header", "away_stats"}

rows == Data(all_df, states)

\* The heading, a fixed text, is drawn unless the run has to be given up; an
\* empty file is an EmptyDataError of read_csv.
Load ==
  /\ pc = "load" /\ ~rerun
  /\ all_df' = bet_data
  /\ \/ bet_data = EmptyFile /\ Raise(ErrorElement("EmptyDataError"))
     \/ bet_data # EmptyFile /\ Compute("page_menu")

\* Mutant: the results matrix page does without the season menu.
DrawPageMenuOnly ==
  /\ pc = "page_menu"
  /\ Draw("sidebar", PageMenu, IF Selected(states, PageMenu) = "results_matrix"
                                 THEN "result_matrix" ELSE "season_menu")

DrawPageMenu == pc = "page_menu" /\ Draw("sidebar", PageMenu, "season_menu")

DrawSeasonMenu ==
  pc = "season_menu" /\ Draw("sidebar", SeasonMenu(all_df), "result_matrix")

\* The statement of each page to go on with.
FirstOfPage == [p \in ToSet(PageMenu.options) |->
                  CASE p = "league_tables"  -> "table_menu"
                    [] p = "results_matrix" -> "results_matrix"
                    [] p = "head_to_head"   -> "home_menu"]

(***************************************************************************)
(* The results matrix is computed for every page and may raise on any: a   *)
(* pair that has not met is an IndexError, and a season without rows makes *)
(* a matrix without the column "Teams", a KeyError.                        *)
(***************************************************************************)
ComputeMatrix ==
  /\ pc = "result_matrix"
  /\ \/ MatrixRaises(rows) /\ Raise(ErrorElement("IndexError"))
     \/ rows = << >> /\ Raise(ErrorElement("KeyError"))
     \/ /\ ~MatrixRaises(rows) /\ rows # << >>
        /\ Compute(FirstOfPage[Selected(states, PageMenu)])

LeagueTablesPage ==
  \/ pc = "table_menu" /\ Draw("sidebar", TableMenu, "league_table")
  \/ /\ pc = "league_table"
     /\ Draw("main", TableElement(rows, Selected(states, TableMenu)), "end")

ResultsMatrixPage ==
  pc = "results_matrix" /\ Draw("main", MatrixElement(rows), "end")

(***************************************************************************)
(* One column: the name of the team, then its statistics.  The six frames  *)
(* the statistics are shown in count as one element, and both columns are  *)
(* drawn into the main area, one below the other: what they show of an     *)
(* older run differs only before the page is at rest.                      *)
(***************************************************************************)
DrawHeader(at, menu, next) ==
  pc = at /\ Draw("main", HeaderElement(Selected(states, menu)), next)

DrawStats(at, menu, next) ==
  LET team == Selected(states, menu)
  IN  /\ pc = at
      /\ \/ TeamStatsRaises(rows, team) /\ Raise(ErrorElement("KeyError"))
         \/ ~TeamStatsRaises(rows, team) /\ Draw("main", StatsElement(rows, team), next)

HeadToHeadPage ==
  \/ pc = "home_menu" /\ Draw("sidebar", HomeMenu, "away_menu")
  \/ pc = "away_menu" /\ Draw("sidebar", AwayMenu, "home_header")
  \/ DrawHeader("home_header", HomeMenu, "home_stats")
  \/ DrawStats("home_stats", HomeMenu, "away_header")
  \/ DrawHeader("away_header", AwayMenu, "away_stats")
  \/ DrawStats("away_stats", AwayMenu, "end")

Show == \/ DrawPageMenu \/ DrawSeasonMenu \/ ComputeMatrix
        \/ LeagueTablesPage \/ ResultsMatrixPage \/ HeadToHeadPage
        \/ StartRun(StCalls) \/ EndRun

Server == \/ Load /\ UNCHANGED <<bet_data, touches>>
          \/ Show /\ UNCHANGED <<bet_data, all_df, touches>>

\* The user picks another option of a selectbox that is on the page.
Pick(menu, i) ==
  /\ touches < MaxTouches
  /\ menu.options[i] # Selected(store, menu)
  /\ Touch([w \in {menu} |-> i])
  /\ touches' = touches + 1
  /\ UNCHANGED <<bet_data, all_df>>

User == \E menu \in ToSet(display.sidebar) :
          \E i \in DOMAIN menu.options : Pick(menu, i)

\* Somebody puts another file in its place.
ReplaceFile ==
  /\ bet_data' \in Files \ {bet_data}
  /\ UNCHANGED <<streamlit, all_df, touches>>

Next == Server \/ User \/ ReplaceFile

\* The server works on; the user owes nothing, and files need not change.
Spec == Init /\ [][Next]_vars /\ WF_vars(Server)

-----------------------------------------------------------------------------
(***************************************************************************)
(* Properties.                                                             *)
(***************************************************************************)
\* The sidebar and the main area of a run that nothing interrupts.
SidebarOf(df, values) ==
  LET data == Data(df, values)
      menus == CASE Selected(values, PageMenu) = "league_tables"  -> <<TableMenu>>
                 [] Selected(values, PageMenu) = "results_matrix" -> << >>
                 [] Selected(values, PageMenu) = "head_to_head"   -> <<HomeMenu, AwayMenu>>
  IN  CASE df = EmptyFile -> << >>
        [] df # EmptyFile /\ (MatrixRaises(data) \/ data = << >>) ->
             <<PageMenu, SeasonMenu(df)>>
        [] OTHER -> <<PageMenu, SeasonMenu(df)>> \o menus

ColumnsOf(data, home, away) ==
  CASE home \notin TeamsOf(data) -> <<HeaderElement(home), ErrorElement("KeyError")>>
    [] home \in TeamsOf(data) /\ away \notin TeamsOf(data) ->
         <<HeaderElement(home), StatsElement(data, home),
           HeaderElement(away), ErrorElement("KeyError")>>
    [] OTHER ->
         <<HeaderElement(home), StatsElement(data, home),
           HeaderElement(away), StatsElement(data, away)>>

PageOf(data, values) ==
  CASE Selected(values, PageMenu) = "league_tables" ->
         <<TableElement(data, Selected(values, TableMenu))>>
    [] Selected(values, PageMenu) = "results_matrix" -> <<MatrixElement(data)>>
    [] Selected(values, PageMenu) = "head_to_head" ->
         ColumnsOf(data, Selected(values, HomeMenu), Selected(values, AwayMenu))

MainOf(df, values) ==
  LET data == Data(df, values)
  IN  CASE df = EmptyFile -> <<ErrorElement("EmptyDataError")>>
        [] df # EmptyFile /\ data = << >> -> <<ErrorElement("KeyError")>>
        [] df # EmptyFile /\ MatrixRaises(data) -> <<ErrorElement("IndexError")>>
        [] OTHER -> PageOf(data, values)

\* Widgets point at their options and the run is at one of its statements.
TypeOK ==
  /\ StreamlitTypeOK
  /\ pc \in StCalls \cup {"idle", "result_matrix", "end"}
  /\ touches \in 0 .. MaxTouches

(***************************************************************************)
(* However touches, runs given up half-way, exceptions and replaced files  *)
(* followed one another: a page at rest is the one page that belongs to    *)
(* the values its widgets show and to one reading of the file, with no     *)
(* element of an earlier run left and none missing.                        *)
(***************************************************************************)
RestingPageIsCurrent ==
  AtRest => /\ display.sidebar = SidebarOf(all_df, store)
            /\ display.main = MainOf(all_df, store)

(***************************************************************************)
(* The page and the season the user picked stay picked while other widgets *)
(* come and go, and while runs fail: both menus are drawn on every page    *)
(* before anything can raise, except for reading an empty file.  (The      *)
(* teams of the head-to-head page are forgotten when the user leaves it.)  *)
(***************************************************************************)
PageAndSeasonStayPicked ==
  [][touches' = touches /\ all_df # EmptyFile =>
       \A menu \in DOMAIN store \cap {PageMenu, SeasonMenu(all_df)} :
         menu \in DOMAIN store' /\ store'[menu] = store[menu]]_vars

(***************************************************************************)
(* When the user stops touching widgets the page comes to rest, also if    *)
(* runs were given up or failed on the way.                                *)
(***************************************************************************)
ComesToRest == <>[]AtRest

(***************************************************************************)
(* "see the analytics ... for your favourite team": a season that has a    *)
(* results matrix has the head-to-head page of any two teams of the menus. *)
(***************************************************************************)
FavouriteTeamsShown ==
  /\ AtRest /\ all_df # EmptyFile
  /\ ~MatrixRaises(Data(all_df, store)) /\ Data(all_df, store) # << >>
  => \A i \in DOMAIN display.main : display.main[i].kind # "exception"
=============================================================================
