------------------------------ MODULE Dashboard ------------------------------
(***************************************************************************)
(* The dashboard on the files the importer makes.  The importer writes     *)
(* data/bet_data.csv, the dashboard reads bet_data.csv: between the two    *)
(* somebody copies the one over the other, at any moment, also while the   *)
(* importer is writing or after it was killed.  What there is to copy is   *)
(* one of the Contents that BetImport promises, or the file it has just    *)
(* emptied, and so are the Files of PlApp here.                            *)
(***************************************************************************)
EXTENDS PlApp, SeasonFiles

ASSUME FilesAssumption == Files = Contents \cup {EmptyFile}

\* The season menus on the page.
SeasonMenus == {w \in ToSet(display.sidebar) : w.label = "season"}

\* The rows are a season as some download had it.
IsWhole(df) ==
  \E name \in Names : \E v \in Readable(name) : df = Frame(name, v)

(***************************************************************************)
(* Copying in the middle of an import, or after one that was killed, puts  *)
(* at most the last two entries of the season menu at risk: the season     *)
(* that was being written and the row that lost its season.  What a page   *)
(* at rest shows of any other season is all of that season.                *)
(***************************************************************************)
OlderSeasonsAreWhole ==
  AtRest => \A menu \in SeasonMenus :
    LET shown == IF menu \in DOMAIN store THEN store[menu] ELSE menu.index
    IN  shown < Len(menu.options) - 1 =>
          \A i \in DOMAIN display.main :
            display.main[i].kind \in
                {"calc_main_tables", "get_result_matrix", "calc_team_stats"} =>
              IsWhole(display.main[i].data)

(***************************************************************************)
(* "index=len(season_menu) - 1" (pl_app.py:52): the season menu of a page  *)
(* made from a finished import starts at the newest season, provided the   *)
(* import listed the files from the oldest to the newest.  (glob promises  *)
(* no order, and another listing may end with any season.)                 *)
(***************************************************************************)
OldestFirst(order) == \A i, j \in DOMAIN order : i < j => order[i][2] < order[j][2]

OrderedImports ==
  UNION {ImportsOf(order) : order \in
           {o \in UNION {Listings(S) : S \in (SUBSET Names) \ {{}}} : OldestFirst(o)}}

NewestSeasonByDefault ==
  AtRest /\ all_df \in OrderedImports =>
    \A menu \in SeasonMenus : \A i \in DOMAIN menu.options :
      menu.options[i][1] <= menu.options[menu.index][1]
=============================================================================
