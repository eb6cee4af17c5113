------------------------------ MODULE StockApp ------------------------------
(***************************************************************************)
(* stock_app.py, the candle pattern scanner: its script under Streamlit,   *)
(* in one browser session.                                                 *)
(*                                                                         *)
(* Most widgets sit in a form: what the user enters there stays in the     *)
(* browser, and starts no run, until a button of that form is pressed.     *)
(***************************************************************************)
EXTENDS StockDb, Streamlit

CONSTANTS
  Databases,   \* what app.db may hold
  LastDate,    \* days are 1 .. LastDate
  EarliestDate, Today,
  MaxTouches   \* a bound on how often the user touches a widget

VARIABLES
  db,        \* app.db
  html,      \* TRUE when the two trading_view files are there
  stocks,    \* the rows of the run's query that are not drawn yet
  edits,     \* values entered in a form and not submitted
  touches,   \* how often the user has touched a widget
  asked,     \* history: the buttons pressed since the last run began
  answering  \* history: the buttons pressed before the last run began

user == <<edits, touches>>
presses == <<asked, answering>>
vars == <<streamlit, db, html, stocks, user, presses>>

ASSUME DatabasesAssumption == \A d \in Databases : IsDatabase(d)
ASSUME DatesAssumption == EarliestDate \in 1 .. LastDate /\ Today \in 1 .. LastDate
ASSUME TouchesAssumption == MaxTouches \in Nat

-----------------------------------------------------------------------------
(***************************************************************************)
(* The widgets of the sidebar.                                             *)
(***************************************************************************)
PageMenu == Selectbox("Page", <<"Home", "View Stocks">>, 1)

\* Mutant: days counted from zero.
DateInputFromZero(label, date) == Selectbox(label, [d \in 1 .. LastDate |-> d], date - 1)

DateInput(label, date) == Selectbox(label, [d \in 1 .. LastDate |-> d], date)

PatternSelector == Selectbox("Select Pattern:", PatternIds(db), 1)
StartDate   == DateInput("Start Date:", EarliestDate)
EndDate     == DateInput("End Date:", Today)
MarkDate    == DateInput("Pattern Detection Date:", Today)
ScanPattern == Button("Scan Selected Pattern")
ScanAll     == Button("Scan All Top Patterns")
StockPool   == Selectbox("Choose stock ticker to display:", StockIds(db), 1)
DisplayBtn  == Button("Display stocks")

HomeForm  == <<PatternSelector, StartDate, EndDate, MarkDate, ScanPattern, ScanAll>>
StockForm == <<StockPool, DisplayBtn>>

Pressed(values, button) == Selected(values, button) = "pressed"

-----------------------------------------------------------------------------
(***************************************************************************)
(* What the pages show.                                                    *)
(***************************************************************************)
Element(kind, content) == [kind |-> kind, content |-> content]

\* Both buttons can be pressed before a run begins; the selected pattern wins.
ScannedPatterns(values) ==
  IF Pressed(values, ScanPattern) THEN {Selected(values, PatternSelector)}
                                  ELSE TopPatterns(db)

\* The rows that a scan with these widget values finds,
Found(values) == PageData(db, ScannedPatterns(values), Selected(values, MarkDate))

\* and those of them that can be drawn.
Valued(values) == {row \in Found(values) : row.momentum.value # NULL}

\* A heading and a chart, shaded from the mark date to the end date.
Chart(row, values) ==
  LET start == Selected(values, StartDate)
      end   == Selected(values, EndDate)
  IN  Element("chart", [stock |-> row.stock.code, pattern |-> row.pattern.pattern_id,
                        bars |-> {p.date : p \in GraphData(db, row.stock, start, end)},
                        x0 |-> Selected(values, MarkDate), x1 |-> end])

\* Mutant: the bullish column takes the bearish rows.
TrendColumnSwapped(row) == IF row.momentum.value > 0 THEN "col2" ELSE "col1"

TrendColumn(row) == IF row.momentum.value > 0 THEN "col1" ELSE "col2"

\* "sh.600000" is shown as "SSE:600000"; a code is the sequence of the parts
\* that its dots separate.
Ticker(code) == << IF code[1] = "sh" THEN "SSE" ELSE "SZSE", code[2] >>

\* A selectbox returns None only when there is nothing to select.  A code of
\* more or less than two parts cannot be unpacked.
StockElement(values) ==
  IF StockPool.options = << >> THEN Element("error", "No Stocks are selected yet.")
  ELSE LET code == StockOf(db, Selected(values, StockPool)).code
       IN  IF Len(code) = 2 THEN Element("candle_widget", Ticker(code))
                            ELSE Element("exception", "ValueError")

-----------------------------------------------------------------------------
(***************************************************************************)
(* The script, one action per statement that draws or reads.               *)
(***************************************************************************)
Init ==
  /\ Open
  /\ db \in Databases /\ html \in BOOLEAN
  /\ stocks = << >> /\ edits = << >> /\ touches = 0
  /\ asked = {} /\ answering = {}

\* Statements that begin with an st call, where a run can be given up.
StCalls == {"page_menu", "home_title", "home_form", "headings", "warning", "chart",
            "display_title", "markets", "display_form", "display"}

Load == pc = "load" /\ Compute("page_menu")

DrawPageMenu ==
  /\ pc = "page_menu"
  /\ Draw("sidebar", PageMenu,
          IF Selected(states, PageMenu) = "Home" THEN "home_title" ELSE "open_widgets")

\* The next widget of a form; the page menu is above it.
DrawForm(form, next) ==
  Draw("sidebar", form[cursor.sidebar], IF cursor.sidebar = Len(form) THEN next ELSE pc)

\* The texts below the form and above the columns are left out of display.
HomePage ==
  \/ pc = "home_title" /\ Draw("main", Element("title", "Candle Pattern Scanner"), "home_form")
  \/ pc = "home_form" /\ DrawForm(HomeForm, "headings")
  \/ /\ pc = "headings" /\ ~rerun
     /\ Compute(IF Pressed(states, ScanPattern) \/ Pressed(states, ScanAll) THEN "query" ELSE "end")
  \/ pc = "warning" /\ Draw("main", Element("warning", "No such pattern(s) was found!"), "end")

Query ==
  /\ pc = "query"
  /\ stocks' \in SetToSeqs(Found(states))
  /\ Compute(IF Found(states) = {} THEN "warning" ELSE "chart")

\* A momentum without a value cannot be compared with 0.  The spinner around
\* the loop is closed by an st call, however the loop ends.
DrawChart ==
  /\ pc = "chart"
  /\ \/ /\ stocks # << >> /\ Head(stocks).momentum.value # NULL
        /\ Draw(TrendColumn(Head(stocks)), Chart(Head(stocks), states), "chart")
        /\ stocks' = Tail(stocks)
     \/ /\ stocks # << >> /\ Head(stocks).momentum.value = NULL
        /\ ~rerun /\ Raise(Element("exception", "TypeError"))
        /\ UNCHANGED stocks
     \/ stocks = << >> /\ ~rerun /\ Compute("end") /\ UNCHANGED stocks

DisplayPage ==
  \/ pc = "open_widgets" /\ ~html /\ Raise(Element("exception", "FileNotFoundError"))
  \/ pc = "open_widgets" /\ html /\ Compute("display_title")
  \/ pc = "display_title" /\ Draw("main", Element("title", "Stock Price Chart"), "markets")
  \/ pc = "markets" /\ Draw("main", Element("market_widget", ""), "display_form")
  \/ /\ pc = "display_form"
     /\ DrawForm(StockForm, IF Pressed(states, DisplayBtn) THEN "ticker" ELSE "end")
  \/ /\ pc = "ticker" /\ StockElement(states).kind = "exception"
     /\ Raise(StockElement(states))
  \/ pc = "ticker" /\ StockElement(states).kind # "exception" /\ Compute("display")
  \/ pc = "display" /\ Draw("main", StockElement(states), "end")

Show ==
  \/ (Load \/ DrawPageMenu \/ HomePage \/ DisplayPage) /\ UNCHANGED <<stocks, edits, presses>>
  \/ (Query \/ DrawChart) /\ UNCHANGED <<edits, presses>>
  \/ /\ StartRun(StCalls) /\ asked' = {} /\ answering' = asked
     /\ UNCHANGED <<stocks, edits>>
  \/ /\ EndRun
     /\ edits' = [w \in DOMAIN edits \cap ToSet(display'.sidebar) |-> edits[w]]
     /\ UNCHANGED <<stocks, presses>>

Server == Show /\ UNCHANGED <<db, html, touches>>

-----------------------------------------------------------------------------
(***************************************************************************)
(* The user, on the widgets that are on the page.                          *)
(***************************************************************************)
OnPage == ToSet(display.sidebar)

PickPage(i) ==
  /\ PageMenu \in OnPage /\ PageMenu.options[i] # Selected(store, PageMenu)
  /\ Touch([w \in {PageMenu} |-> i])
  /\ UNCHANGED <<edits, asked>>

Edit(widget, i) ==
  /\ widget.options[i] # Selected(Updated(store, edits), widget)
  /\ edits' = Updated(edits, [w \in {widget} |-> i])
  /\ UNCHANGED <<streamlit, asked>>

\* Pressing a button sends what was entered in its form.
Submit(form, button) ==
  LET sent == DOMAIN edits \cap ToSet(form)
  IN  /\ Touch([w \in sent \cup {button} |-> IF w = button THEN 2 ELSE edits[w]])
      /\ edits' = [w \in DOMAIN edits \ sent |-> edits[w]]
      /\ asked' = asked \cup {button}

User ==
  /\ touches < MaxTouches /\ touches' = touches + 1
  /\ \/ \E i \in DOMAIN PageMenu.options : PickPage(i)
     \/ \E form \in {HomeForm, StockForm} : \E w \in ToSet(form) \cap OnPage :
          \/ ~w.button /\ \E i \in DOMAIN w.options : Edit(w, i)
          \/ w.button /\ Submit(form, w)
  /\ UNCHANGED <<db, html, stocks, answering>>

Next == Server \/ User

\* The server works on; the user owes nothing.
Spec == Init /\ [][Next]_vars /\ WF_vars(Server)

-----------------------------------------------------------------------------
(***************************************************************************)
(* Properties.                                                             *)
(***************************************************************************)
TypeOK ==
  /\ StreamlitTypeOK
  /\ pc \in StCalls \cup {"idle", "load", "query", "open_widgets", "ticker", "end"}
  /\ \A w \in DOMAIN edits : ~w.button /\ edits[w] \in DOMAIN w.options
  /\ ToSet(stocks) \subseteq Joined(db)
  /\ asked \cup answering \subseteq {ScanPattern, ScanAll, DisplayBtn}
  /\ touches \in 0 .. MaxTouches

\* What the last run was asked for: the values it left submitted, and the
\* buttons pressed before it began.
Asked == Updated(store, [b \in answering |-> 2])

IsHome == Selected(store, PageMenu) = "Home"
IsScan == IsHome /\ answering \cap {ScanPattern, ScanAll} # {}

SidebarOf == CASE IsHome          -> <<PageMenu>> \o HomeForm
               [] ~IsHome /\ html  -> <<PageMenu>> \o StockForm
               [] ~IsHome /\ ~html -> <<PageMenu>>

MainOf ==
  CASE IsHome -> << Element("title", "Candle Pattern Scanner") >>
                   \o CASE IsScan /\ Found(Asked) = {} ->
                               << Element("warning", "No such pattern(s) was found!") >>
                        [] IsScan /\ Found(Asked) # Valued(Asked) ->
                               << Element("exception", "TypeError") >>
                        [] OTHER -> << >>
    [] ~IsHome /\ html -> << Element("title", "Stock Price Chart"), Element("market_widget", "") >>
                            \o IF DisplayBtn \in answering THEN << StockElement(Asked) >>
                                                           ELSE << >>
    [] OTHER -> << Element("exception", "FileNotFoundError") >>

\* The rows with charts: all those of a scan, or any with a value when one
\* without has stopped it.
Drawings ==
  CASE ~IsScan                                -> {{}}
    [] IsScan /\ Found(Asked) = Valued(Asked) -> {Found(Asked)}
    [] IsScan /\ Found(Asked) # Valued(Asked) -> SUBSET Valued(Asked)

\* The bullish rows in the first column, the others in the second.
ColumnOf(area, rows) == {row \in rows : row.momentum.value > 0 <=> area = "col1"}

\* The column holds one chart for each of these rows.
ShowsOnce(area, rows) ==
  LET charts == display[area]
  IN  /\ Len(charts) = Cardinality(rows)
      /\ \A row \in rows :
           Cardinality({i \in DOMAIN charts : charts[i] = Chart(row, Asked)})
             = Cardinality({r \in rows : Chart(r, Asked) = Chart(row, Asked)})

(***************************************************************************)
(* However presses, edits, changes of page and runs given up half-way      *)
(* followed one another: a page at rest shows the answer to exactly the    *)
(* presses made before its last run began.  The charts are all those of    *)
(* one scan with the values its form was submitted with, each in the       *)
(* column of its trend, none of an earlier scan and none for values that   *)
(* were entered but not submitted; without a press there are none.  When   *)
(* one of the rows found has no momentum the page says so in every case,   *)
(* and the charts, which are those of the rows before it, are still of     *)
(* this scan, each once and in its column.                                 *)
(***************************************************************************)
RestingPageAnswers ==
  AtRest => /\ display.sidebar = SidebarOf
            /\ display.main = MainOf
            /\ \E rows \in Drawings :
                 \A area \in {"col1", "col2"} : ShowsOnce(area, ColumnOf(area, rows))

(***************************************************************************)
(* A chart is there to show the candles around the day a pattern was       *)
(* recognised in a stock.  Each one has such a recognition behind it, for  *)
(* its stock, pattern, trend and shaded day, and has the candle of that    *)
(* day whenever the dates of the chart, which are entered independently,   *)
(* leave it in.                                                            *)
(***************************************************************************)
IsRecognised(chart, area) ==
  \E s \in ToSet(db.stock_list), p \in db.stock_prices, m \in db.stock_momentums :
    /\ s.code = chart.stock /\ p.stock_id = s.stock_id /\ p.date = chart.x0
    /\ m.price_id = p.price_id /\ m.pattern_id = chart.pattern
    /\ m.value # NULL /\ (m.value > 0 <=> area = "col1")
    /\ p.date \in Selected(store, StartDate) .. Selected(store, EndDate) => p.date \in chart.bars

ChartsShowRecognisedDays ==
  AtRest => \A area \in {"col1", "col2"} : \A i \in DOMAIN display[area] :
              IsRecognised(display[area][i].content, area)

\* When the user stops touching widgets the page comes to rest.
ComesToRest == <>[]AtRest
=============================================================================
