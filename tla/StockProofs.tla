----------------------------- MODULE StockProofs -----------------------------
(***************************************************************************)
(* The page of the candle pattern scanner, for every database, every range *)
(* of days and any number of touches.                                      *)
(*                                                                         *)
(* As for the dashboard, the invariant says at each statement what the run *)
(* has drawn so far and which values led it there.  A scan needs one thing *)
(* more: the charts in the columns and the rows that are left of its query *)
(* make up the rows that it found, each row once, and no row without a     *)
(* momentum has been drawn.                                                *)
(***************************************************************************)
EXTENDS StockApp, FiniteSetTheorems, TLAPS

IsSeq(s) == \E S : s \in Seq(S)

\* The first n elements in an area of the page are those of s; stale ones may
\* follow.
Begins(shown, n, s) == n <= Len(s) /\ \A i \in 1 .. n : shown[i] = s[i]

-----------------------------------------------------------------------------
(***************************************************************************)
(* The page of a run that reads these values.                              *)
(***************************************************************************)
HomeTitle == Element("title", "Candle Pattern Scanner")
Warning   == Element("warning", "No such pattern(s) was found!")
PageTitle == Element("title", "Stock Price Chart")
Markets   == Element("market_widget", "")
NoFile    == Element("exception", "FileNotFoundError")
NoValue   == Element("exception", "TypeError")

HomeRun(values) == Selected(values, PageMenu) = "Home"
ScanRun(values) == HomeRun(values) /\ (Pressed(values, ScanPattern) \/ Pressed(values, ScanAll))

SidebarFor(values) ==
  CASE HomeRun(values)           -> <<PageMenu>> \o HomeForm
    [] ~HomeRun(values) /\ html  -> <<PageMenu>> \o StockForm
    [] ~HomeRun(values) /\ ~html -> <<PageMenu>>

MainFor(values) ==
  CASE HomeRun(values) ->
         IF ScanRun(values) /\ Found(values) = {} THEN <<HomeTitle, Warning>>
         ELSE IF ScanRun(values) /\ Found(values) # Valued(values) THEN <<HomeTitle, NoValue>>
         ELSE <<HomeTitle>>
    [] ~HomeRun(values) /\ html ->
         IF Pressed(values, DisplayBtn) THEN <<PageTitle, Markets, StockElement(values)>>
                                        ELSE <<PageTitle, Markets>>
    [] ~HomeRun(values) /\ ~html -> <<NoFile>>

InColumn(area, rows) == {row \in rows : TrendColumn(row) = area}

\* What the rows with charts can be when it has ended.
DrawingsFor(values) ==
  IF ~ScanRun(values) THEN {{}}
  ELSE IF Found(values) = Valued(values) THEN {Found(values)}
  ELSE SUBSET Valued(values)

\* How much of it has been drawn when the run is at statement p,
SidebarAt(p, n, sidebar) ==
  /\ p \in {"load", "page_menu"} => n = 0
  /\ p \in {"home_title", "open_widgets", "display_title", "markets"} => n = 1
  /\ p = "home_form" => n \in 1 .. 6
  /\ p \in {"headings", "query", "warning", "chart"} => n = 7
  /\ p = "display_form" => n \in 1 .. 2
  /\ p \in {"ticker", "display"} => n = 3
  /\ p = "end" => n = Len(sidebar)

MainAt(p, n, main) ==
  /\ p \in {"load", "page_menu", "home_title", "open_widgets", "display_title"} => n = 0
  /\ p \in {"home_form", "headings", "query", "warning", "chart", "markets"} => n = 1
  /\ p \in {"display_form", "ticker", "display"} => n = 2
  /\ p = "end" => n = Len(main)

\* and what led it there.
BranchAt(p, values) ==
  /\ p \in {"home_title", "home_form", "headings", "query", "warning", "chart"} => HomeRun(values)
  /\ p \in {"open_widgets", "display_title", "markets", "display_form", "ticker", "display"} =>
       ~HomeRun(values)
  /\ p \in {"display_title", "markets", "display_form", "ticker", "display"} => html
  /\ p \in {"query", "warning", "chart"} => ScanRun(values)
  /\ p = "warning" => Found(values) = {}
  /\ p = "chart" => Found(values) # {}
  /\ p \in {"ticker", "display"} => Pressed(values, DisplayBtn)

\* The first n elements of a column are one chart for each of these rows.
Charts(shown, n, rows, values) ==
  \E r \in Bijection(1 .. n, rows) : \A i \in 1 .. n : shown[i] = Chart(r[i], values)

\* The columns hold the charts of these rows and no others.
HasCharts(rows) ==
  \A area \in {"col1", "col2"} :
    Charts(display[area], cursor[area], InColumn(area, rows), states)

\* A scan has drawn what it has taken off the rows of its query.
ColumnsAt(p) ==
  /\ p = "chart" =>
       /\ ToSet(stocks) \subseteq Found(states) /\ IsInjective(stocks)
       /\ Found(states) \ ToSet(stocks) \subseteq Valued(states)
       /\ HasCharts(Found(states) \ ToSet(stocks))
  /\ p = "end" => \E rows \in DrawingsFor(states) : HasCharts(rows)
  /\ p \notin {"chart", "end"} => cursor["col1"] = 0 /\ cursor["col2"] = 0

\* What a run at p has drawn of this sidebar and of this main area.
DrawnAt(p, sidebar, main) ==
  /\ SidebarAt(p, cursor["sidebar"], sidebar) /\ MainAt(p, cursor["main"], main)
  /\ Begins(display["sidebar"], cursor["sidebar"], sidebar)
  /\ Begins(display["main"], cursor["main"], main)

RunAt(p) == BranchAt(p, states) /\ DrawnAt(p, SidebarFor(states), MainFor(states)) /\ ColumnsAt(p)

-----------------------------------------------------------------------------
Widgets == {PageMenu} \cup ToSet(HomeForm) \cup ToSet(StockForm)
Buttons == {ScanPattern, ScanAll, DisplayBtn}
Statements == StCalls \cup {"load", "query", "open_widgets", "ticker", "end"}

PageOK ==
  /\ DOMAIN display = Areas
  /\ \A a \in Areas : IsSeq(display[a])
  /\ cursor \in [Areas -> Nat]
  /\ \A a \in Areas : cursor[a] <= Len(display[a])

ControlOK ==
  /\ rerun \in BOOLEAN /\ pc \in Statements \cup {"idle"} /\ touches \in 0 .. MaxTouches
  /\ db \in Databases /\ html \in BOOLEAN /\ stocks \in Seq(Joined(db))

\* Every value is one of its widget's options, no button is edited, and the
\* widgets in the sidebar, stale ones included, are those of the script.
HaveOptions(values) == \A w \in DOMAIN values : values[w] \in DOMAIN w.options

ValuesOK ==
  /\ HaveOptions(store) /\ HaveOptions(states) /\ HaveOptions(edits)
  /\ \A w \in DOMAIN edits : ~w.button

SidebarOK == \A i \in DOMAIN display["sidebar"] : display["sidebar"][i] \in Widgets

\* Buttons are pressed in the browser until a run begins, and in that run.
PressedIn(values, buttons) ==
  /\ buttons \subseteq Buttons
  /\ \A w : w.button => (w \in DOMAIN values <=> w \in buttons)
  /\ \A w \in buttons : values[w] = 2

ButtonsOK == PressedIn(store, asked) /\ PressedIn(states, answering) /\ (asked # {} => rerun)

\* Between runs the page is that of the last run unless a touch has come in.
RunOK ==
  /\ pc # "idle" => RunAt(pc)
  /\ AtRest => RunAt("end") /\ \A a \in Areas : Len(display[a]) = cursor[a]

\* Without a new touch the run reads what is in the browser.
RemembersOK ==
  ~rerun =>
    \A w : ~w.button /\ (pc = "idle" => w \in ToSet(display["sidebar"])) =>
      /\ w \in DOMAIN store <=> w \in DOMAIN states
      /\ w \in DOMAIN store => store[w] = states[w]

Inv == PageOK /\ ControlOK /\ ValuesOK /\ SidebarOK /\ ButtonsOK /\ RunOK /\ RemembersOK

-----------------------------------------------------------------------------
(***************************************************************************)
(* Drawing.                                                                *)
(***************************************************************************)
\* An element is drawn after those the run has drawn already, and nothing else
\* on the page changes.
Drawn(area, element) ==
  /\ cursor'[area] = cursor[area] + 1
  /\ display'[area][cursor[area] + 1] = element
  /\ \A i \in 1 .. cursor[area] : display'[area][i] = display[area][i]
  /\ \A i \in DOMAIN display'[area] :
       \/ display'[area][i] = element
       \/ i \in DOMAIN display[area] /\ display'[area][i] = display[area][i]
  /\ \A a \in Areas \ {area} : cursor'[a] = cursor[a] /\ display'[a] = display[a]

LEMMA EmitDraws ==
  ASSUME PageOK, NEW area \in Areas, NEW element, Emit(area, element)
  PROVE  PageOK' /\ Drawn(area, element)
<1> DEFINE n == cursor[area] + 1
           d == display[area]
           e == IF n \in DOMAIN d THEN [d EXCEPT ![n] = element] ELSE Append(d, element)
<1>1. PICK S : d \in Seq(S)
  BY DEF PageOK, IsSeq
<1>2. cursor[area] \in Nat /\ n \in Nat /\ cursor[area] <= Len(d)
  BY DEF PageOK
<1>3. /\ cursor' = [cursor EXCEPT ![area] = n]
      /\ display' = [display EXCEPT ![area] = e]
  BY DEF Emit
<1>4. /\ cursor'[area] = n /\ display'[area] = e
      /\ cursor' \in [Areas -> Nat] /\ DOMAIN display' = Areas
      /\ \A a \in Areas \ {area} : cursor'[a] = cursor[a] /\ display'[a] = display[a]
  <2> HIDE DEF e
  <2> QED
    BY <1>2, <1>3 DEF PageOK
<1>5. /\ e \in Seq(S \cup {element}) /\ n <= Len(e) /\ e[n] = element
      /\ \A i \in 1 .. cursor[area] : e[i] = d[i]
      /\ \A i \in DOMAIN e : e[i] = element \/ (i \in DOMAIN d /\ e[i] = d[i])
  <2>1. CASE n \in DOMAIN d
    BY <1>1, <1>2, <2>1
  <2>2. CASE n \notin DOMAIN d
    <3>1. n = Len(d) + 1
      BY <1>1, <1>2, <2>2
    <3> QED
      BY <1>1, <1>2, <2>2, <3>1
  <2> QED
    BY <2>1, <2>2
<1> HIDE DEF e
<1>6. /\ \A a \in Areas : IsSeq(display'[a])
      /\ \A a \in Areas : cursor'[a] <= Len(display'[a])
  BY <1>4, <1>5 DEF PageOK, IsSeq
<1>7. PageOK'
  BY <1>4, <1>6 DEF PageOK
<1>8. Drawn(area, element)
  BY <1>4, <1>5 DEF Drawn
<1> QED
  BY <1>7, <1>8

\* If it is the next element of s, the area still begins like s.
LEMMA DrawnBegins ==
  ASSUME PageOK, NEW area \in Areas, NEW element, Drawn(area, element), NEW s,
         Begins(display[area], cursor[area], s),
         cursor[area] + 1 <= Len(s), s[cursor[area] + 1] = element
  PROVE  Begins(display'[area], cursor'[area], s)
<1>1. cursor[area] \in Nat
  BY DEF PageOK
<1>2. \A i \in 1 .. cursor[area] + 1 : i \in 1 .. cursor[area] \/ i = cursor[area] + 1
  BY <1>1
<1> QED
  BY <1>1, <1>2 DEF Drawn, Begins

\* Two sequences of the same elements are the same.
LEMMA SameSeq ==
  ASSUME NEW s, NEW t, IsSeq(s), IsSeq(t), Len(s) = Len(t),
         \A i \in 1 .. Len(s) : s[i] = t[i]
  PROVE  s = t
<1>1. PICK S, T : s \in Seq(S) /\ t \in Seq(T)
  BY DEF IsSeq
<1>2. s = [i \in 1 .. Len(s) |-> s[i]] /\ t = [i \in 1 .. Len(t) |-> t[i]]
  BY <1>1
<1> QED
  BY <1>2

-----------------------------------------------------------------------------
(***************************************************************************)
(* The widgets and the pages.                                              *)
(***************************************************************************)
\* The widgets of the two forms, in their order.
LEMMA Forms ==
  /\ IsSeq(HomeForm) /\ Len(HomeForm) = 6
  /\ HomeForm[1] = PatternSelector /\ HomeForm[2] = StartDate /\ HomeForm[3] = EndDate
  /\ HomeForm[4] = MarkDate /\ HomeForm[5] = ScanPattern /\ HomeForm[6] = ScanAll
  /\ IsSeq(StockForm) /\ Len(StockForm) = 2
  /\ StockForm[1] = StockPool /\ StockForm[2] = DisplayBtn
<1>1. ASSUME NEW a, NEW b, NEW c, NEW d, NEW e, NEW f
      PROVE  <<a, b, c, d, e, f>> \in Seq({a, b, c, d, e, f})
  OBVIOUS
<1>2. ASSUME NEW a, NEW b
      PROVE  <<a, b>> \in Seq({a, b})
  OBVIOUS
<1>3. IsSeq(HomeForm) /\ IsSeq(StockForm)
  BY <1>1, <1>2 DEF IsSeq, HomeForm, StockForm
<1> QED
  BY <1>3 DEF HomeForm, StockForm

LEMMA FormSets ==
  /\ ToSet(HomeForm) = {PatternSelector, StartDate, EndDate, MarkDate, ScanPattern, ScanAll}
  /\ ToSet(StockForm) = {StockPool, DisplayBtn}
<1>1. ASSUME NEW a, NEW b, NEW c, NEW d, NEW e, NEW f
      PROVE  ToSet(<<a, b, c, d, e, f>>) = {a, b, c, d, e, f}
  BY DEF ToSet
<1>2. ASSUME NEW a, NEW b
      PROVE  ToSet(<<a, b>>) = {a, b}
  BY DEF ToSet
<1> QED
  BY <1>1, <1>2 DEF HomeForm, StockForm

\* Three of the widgets are buttons.
LEMMA ButtonsOfWidgets ==
  /\ \A b \in Buttons : b.button /\ b.options = <<"released", "pressed">> /\ b.index = 1
  /\ \A w \in Widgets : w.button => w \in Buttons
  /\ ~PageMenu.button /\ ~PatternSelector.button /\ ~StartDate.button /\ ~EndDate.button
  /\ ~MarkDate.button /\ ~StockPool.button
<1>1. /\ ~PageMenu.button /\ ~PatternSelector.button /\ ~StartDate.button /\ ~EndDate.button
      /\ ~MarkDate.button /\ ~StockPool.button
  BY DEF PageMenu, PatternSelector, StartDate, EndDate, MarkDate, StockPool, DateInput, Selectbox
<1>2. \A b \in Buttons : b.button /\ b.options = <<"released", "pressed">> /\ b.index = 1
  <2>1. ASSUME NEW label
        PROVE  LET b == Button(label)
               IN  b.button /\ b.options = <<"released", "pressed">> /\ b.index = 1
    BY DEF Button
  <2>2. /\ ScanPattern = Button("Scan Selected Pattern")
        /\ ScanAll = Button("Scan All Top Patterns")
        /\ DisplayBtn = Button("Display stocks")
    BY DEF ScanPattern, ScanAll, DisplayBtn
  <2> QED
    BY <2>1, <2>2 DEF Buttons
<1> QED
  BY <1>1, <1>2, FormSets DEF Widgets, Buttons

\* A widget is pressed when it is in such values.
LEMMA PressedValues ==
  ASSUME NEW values, NEW buttons, PressedIn(values, buttons), NEW b \in Buttons
  PROVE  Pressed(values, b) <=> b \in buttons
<1>1. b.options = <<"released", "pressed">> /\ b.index = 1 /\ b.button
  BY ButtonsOfWidgets
<1>2. /\ b \in DOMAIN values <=> b \in buttons
      /\ b \in buttons => values[b] = 2
  BY <1>1 DEF PressedIn
<1>3. <<"released", "pressed">> # << >> /\ "released" # "pressed"
  OBVIOUS
<1>4. Selected(values, b) = IF b \in buttons THEN "pressed" ELSE "released"
  BY <1>1, <1>2, <1>3 DEF Selected
<1> QED
  BY <1>3, <1>4 DEF Pressed

\* A tuple is a sequence of its elements.
LEMMA TuplesAreSeqs ==
  /\ IsSeq(<< >>)
  /\ \A a : IsSeq(<<a>>)
  /\ \A a, b : IsSeq(<<a, b>>)
  /\ \A a, b, c : IsSeq(<<a, b, c>>)
<1>1. << >> \in Seq({}) /\ \A a : <<a>> \in Seq({a})
  OBVIOUS
<1>2. \A a, b : <<a, b>> \in Seq({a, b})
  OBVIOUS
<1>3. \A a, b, c : <<a, b, c>> \in Seq({a, b, c})
  OBVIOUS
<1> QED
  BY <1>1, <1>2, <1>3 DEF IsSeq

\* A form below the page menu.
LEMMA MenuAndForm ==
  ASSUME NEW form, IsSeq(form)
  PROVE  LET s == <<PageMenu>> \o form
         IN  /\ IsSeq(s) /\ Len(s) = Len(form) + 1 /\ Len(form) \in Nat /\ s[1] = PageMenu
             /\ \A i \in 1 .. Len(form) : s[i + 1] = form[i]
<1>1. PICK S : form \in Seq(S)
  BY DEF IsSeq
<1>2. form \in Seq(S \cup {PageMenu}) /\ <<PageMenu>> \in Seq(S \cup {PageMenu})
  BY <1>1
<1> DEFINE s == <<PageMenu>> \o form
<1>3. /\ s \in Seq(S \cup {PageMenu}) /\ Len(s) = Len(form) + 1 /\ Len(form) \in Nat
      /\ s[1] = PageMenu /\ \A i \in 1 .. Len(form) : s[i + 1] = form[i]
  BY <1>2
<1> QED
  BY <1>3 DEF IsSeq

\* The three sidebars, element by element.
LEMMA Sidebars ==
  ASSUME NEW values, html \in BOOLEAN, NEW s, s = SidebarFor(values)
  PROVE  /\ IsSeq(s) /\ Len(s) \in 1 .. 7 /\ s[1] = PageMenu
         /\ HomeRun(values) => Len(s) = 7 /\ \A i \in 1 .. 6 : s[i + 1] = HomeForm[i]
         /\ ~HomeRun(values) /\ html => Len(s) = 3 /\ \A i \in 1 .. 2 : s[i + 1] = StockForm[i]
         /\ ~HomeRun(values) /\ ~html => Len(s) = 1
<1> DEFINE IsMenuAnd(form) == /\ IsSeq(s) /\ Len(s) = Len(form) + 1 /\ s[1] = PageMenu
                             /\ \A i \in 1 .. Len(form) : s[i + 1] = form[i]
<1>1. HomeRun(values) => IsMenuAnd(HomeForm)
  <2>1. HomeRun(values) => s = <<PageMenu>> \o HomeForm
    BY DEF SidebarFor
  <2> QED
    BY <2>1, MenuAndForm, Forms
<1>2. ~HomeRun(values) /\ html => IsMenuAnd(StockForm)
  <2>1. ~HomeRun(values) /\ html => s = <<PageMenu>> \o StockForm
    BY DEF SidebarFor
  <2> QED
    BY <2>1, MenuAndForm, Forms
<1>3. ~HomeRun(values) /\ ~html => IsSeq(s) /\ Len(s) = 1 /\ s[1] = PageMenu
  <2>1. ~HomeRun(values) /\ ~html => s = <<PageMenu>>
    BY DEF SidebarFor
  <2>2. IsSeq(<<PageMenu>>) /\ Len(<<PageMenu>>) = 1 /\ <<PageMenu>>[1] = PageMenu
    BY TuplesAreSeqs
  <2> QED
    BY <2>1, <2>2
<1>4. Len(HomeForm) = 6 /\ Len(StockForm) = 2
  BY Forms
<1> QED
  BY <1>1, <1>2, <1>3, <1>4

\* The six pages, element by element.
LEMMA Mains ==
  ASSUME NEW values, html \in BOOLEAN, NEW s, s = MainFor(values)
  PROVE  /\ IsSeq(s) /\ Len(s) \in 1 .. 3
         /\ HomeRun(values) =>
              /\ s[1] = HomeTitle
              /\ ScanRun(values) /\ Found(values) = {} => Len(s) = 2 /\ s[2] = Warning
              /\ ScanRun(values) /\ Found(values) # Valued(values) => Len(s) = 2 /\ s[2] = NoValue
              /\ ~ScanRun(values) => Len(s) = 1
              /\ Found(values) # {} /\ Found(values) = Valued(values) => Len(s) = 1
         /\ ~HomeRun(values) /\ html =>
              /\ s[1] = PageTitle /\ s[2] = Markets
              /\ Pressed(values, DisplayBtn) => Len(s) = 3 /\ s[3] = StockElement(values)
              /\ ~Pressed(values, DisplayBtn) => Len(s) = 2
         /\ ~HomeRun(values) /\ ~html => Len(s) = 1 /\ s[1] = NoFile
<1>1. CASE HomeRun(values)
  <2>1. s = IF ScanRun(values) /\ Found(values) = {} THEN <<HomeTitle, Warning>>
            ELSE IF ScanRun(values) /\ Found(values) # Valued(values) THEN <<HomeTitle, NoValue>>
            ELSE <<HomeTitle>>
    BY <1>1 DEF MainFor
  <2>2. Valued(values) \subseteq Found(values)
    BY DEF Valued
  <2>3. Found(values) = {} => Found(values) = Valued(values)
    BY <2>2
  <2> QED
    BY <1>1, <2>1, <2>3, TuplesAreSeqs
<1>2. CASE ~HomeRun(values) /\ html
  <2>1. s = IF Pressed(values, DisplayBtn) THEN <<PageTitle, Markets, StockElement(values)>>
                                           ELSE <<PageTitle, Markets>>
    BY <1>2 DEF MainFor
  <2> QED
    BY <1>2, <2>1, TuplesAreSeqs
<1>3. CASE ~HomeRun(values) /\ ~html
  <2>1. s = <<NoFile>>
    BY <1>3 DEF MainFor
  <2> QED
    BY <1>3, <2>1, TuplesAreSeqs
<1> QED
  BY <1>1, <1>2, <1>3

\* As long as database and files stay, the pages depend on the values alone.
SamePages(values) ==
  /\ Widgets' = Widgets /\ HomeForm' = HomeForm /\ StockForm' = StockForm
  /\ HomeRun(states)' <=> HomeRun(values)
  /\ ScanRun(states)' <=> ScanRun(values)
  /\ Pressed(states, DisplayBtn)' <=> Pressed(values, DisplayBtn)
  /\ SidebarFor(states)' = SidebarFor(values)
  /\ MainFor(states)' = MainFor(values)
  /\ Found(states)' = Found(values) /\ Valued(states)' = Valued(values)
  /\ DrawingsFor(states)' = DrawingsFor(values)
  /\ \A row : Chart(row, states)' = Chart(row, values)

LEMMA PagesStay ==
  ASSUME NEW values, states' = values, db' = db, html' = html
  PROVE  SamePages(values)
<1>1. PatternSelector' = PatternSelector /\ StockPool' = StockPool
  BY DEF PatternSelector, StockPool
<1>2. /\ PageMenu' = PageMenu /\ StartDate' = StartDate /\ EndDate' = EndDate
      /\ MarkDate' = MarkDate /\ ScanPattern' = ScanPattern /\ ScanAll' = ScanAll
      /\ DisplayBtn' = DisplayBtn
  BY DEF PageMenu, StartDate, EndDate, MarkDate, ScanPattern, ScanAll, DisplayBtn
<1>3. HomeForm' = HomeForm /\ StockForm' = StockForm
  BY <1>1, <1>2 DEF HomeForm, StockForm
<1>4. Widgets' = Widgets
  BY <1>2, <1>3 DEF Widgets
<1>5. /\ HomeRun(states)' <=> HomeRun(values)
      /\ \A b : Pressed(states, b)' <=> Pressed(values, b)
  BY DEF HomeRun, Pressed
<1>6. ScanRun(states)' <=> ScanRun(values)
  BY <1>5 DEF ScanRun, Pressed
<1>7. SidebarFor(states)' = SidebarFor(values)
  BY <1>2, <1>3, <1>5 DEF SidebarFor
<1>8. ScannedPatterns(states)' = ScannedPatterns(values)
  BY <1>1, <1>5 DEF ScannedPatterns, Pressed
<1>9. Found(states)' = Found(values) /\ Valued(states)' = Valued(values)
  BY <1>8 DEF Found, Valued
<1>10. StockElement(states)' = StockElement(values)
  BY <1>1 DEF StockElement
<1>11. MainFor(states)' = MainFor(values)
  BY <1>5, <1>6, <1>9, <1>10 DEF MainFor, Pressed
<1>12. \A row : Chart(row, states)' = Chart(row, values)
  BY DEF Chart
<1>13. DrawingsFor(states)' = DrawingsFor(values)
  BY <1>6, <1>9 DEF DrawingsFor
<1> QED
  BY <1>3, <1>4, <1>5, <1>6, <1>7, <1>9, <1>11, <1>12, <1>13 DEF SamePages, Pressed

-----------------------------------------------------------------------------
(***************************************************************************)
(* A step within a run.                                                    *)
(***************************************************************************)
\* What no statement of a run changes.
Kept == UNCHANGED <<store, rerun, states, edits, asked, answering, db, html, touches>>

\* It is enough to know the page, and the branch that leads to the next
\* statement p.
LEMMA RunOn ==
  ASSUME Inv, pc # "idle", NEW p \in Statements, pc' = p, Kept,
         stocks' \in Seq(Joined(db)), PageOK',
         \A i \in DOMAIN display'["sidebar"] : display'["sidebar"][i] \in Widgets,
         BranchAt(p, states), DrawnAt(p, SidebarFor(states), MainFor(states))', ColumnsAt(p)'
  PROVE  Inv'
<1>1. /\ UNCHANGED <<store, rerun, states, edits, asked, answering, db, html, touches>>
      /\ p # "idle" /\ pc' # "idle"
  BY DEF Kept, Statements, StCalls
<1>2. SamePages(states)
  BY <1>1, PagesStay
<1>3. ControlOK'
  BY <1>1 DEF Inv, ControlOK
<1>4. ValuesOK' /\ SidebarOK'
  BY <1>1, <1>2 DEF Inv, ValuesOK, HaveOptions, SidebarOK, SamePages
<1>5. ButtonsOK'
  BY <1>1 DEF Inv, ButtonsOK, PressedIn, Buttons
<1>6. BranchAt(p, states)'
  BY <1>1, <1>2 DEF BranchAt, SamePages
<1>7. RunAt(p)'
  BY <1>6 DEF RunAt
<1>8. RunOK'
  BY <1>1, <1>7 DEF RunOK, AtRest
<1>9. RemembersOK'
  BY <1>1 DEF Inv, RemembersOK
<1> QED
  BY <1>3, <1>4, <1>5, <1>8, <1>9 DEF Inv

\* An empty column holds one chart for each of no rows.
LEMMA NoBijection == 1 .. 0 = {} /\ \E r : r \in Bijection(1 .. 0, {})
<1> DEFINE r == [i \in {} |-> i]
<1>1. 1 .. 0 = {}
  OBVIOUS
<1>2. r \in Bijection({}, {})
  BY DEF Bijection, Injection, Surjection, IsInjective
<1> QED
  BY <1>1, <1>2

\* The columns of a run stay empty until its scan has found rows.
LEMMA ColumnsStay ==
  ASSUME Inv, pc \notin {"idle", "chart", "end"}, NEW p \in Statements \ {"chart"}, Kept,
         cursor'["col1"] = cursor["col1"], cursor'["col2"] = cursor["col2"],
         p = "end" => ~ScanRun(states) \/ Found(states) = {}
  PROVE  ColumnsAt(p)'
<1>1. cursor'["col1"] = 0 /\ cursor'["col2"] = 0
  BY DEF Inv, RunOK, RunAt, ColumnsAt
<1>2. SamePages(states)
  BY PagesStay DEF Kept
<1>3. ASSUME p = "end"
      PROVE  {} \in DrawingsFor(states)' /\ HasCharts({})'
  <2>1. Valued(states) \subseteq Found(states)
    BY DEF Valued
  <2>2. {} \in DrawingsFor(states)
    BY <1>3, <2>1 DEF DrawingsFor
  <2>3. \A area : InColumn(area, {}) = {}
    BY DEF InColumn
  <2>4. HasCharts({})'
    BY <1>1, <2>3, NoBijection DEF HasCharts, Charts
  <2> QED
    BY <1>2, <2>2, <2>4 DEF SamePages
<1> QED
  BY <1>1, <1>3 DEF ColumnsAt

\* How far the run gets in an area.
Further(area, a) == IF a = area THEN cursor[a] + 1 ELSE cursor[a]

\* Drawing e, which is what comes next in its area, takes the run to p.
LEMMA DrawKeeps ==
  ASSUME Inv, pc \notin {"idle", "chart", "end"},
         NEW area \in {"sidebar", "main"}, NEW e, NEW p \in Statements \ {"chart"},
         Emit(area, e), pc' = p, Kept, stocks' = stocks, BranchAt(p, states),
         NEW sidebar, sidebar = SidebarFor(states), NEW main, main = MainFor(states),
         SidebarAt(p, Further(area, "sidebar"), sidebar), MainAt(p, Further(area, "main"), main),
         area = "sidebar" => /\ e \in Widgets /\ cursor["sidebar"] + 1 <= Len(sidebar)
                             /\ sidebar[cursor["sidebar"] + 1] = e,
         area = "main" => cursor["main"] + 1 <= Len(main) /\ main[cursor["main"] + 1] = e,
         p = "end" => ~ScanRun(states) \/ Found(states) = {}
  PROVE  Inv'
<1>1. PageOK' /\ Drawn(area, e)
  BY EmitDraws DEF Inv, Areas
<1>2. /\ cursor'["sidebar"] = Further(area, "sidebar") /\ cursor'["main"] = Further(area, "main")
      /\ cursor'["col1"] = cursor["col1"] /\ cursor'["col2"] = cursor["col2"]
      /\ \A a \in {"sidebar", "main"} : a # area => display'[a] = display[a] /\ cursor'[a] = cursor[a]
  BY <1>1 DEF Drawn, Areas, Further
<1>3. \A i \in DOMAIN display'["sidebar"] : display'["sidebar"][i] \in Widgets
  BY <1>1, <1>2 DEF Inv, SidebarOK, Drawn
<1>4. /\ Begins(display["sidebar"], cursor["sidebar"], sidebar)
      /\ Begins(display["main"], cursor["main"], main)
  BY DEF Inv, RunOK, RunAt, DrawnAt
<1>5. Begins(display'["sidebar"], cursor'["sidebar"], sidebar)
  <2>1. CASE area = "sidebar"
    BY <1>1, <1>4, <2>1, DrawnBegins DEF Inv, Areas
  <2>2. CASE area = "main"
    BY <1>2, <1>4, <2>2
  <2> QED
    BY <2>1, <2>2
<1>6. Begins(display'["main"], cursor'["main"], main)
  <2>1. CASE area = "main"
    BY <1>1, <1>4, <2>1, DrawnBegins DEF Inv, Areas
  <2>2. CASE area = "sidebar"
    BY <1>2, <1>4, <2>2
  <2> QED
    BY <2>1, <2>2
<1>7. SidebarFor(states)' = sidebar /\ MainFor(states)' = main
  BY PagesStay DEF Kept, SamePages
<1>8. DrawnAt(p, SidebarFor(states), MainFor(states))'
  BY <1>2, <1>5, <1>6, <1>7 DEF DrawnAt
<1>9. ColumnsAt(p)'
  BY <1>2, ColumnsStay
<1>10. stocks' \in Seq(Joined(db)) /\ pc # "idle"
  BY DEF Inv, ControlOK
<1> QED
  BY <1>1, <1>3, <1>8, <1>9, <1>10, RunOn

\* A statement that draws nothing.
LEMMA ComputeKeeps ==
  ASSUME Inv, pc # "idle", NEW p \in Statements, Compute(p), Kept,
         stocks' \in Seq(Joined(db)), BranchAt(p, states),
         NEW sidebar, sidebar = SidebarFor(states), NEW main, main = MainFor(states),
         SidebarAt(p, cursor["sidebar"], sidebar), MainAt(p, cursor["main"], main),
         ColumnsAt(p)'
  PROVE  Inv'
<1>1. pc' = p /\ display' = display /\ cursor' = cursor
  BY DEF Compute, page
<1>2. PageOK' /\ \A i \in DOMAIN display'["sidebar"] : display'["sidebar"][i] \in Widgets
  BY <1>1 DEF Inv, PageOK, SidebarOK
<1>3. SidebarFor(states)' = sidebar /\ MainFor(states)' = main
  BY PagesStay DEF Kept, SamePages
<1>4. /\ Begins(display["sidebar"], cursor["sidebar"], sidebar)
      /\ Begins(display["main"], cursor["main"], main)
  BY DEF Inv, RunOK, RunAt, DrawnAt
<1>5. DrawnAt(p, SidebarFor(states), MainFor(states))'
  BY <1>1, <1>3, <1>4 DEF DrawnAt
<1> QED
  BY <1>1, <1>2, <1>5, RunOn

-----------------------------------------------------------------------------
(***************************************************************************)
(* The statements of the script.                                           *)
(***************************************************************************)
\* What a statement leaves to the actions that run it.
Rest == UNCHANGED <<edits, asked, answering, db, html, touches>>

LEMMA DrawIsEmit ==
  ASSUME NEW area, NEW e, NEW p, Draw(area, e, p), Rest
  PROVE  Emit(area, e) /\ pc' = p /\ Kept
BY DEF Draw, Rest, Kept

\* Where a run at pc is.
LEMMA RunIsAt ==
  ASSUME Inv, pc # "idle"
  PROVE  /\ SidebarAt(pc, cursor["sidebar"], SidebarFor(states))
         /\ MainAt(pc, cursor["main"], MainFor(states))
         /\ BranchAt(pc, states) /\ html \in BOOLEAN
         /\ cursor["sidebar"] \in Nat /\ cursor["main"] \in Nat
         /\ stocks \in Seq(Joined(db))
BY DEF Inv, RunOK, RunAt, DrawnAt, PageOK, ControlOK, Areas

\* The widgets of the forms are widgets.
LEMMA FormsAreWidgets ==
  /\ \A i \in 1 .. 6 : HomeForm[i] \in Widgets
  /\ \A i \in 1 .. 2 : StockForm[i] \in Widgets
  /\ PageMenu \in Widgets
<1>1. \A i \in 1 .. 6 : i = 1 \/ i = 2 \/ i = 3 \/ i = 4 \/ i = 5 \/ i = 6
  OBVIOUS
<1>2. \A i \in 1 .. 2 : i = 1 \/ i = 2
  OBVIOUS
<1> QED
  BY <1>1, <1>2, Forms, FormSets DEF Widgets

\* Loading the lists.
LEMMA LoadKeeps ==
  ASSUME Inv, Load, Rest, stocks' = stocks  PROVE Inv'
<1>1. pc = "load" /\ Compute("page_menu") /\ Kept /\ "page_menu" \in Statements \ {"chart"}
  BY DEF Load, Compute, Rest, Kept, Statements, StCalls
<1>2. /\ BranchAt("page_menu", states)
      /\ SidebarAt("page_menu", cursor["sidebar"], SidebarFor(states))
      /\ MainAt("page_menu", cursor["main"], MainFor(states))
  BY <1>1, RunIsAt DEF BranchAt, SidebarAt, MainAt
<1>3. ColumnsAt("page_menu")'
  <2>1. cursor' = cursor
    BY <1>1 DEF Compute, page
  <2> QED
    BY <1>1, <2>1, ColumnsStay
<1>4. stocks' \in Seq(Joined(db))
  BY <1>1, RunIsAt
<1> QED
  BY <1>1, <1>2, <1>3, <1>4, ComputeKeeps

\* The menu that every page has.
LEMMA PageMenuKeeps ==
  ASSUME Inv, DrawPageMenu, Rest, stocks' = stocks  PROVE Inv'
<1> DEFINE p == IF HomeRun(states) THEN "home_title" ELSE "open_widgets"
           sidebar == SidebarFor(states)
           main == MainFor(states)
<1>1. pc = "page_menu" /\ Draw("sidebar", PageMenu, p) /\ p \in Statements \ {"chart"} /\ p # "end"
  BY DEF DrawPageMenu, HomeRun, Statements, StCalls
<1>2. cursor["sidebar"] = 0 /\ cursor["main"] = 0 /\ html \in BOOLEAN
  BY <1>1, RunIsAt DEF SidebarAt, MainAt
<1>3. BranchAt(p, states)
  BY DEF BranchAt
<1>4. SidebarAt(p, 1, sidebar) /\ MainAt(p, 0, main)
  BY DEF SidebarAt, MainAt
<1>5. Further("sidebar", "sidebar") = 1 /\ Further("sidebar", "main") = 0
  BY <1>2 DEF Further
<1>6. 1 <= Len(sidebar) /\ sidebar[1] = PageMenu
  BY <1>2, Sidebars
<1>7. PageMenu \in Widgets
  BY FormsAreWidgets
<1>8. Emit("sidebar", PageMenu) /\ pc' = p /\ Kept
  BY <1>1, DrawIsEmit
<1> HIDE DEF p, sidebar, main
<1>9. cursor["sidebar"] + 1 <= Len(sidebar) /\ sidebar[cursor["sidebar"] + 1] = PageMenu
  BY <1>2, <1>6
<1>10. sidebar = SidebarFor(states) /\ main = MainFor(states)
  BY DEF sidebar, main
<1> QED
  BY <1>1, <1>3, <1>4, <1>5, <1>7, <1>8, <1>9, <1>10, DrawKeeps

\* The statements of the home page but for its scan.
LEMMA HomePageKeeps ==
  ASSUME Inv, HomePage, Rest, stocks' = stocks  PROVE Inv'
<1> DEFINE sidebar == SidebarFor(states)
           main == MainFor(states)
           c == cursor["sidebar"]
           n == cursor["main"]
<1>1. pc \in {"home_title", "home_form", "headings", "warning"}
  BY DEF HomePage
<1>2. HomeRun(states) /\ BranchAt(pc, states) /\ html \in BOOLEAN /\ c \in Nat /\ n \in Nat
  BY <1>1, RunIsAt DEF BranchAt
<1>3. /\ Len(sidebar) = 7 /\ \A i \in 1 .. 6 : sidebar[i + 1] = HomeForm[i]
      /\ main[1] = HomeTitle /\ Len(main) \in 1 .. 3
      /\ ScanRun(states) /\ Found(states) = {} => Len(main) = 2 /\ main[2] = Warning
      /\ ~ScanRun(states) => Len(main) = 1
  <2>1. Len(sidebar) = 7 /\ \A i \in 1 .. 6 : sidebar[i + 1] = HomeForm[i]
    BY <1>2, Sidebars
  <2>2. /\ main[1] = HomeTitle /\ Len(main) \in 1 .. 3
        /\ ScanRun(states) /\ Found(states) = {} => Len(main) = 2 /\ main[2] = Warning
        /\ ~ScanRun(states) => Len(main) = 1
    BY <1>2, Mains
  <2> QED
    BY <2>1, <2>2
<1>4. SidebarAt(pc, c, sidebar) /\ MainAt(pc, n, main)
  BY <1>1, RunIsAt
<1>5. sidebar = SidebarFor(states) /\ main = MainFor(states)
  OBVIOUS
<1>6. pc \notin {"idle", "chart", "end"}
  BY <1>1
<1> HIDE DEF sidebar, main
<1>7. CASE pc = "home_title" /\ Draw("main", HomeTitle, "home_form")
  <2>1. c = 1 /\ n = 0
    BY <1>4, <1>7 DEF SidebarAt, MainAt
  <2>2. /\ "home_form" \in Statements \ {"chart"} /\ BranchAt("home_form", states)
        /\ SidebarAt("home_form", 1, sidebar) /\ MainAt("home_form", 1, main)
    BY <1>2 DEF Statements, StCalls, BranchAt, SidebarAt, MainAt
  <2>3. Further("main", "sidebar") = 1 /\ Further("main", "main") = 1
    BY <2>1 DEF Further
  <2>4. n + 1 <= Len(main) /\ main[n + 1] = HomeTitle
    BY <1>3, <2>1
  <2>5. Emit("main", HomeTitle) /\ pc' = "home_form" /\ Kept
    BY <1>7, DrawIsEmit
  <2> QED
    BY <1>5, <1>6, <2>2, <2>3, <2>4, <2>5, DrawKeeps
<1>8. CASE pc = "home_form" /\ DrawForm(HomeForm, "headings")
  <2> DEFINE p == IF c = 6 THEN "headings" ELSE "home_form"
  <2>1. Draw("sidebar", HomeForm[c], p) /\ p # "end"
    BY <1>8, Forms DEF DrawForm
  <2>2. c \in 1 .. 6 /\ n = 1
    BY <1>4, <1>8 DEF SidebarAt, MainAt
  <2>3. p \in Statements \ {"chart"} /\ BranchAt(p, states)
    BY <1>2 DEF Statements, StCalls, BranchAt
  <2>4. SidebarAt(p, c + 1, sidebar)
    <3>1. CASE c = 6
      BY <1>3, <2>2, <3>1 DEF SidebarAt
    <3>2. CASE c # 6
      BY <2>2, <3>2 DEF SidebarAt
    <3> QED
      BY <3>1, <3>2
  <2>5. MainAt(p, 1, main)
    BY DEF MainAt
  <2>6. Further("sidebar", "sidebar") = c + 1 /\ Further("sidebar", "main") = 1
    BY <2>2 DEF Further
  <2>7. HomeForm[c] \in Widgets /\ c + 1 <= Len(sidebar) /\ sidebar[c + 1] = HomeForm[c]
    BY <1>3, <2>2, FormsAreWidgets
  <2>8. Emit("sidebar", HomeForm[c]) /\ pc' = p /\ Kept
    BY <2>1, DrawIsEmit
  <2> HIDE DEF p
  <2> QED
    BY <1>5, <1>6, <2>1, <2>3, <2>4, <2>5, <2>6, <2>7, <2>8, DrawKeeps
<1>9. CASE pc = "warning" /\ Draw("main", Warning, "end")
  <2>1. c = 7 /\ n = 1 /\ ScanRun(states) /\ Found(states) = {}
    BY <1>2, <1>4, <1>9 DEF SidebarAt, MainAt, BranchAt
  <2>2. /\ "end" \in Statements \ {"chart"} /\ BranchAt("end", states)
        /\ SidebarAt("end", 7, sidebar) /\ MainAt("end", 2, main)
    BY <1>3, <2>1 DEF Statements, StCalls, BranchAt, SidebarAt, MainAt
  <2>3. Further("main", "sidebar") = 7 /\ Further("main", "main") = 2
    BY <2>1 DEF Further
  <2>4. n + 1 <= Len(main) /\ main[n + 1] = Warning
    <3>1. n + 1 = 2
      BY <2>1
    <3>2. Len(main) = 2 /\ main[2] = Warning
      BY <1>3, <2>1
    <3> HIDE DEF n
    <3> QED
      BY <3>1, <3>2
  <2>5. Emit("main", Warning) /\ pc' = "end" /\ Kept
    BY <1>9, DrawIsEmit
  <2> QED
    BY <1>5, <1>6, <2>1, <2>2, <2>3, <2>4, <2>5, DrawKeeps
<1>10. CASE /\ pc = "headings" /\ ~rerun
            /\ Compute(IF Pressed(states, ScanPattern) \/ Pressed(states, ScanAll)
                         THEN "query" ELSE "end")
  <2>0. PICK p : p = IF ScanRun(states) THEN "query" ELSE "end"
    OBVIOUS
  <2>1. /\ Compute(p) /\ Kept /\ p \in Statements \ {"chart"} /\ BranchAt(p, states)
        /\ stocks' \in Seq(Joined(db))
    BY <1>2, <1>10, <2>0, RunIsAt DEF ScanRun, Compute, Rest, Kept, Statements, StCalls, BranchAt
  <2>2. c = 7 /\ n = 1
    BY <1>4, <1>10 DEF SidebarAt, MainAt
  <2>3. SidebarAt(p, c, sidebar) /\ MainAt(p, n, main)
    BY <1>3, <2>0, <2>2 DEF SidebarAt, MainAt
  <2>4. cursor' = cursor
    BY <2>1 DEF Compute, page
  <2>5. p = "end" => ~ScanRun(states)
    BY <2>0
  <2>6. ColumnsAt(p)'
    BY <1>6, <2>1, <2>4, <2>5, ColumnsStay
  <2> QED
    BY <1>5, <1>6, <2>1, <2>3, <2>6, ComputeKeeps
<1> QED
  BY <1>7, <1>8, <1>9, <1>10 DEF HomePage, HomeTitle, Warning

\* The other page, which fails when the files of its widgets are missing.
LEMMA DisplayPageKeeps ==
  ASSUME Inv, DisplayPage, Rest, stocks' = stocks  PROVE Inv'
<1> DEFINE sidebar == SidebarFor(states)
           main == MainFor(states)
           c == cursor["sidebar"]
           n == cursor["main"]
<1>1. pc \in {"open_widgets", "display_title", "markets", "display_form", "ticker", "display"}
  BY DEF DisplayPage
<1>2. /\ ~HomeRun(states) /\ ~ScanRun(states) /\ html \in BOOLEAN /\ c \in Nat /\ n \in Nat
      /\ pc # "open_widgets" => html
      /\ pc \in {"ticker", "display"} => Pressed(states, DisplayBtn)
      /\ stocks \in Seq(Joined(db))
  BY <1>1, RunIsAt DEF BranchAt, ScanRun
<1>3. /\ html => Len(sidebar) = 3 /\ \A i \in 1 .. 2 : sidebar[i + 1] = StockForm[i]
      /\ ~html => Len(sidebar) = 1
  BY <1>2, Sidebars
<1>4. /\ Len(main) \in 1 .. 3
      /\ html => /\ main[1] = PageTitle /\ main[2] = Markets
                 /\ Pressed(states, DisplayBtn) => Len(main) = 3 /\ main[3] = StockElement(states)
                 /\ ~Pressed(states, DisplayBtn) => Len(main) = 2
      /\ ~html => Len(main) = 1 /\ main[1] = NoFile
  BY <1>2, Mains
<1>5. SidebarAt(pc, c, sidebar) /\ MainAt(pc, n, main)
  BY <1>1, RunIsAt
<1>6. sidebar = SidebarFor(states) /\ main = MainFor(states)
  OBVIOUS
<1>7. pc \notin {"idle", "chart", "end"}
  BY <1>1
<1> HIDE DEF sidebar, main, c, n
<1>8. /\ c = cursor["sidebar"] /\ n = cursor["main"]
      /\ Further("main", "sidebar") = c /\ Further("main", "main") = n + 1
      /\ Further("sidebar", "sidebar") = c + 1 /\ Further("sidebar", "main") = n
  BY DEF Further, c, n
<1>9. CASE pc = "open_widgets" /\ ~html /\ Raise(NoFile)
  <2>1. c = 1 /\ n = 0
    BY <1>5, <1>9 DEF SidebarAt, MainAt
  <2>2. /\ "end" \in Statements \ {"chart"} /\ BranchAt("end", states)
        /\ SidebarAt("end", 1, sidebar) /\ MainAt("end", 1, main)
    BY <1>3, <1>4, <1>9 DEF Statements, StCalls, BranchAt, SidebarAt, MainAt
  <2>3. n + 1 = 1 /\ n + 1 <= Len(main) /\ main[n + 1] = NoFile
    BY <1>4, <1>9, <2>1
  <2>4. Emit("main", NoFile) /\ pc' = "end" /\ Kept
    BY <1>9 DEF Raise, Rest, Kept
  <2> QED
    BY <1>2, <1>6, <1>7, <1>8, <2>1, <2>2, <2>3, <2>4, DrawKeeps
<1>10. CASE pc = "open_widgets" /\ html /\ Compute("display_title")
  <2>1. /\ Compute("display_title") /\ Kept /\ "display_title" \in Statements \ {"chart"}
        /\ BranchAt("display_title", states)
    BY <1>2, <1>10 DEF Compute, Rest, Kept, Statements, StCalls, BranchAt
  <2>2. SidebarAt("display_title", c, sidebar) /\ MainAt("display_title", n, main)
    BY <1>5, <1>10 DEF SidebarAt, MainAt
  <2>3. ColumnsAt("display_title")'
    <3>1. cursor' = cursor
      BY <2>1 DEF Compute, page
    <3> QED
      BY <1>7, <2>1, <3>1, ColumnsStay
  <2>4. stocks' \in Seq(Joined(db))
    BY <1>2
  <2> QED
    BY <1>6, <1>7, <1>8, <2>1, <2>2, <2>3, <2>4, ComputeKeeps
<1>11. CASE pc = "display_title" /\ Draw("main", PageTitle, "markets")
  <2>1. c = 1 /\ n = 0 /\ html
    BY <1>2, <1>5, <1>11 DEF SidebarAt, MainAt
  <2>2. /\ "markets" \in Statements \ {"chart"} /\ BranchAt("markets", states)
        /\ SidebarAt("markets", 1, sidebar) /\ MainAt("markets", 1, main)
    BY <1>2, <2>1 DEF Statements, StCalls, BranchAt, SidebarAt, MainAt
  <2>3. n + 1 = 1 /\ n + 1 <= Len(main) /\ main[n + 1] = PageTitle
    BY <1>4, <2>1
  <2>4. Emit("main", PageTitle) /\ pc' = "markets" /\ Kept
    BY <1>11, DrawIsEmit
  <2> QED
    BY <1>6, <1>7, <1>8, <2>1, <2>2, <2>3, <2>4, DrawKeeps
<1>12. CASE pc = "markets" /\ Draw("main", Markets, "display_form")
  <2>1. c = 1 /\ n = 1 /\ html
    BY <1>2, <1>5, <1>12 DEF SidebarAt, MainAt
  <2>2. /\ "display_form" \in Statements \ {"chart"} /\ BranchAt("display_form", states)
        /\ SidebarAt("display_form", 1, sidebar) /\ MainAt("display_form", 2, main)
    BY <1>2, <2>1 DEF Statements, StCalls, BranchAt, SidebarAt, MainAt
  <2>3. n + 1 = 2 /\ n + 1 <= Len(main) /\ main[n + 1] = Markets
    <3>1. n + 1 = 2
      BY <2>1
    <3>2. 2 <= Len(main) /\ main[2] = Markets
      BY <1>4, <2>1
    <3> QED
      BY <3>1, <3>2
  <2>4. Emit("main", Markets) /\ pc' = "display_form" /\ Kept
    BY <1>12, DrawIsEmit
  <2> QED
    BY <1>6, <1>7, <1>8, <2>1, <2>2, <2>3, <2>4, DrawKeeps
<1>13. CASE /\ pc = "display_form"
            /\ DrawForm(StockForm, IF Pressed(states, DisplayBtn) THEN "ticker" ELSE "end")
  <2> DEFINE q == IF Pressed(states, DisplayBtn) THEN "ticker" ELSE "end"
             p == IF c = 2 THEN q ELSE "display_form"
  <2>1. Draw("sidebar", StockForm[c], p)
    BY <1>8, <1>13, Forms DEF DrawForm
  <2>2. c \in 1 .. 2 /\ n = 2 /\ html
    BY <1>2, <1>5, <1>13 DEF SidebarAt, MainAt
  <2>3. p \in Statements \ {"chart"} /\ BranchAt(p, states)
    BY <1>2, <2>2 DEF Statements, StCalls, BranchAt
  <2>4. SidebarAt(p, c + 1, sidebar)
    <3>1. CASE c = 2
      BY <1>3, <2>2, <3>1 DEF SidebarAt
    <3>2. CASE c # 2
      BY <2>2, <3>2 DEF SidebarAt
    <3> QED
      BY <3>1, <3>2
  <2>5. MainAt(p, 2, main)
    BY <1>4, <2>2 DEF MainAt
  <2>6. StockForm[c] \in Widgets /\ c + 1 <= Len(sidebar) /\ sidebar[c + 1] = StockForm[c]
    <3>1. Len(sidebar) = 3 /\ \A i \in 1 .. 2 : sidebar[i + 1] = StockForm[i]
      BY <1>3, <2>2
    <3>2. c + 1 <= 3 /\ sidebar[c + 1] = StockForm[c]
      BY <2>2, <3>1
    <3> QED
      BY <2>2, <3>1, <3>2, FormsAreWidgets
  <2>7. Emit("sidebar", StockForm[c]) /\ pc' = p /\ Kept
    BY <2>1, DrawIsEmit
  <2> HIDE DEF p
  <2> QED
    BY <1>2, <1>6, <1>7, <1>8, <2>2, <2>3, <2>4, <2>5, <2>6, <2>7, DrawKeeps
<1>14. CASE pc = "display" /\ Draw("main", StockElement(states), "end")
  <2>1. c = 3 /\ n = 2 /\ html /\ Pressed(states, DisplayBtn)
    BY <1>2, <1>5, <1>14 DEF SidebarAt, MainAt
  <2>2. /\ "end" \in Statements \ {"chart"} /\ BranchAt("end", states)
        /\ SidebarAt("end", 3, sidebar) /\ MainAt("end", 3, main)
    BY <1>3, <1>4, <2>1 DEF Statements, StCalls, BranchAt, SidebarAt, MainAt
  <2>3. n + 1 = 3 /\ n + 1 <= Len(main) /\ main[n + 1] = StockElement(states)
    <3>1. n + 1 = 3
      BY <2>1
    <3>2. Len(main) = 3 /\ main[3] = StockElement(states)
      BY <1>4, <2>1
    <3> QED
      BY <3>1, <3>2
  <2>4. Emit("main", StockElement(states)) /\ pc' = "end" /\ Kept
    BY <1>14, DrawIsEmit
  <2> QED
    BY <1>2, <1>6, <1>7, <1>8, <2>1, <2>2, <2>3, <2>4, DrawKeeps
<1>15. CASE pc = "ticker" /\ Raise(StockElement(states))
  <2>1. c = 3 /\ n = 2 /\ html /\ Pressed(states, DisplayBtn)
    BY <1>2, <1>5, <1>15 DEF SidebarAt, MainAt
  <2>2. /\ "end" \in Statements \ {"chart"} /\ BranchAt("end", states)
        /\ SidebarAt("end", 3, sidebar) /\ MainAt("end", 3, main)
    BY <1>3, <1>4, <2>1 DEF Statements, StCalls, BranchAt, SidebarAt, MainAt
  <2>3. n + 1 = 3 /\ n + 1 <= Len(main) /\ main[n + 1] = StockElement(states)
    <3>1. n + 1 = 3
      BY <2>1
    <3>2. Len(main) = 3 /\ main[3] = StockElement(states)
      BY <1>4, <2>1
    <3> QED
      BY <3>1, <3>2
  <2>4. Emit("main", StockElement(states)) /\ pc' = "end" /\ Kept
    BY <1>15 DEF Raise, Rest, Kept
  <2> QED
    BY <1>2, <1>6, <1>7, <1>8, <2>1, <2>2, <2>3, <2>4, DrawKeeps
<1>16. CASE pc = "ticker" /\ Compute("display")
  <2>1. /\ Compute("display") /\ Kept /\ "display" \in Statements \ {"chart"}
        /\ BranchAt("display", states)
    BY <1>2, <1>16 DEF Compute, Rest, Kept, Statements, StCalls, BranchAt
  <2>2. SidebarAt("display", c, sidebar) /\ MainAt("display", n, main)
    BY <1>5, <1>16 DEF SidebarAt, MainAt
  <2>3. ColumnsAt("display")'
    <3>1. cursor' = cursor
      BY <2>1 DEF Compute, page
    <3> QED
      BY <1>7, <2>1, <3>1, ColumnsStay
  <2>4. stocks' \in Seq(Joined(db))
    BY <1>2
  <2> QED
    BY <1>6, <1>7, <1>8, <2>1, <2>2, <2>3, <2>4, ComputeKeeps
<1> QED
  BY <1>9, <1>10, <1>11, <1>12, <1>13, <1>14, <1>15, <1>16
  DEF DisplayPage, PageTitle, Markets, NoFile

-----------------------------------------------------------------------------
(***************************************************************************)
(* The scan.                                                               *)
(***************************************************************************)
\* The rows that a scan finds are finitely many.
LEMMA SequencesAreFinite ==
  ASSUME NEW s, s \in Seq(ToSet(s))
  PROVE  IsFiniteSet(ToSet(s))
<1>1. s \in [1 .. Len(s) -> ToSet(s)] /\ Len(s) \in Nat /\ DOMAIN s = 1 .. Len(s)
  OBVIOUS
<1>2. \A e \in ToSet(s) : \E i \in DOMAIN s : s[i] = e
  BY DEF ToSet
<1>3. s \in Surjection(1 .. Len(s), ToSet(s))
  BY <1>1, <1>2 DEF Surjection
<1>4. IsFiniteSet(1 .. Len(s))
  BY <1>1, FS_Interval
<1> QED
  BY <1>3, <1>4, FS_Surjection

LEMMA FoundIsFinite ==
  ASSUME db \in Databases, NEW values
  PROVE  IsFiniteSet(Found(values)) /\ Found(values) \subseteq Joined(db)
<1> DEFINE A == ToSet(db.stock_list)
           B == db.stock_prices
           C == db.stock_momentums
           D == ToSet(db.candle_patterns)
           P == (A \X B) \X (C \X D)
           R == [stock : A, price : B, momentum : C, pattern : D]
           f == [t \in P |-> [stock |-> t[1][1], price |-> t[1][2],
                              momentum |-> t[2][1], pattern |-> t[2][2]]]
<1>1. IsFiniteSet(A) /\ IsFiniteSet(B) /\ IsFiniteSet(C) /\ IsFiniteSet(D)
  BY DatabasesAssumption, SequencesAreFinite DEF IsDatabase
<1>2. IsFiniteSet(P)
  <2> HIDE DEF A, B, C, D
  <2>1. IsFiniteSet(A \X B) /\ IsFiniteSet(C \X D)
    BY <1>1, FS_Product
  <2> QED
    BY <2>1, FS_Product
<1>3. f \in Surjection(P, R)
  <2> HIDE DEF A, B, C, D
  <2>1. f \in [P -> R]
    OBVIOUS
  <2>2. ASSUME NEW r \in R  PROVE \E t \in P : f[t] = r
    <3>1. <<<<r.stock, r.price>>, <<r.momentum, r.pattern>>>> \in P
      OBVIOUS
    <3>2. f[<<<<r.stock, r.price>>, <<r.momentum, r.pattern>>>>] = r
      BY <3>1
    <3> QED
      BY <3>1, <3>2
  <2> QED
    BY <2>1, <2>2 DEF Surjection
<1>4. IsFiniteSet(R)
  <2> HIDE DEF R, P, f
  <2> QED
    BY <1>2, <1>3, FS_Surjection
<1>5. Joined(db) \in SUBSET R /\ Found(values) \subseteq Joined(db)
  BY DEF Joined, Found, PageData
<1>6. Found(values) \in SUBSET R
  BY <1>5
<1> HIDE DEF R
<1> QED
  BY <1>4, <1>5, <1>6, FS_Subset

\* A query returns each of them once.
LEMMA QueryRows ==
  ASSUME NEW S, IsFiniteSet(S), NEW s \in SetToSeqs(S)
  PROVE  s \in Seq(S) /\ ToSet(s) = S /\ IsInjective(s)
<1>1. Cardinality(S) \in Nat
  BY FS_CardinalityType
<1>2. /\ s \in [1 .. Cardinality(S) -> S]
      /\ \A i, j \in 1 .. Cardinality(S) : i # j => s[i] # s[j]
  BY DEF SetToSeqs
<1>3. s \in Injection(1 .. Cardinality(S), S) /\ IsInjective(s)
  BY <1>2 DEF Injection, IsInjective
<1>4. IsFiniteSet(1 .. Cardinality(S)) /\ Cardinality(1 .. Cardinality(S)) = Cardinality(S)
  BY <1>1, FS_Interval
<1>5. s \in Surjection(1 .. Cardinality(S), S)
  BY <1>3, <1>4, FS_Injection
<1>6. ToSet(s) = S
  BY <1>2, <1>5 DEF Surjection, ToSet
<1>7. s \in Seq(S)
  BY <1>1, <1>2
<1> QED
  BY <1>3, <1>6, <1>7

\* The query leaves all rows to draw, if there are any.
LEMMA QueryKeeps ==
  ASSUME Inv, Query, Rest  PROVE Inv'
<1> DEFINE c == cursor["sidebar"]
           n == cursor["main"]
<1>1. /\ pc = "query" /\ stocks' \in SetToSeqs(Found(states)) /\ Kept
      /\ Found(states) = {} => Compute("warning")
      /\ Found(states) # {} => Compute("chart")
      /\ cursor' = cursor /\ display' = display
  BY DEF Query, Compute, Rest, Kept, page
<1>2. /\ BranchAt("query", states) /\ db \in Databases /\ cursor["col1"] = 0 /\ cursor["col2"] = 0
      /\ SidebarAt("query", c, SidebarFor(states)) /\ MainAt("query", n, MainFor(states))
  BY <1>1, RunIsAt DEF Inv, ControlOK, RunOK, RunAt, ColumnsAt
<1>3. /\ stocks' \in Seq(Found(states)) /\ ToSet(stocks') = Found(states) /\ IsInjective(stocks')
      /\ Found(states) \subseteq Joined(db)
  BY <1>1, <1>2, FoundIsFinite, QueryRows
<1>4. stocks' \in Seq(Joined(db))
  BY <1>3
<1>5. "warning" \in Statements \ {"chart"} /\ "chart" \in Statements
  BY DEF Statements, StCalls
<1>6. CASE Found(states) = {}
  <2>1. /\ BranchAt("warning", states)
        /\ SidebarAt("warning", c, SidebarFor(states)) /\ MainAt("warning", n, MainFor(states))
    BY <1>2, <1>6 DEF BranchAt, SidebarAt, MainAt
  <2>2. ColumnsAt("warning")'
    BY <1>1, <1>5, ColumnsStay
  <2> QED
    BY <1>1, <1>4, <1>5, <1>6, <2>1, <2>2, ComputeKeeps
<1>7. CASE Found(states) # {}
  <2>1. /\ BranchAt("chart", states)
        /\ SidebarAt("chart", c, SidebarFor(states)) /\ MainAt("chart", n, MainFor(states))
    BY <1>2, <1>7 DEF BranchAt, SidebarAt, MainAt
  <2>2. SamePages(states)
    BY <1>1, PagesStay DEF Kept
  <2>3. ToSet(stocks') = Found(states)' /\ (Found(states) \ ToSet(stocks))' = {}
    BY <1>3, <2>2 DEF SamePages
  <2>4. \A area : InColumn(area, {}) = {}
    BY DEF InColumn
  <2>5. HasCharts(Found(states) \ ToSet(stocks))'
    BY <1>1, <1>2, <2>3, <2>4, NoBijection DEF HasCharts, Charts
  <2>6. ColumnsAt("chart")'
    BY <1>3, <2>3, <2>5 DEF ColumnsAt
  <2> QED
    BY <1>1, <1>4, <1>5, <1>7, <2>1, <2>6, ComputeKeeps
<1> QED
  BY <1>6, <1>7

\* The first row and the others.
LEMMA FirstRow ==
  ASSUME NEW R, NEW s \in Seq(R), s # << >>, IsInjective(s)
  PROVE  /\ ToSet(s) = {Head(s)} \cup ToSet(Tail(s)) /\ Head(s) \notin ToSet(Tail(s))
         /\ Tail(s) \in Seq(R) /\ IsInjective(Tail(s))
<1>1. /\ Len(s) \in Nat /\ Len(s) >= 1 /\ DOMAIN s = 1 .. Len(s) /\ Head(s) = s[1]
      /\ Tail(s) \in Seq(R) /\ Len(Tail(s)) = Len(s) - 1 /\ DOMAIN Tail(s) = 1 .. Len(s) - 1
      /\ \A i \in 1 .. Len(s) - 1 : Tail(s)[i] = s[i + 1]
  OBVIOUS
<1> DEFINE t == Tail(s)
           h == Head(s)
           n == Len(s)
<1> HIDE DEF t, h, n
<1>2. /\ n \in Nat /\ n >= 1 /\ DOMAIN s = 1 .. n /\ h = s[1]
      /\ t \in Seq(R) /\ DOMAIN t = 1 .. n - 1 /\ Len(t) = n - 1
      /\ \A i \in 1 .. n - 1 : t[i] = s[i + 1]
      /\ n = Len(s)
  BY <1>1 DEF t, h, n
<1>3. \A i, j \in 1 .. n : s[i] = s[j] => i = j
  BY <1>2 DEF IsInjective
<1>4. ToSet(s) = {h} \cup ToSet(t)
  <2>1. ASSUME NEW i \in 1 .. n  PROVE s[i] \in {h} \cup ToSet(t)
    <3>1. CASE i = 1
      BY <1>2, <3>1
    <3>2. CASE i # 1
      <4>1. i - 1 \in 1 .. n - 1 /\ (i - 1) + 1 = i
        BY <1>2, <3>2
      <4>2. t[i - 1] = s[i]
        BY <1>2, <4>1
      <4> QED
        BY <1>2, <4>1, <4>2 DEF ToSet
    <3> QED
      BY <3>1, <3>2
  <2>2. h \in ToSet(s)
    BY <1>2 DEF ToSet
  <2>3. ASSUME NEW i \in 1 .. n - 1  PROVE t[i] \in ToSet(s)
    <3>1. i + 1 \in 1 .. n /\ t[i] = s[i + 1]
      BY <1>2
    <3> QED
      BY <1>2, <3>1 DEF ToSet
  <2> QED
    BY <1>2, <2>1, <2>2, <2>3 DEF ToSet
<1>5. h \notin ToSet(t)
  <2>1. ASSUME NEW i \in 1 .. n - 1  PROVE t[i] # h
    <3>1. i + 1 \in 1 .. n /\ 1 \in 1 .. n /\ i + 1 # 1
      BY <1>2
    <3> QED
      BY <1>2, <1>3, <3>1
  <2> QED
    BY <1>2, <2>1 DEF ToSet
<1>6. IsInjective(t)
  <2>1. ASSUME NEW i \in 1 .. n - 1, NEW j \in 1 .. n - 1, t[i] = t[j]  PROVE i = j
    <3>1. i + 1 \in 1 .. n /\ j + 1 \in 1 .. n /\ t[i] = s[i + 1] /\ t[j] = s[j + 1]
      BY <1>2
    <3>2. i + 1 = j + 1
      BY <1>3, <2>1, <3>1
    <3> QED
      BY <3>2
  <2> QED
    BY <1>2, <2>1 DEF IsInjective
<1> QED
  BY <1>2, <1>4, <1>5, <1>6 DEF t, h

\* One chart more for one row more.
LEMMA ChartAdded ==
  ASSUME NEW shown, NEW more, NEW n \in Nat, NEW rows, NEW row, row \notin rows, NEW values,
         Charts(shown, n, rows, values), \A i \in 1 .. n : more[i] = shown[i],
         more[n + 1] = Chart(row, values)
  PROVE  Charts(more, n + 1, rows \cup {row}, values)
<1>1. PICK r \in Bijection(1 .. n, rows) : \A i \in 1 .. n : shown[i] = Chart(r[i], values)
  BY DEF Charts
<1>2. /\ r \in [1 .. n -> rows]
      /\ \A i, j \in 1 .. n : r[i] = r[j] => i = j
      /\ \A e \in rows : \E i \in 1 .. n : r[i] = e
  BY DEF Bijection, Injection, Surjection, IsInjective
<1> DEFINE q == [i \in 1 .. n + 1 |-> IF i \in 1 .. n THEN r[i] ELSE row]
<1>3. \A i \in 1 .. n + 1 : i \in 1 .. n \/ i = n + 1
  OBVIOUS
<1>4. n + 1 \in 1 .. n + 1 /\ n + 1 \notin 1 .. n /\ \A i \in 1 .. n : i \in 1 .. n + 1
  OBVIOUS
<1>5. q \in [1 .. n + 1 -> rows \cup {row}]
  BY <1>2
<1>6. (\A i \in 1 .. n : q[i] = r[i] /\ r[i] \in rows) /\ q[n + 1] = row
  BY <1>2, <1>4
<1> HIDE DEF q
<1>7. \A i, j \in 1 .. n + 1 : q[i] = q[j] => i = j
  BY <1>2, <1>3, <1>6
<1>8. \A e \in rows \cup {row} : \E i \in 1 .. n + 1 : q[i] = e
  BY <1>2, <1>4, <1>6
<1>9. q \in Bijection(1 .. n + 1, rows \cup {row})
  BY <1>5, <1>7, <1>8 DEF Bijection, Injection, Surjection, IsInjective
<1>10. \A i \in 1 .. n + 1 : more[i] = Chart(q[i], values)
  BY <1>1, <1>3, <1>6
<1> QED
  BY <1>9, <1>10 DEF Charts

\* Charts stay where they are as long as nothing is drawn over them.
LEMMA ChartsStay ==
  ASSUME SamePages(states), NEW rows, HasCharts(rows),
         \A area \in {"col1", "col2"} :
           /\ cursor'[area] = cursor[area]
           /\ \A i \in 1 .. cursor[area] : display'[area][i] = display[area][i]
  PROVE  HasCharts(rows)'
<1>1. ASSUME NEW area \in {"col1", "col2"}
      PROVE  Charts(display[area], cursor[area], InColumn(area, rows), states)'
  <2>1. PICK r \in Bijection(1 .. cursor[area], InColumn(area, rows)) :
             \A i \in 1 .. cursor[area] : display[area][i] = Chart(r[i], states)
    BY DEF HasCharts, Charts
  <2>2. \A row : Chart(row, states)' = Chart(row, states)
    BY DEF SamePages
  <2> QED
    BY <2>1, <2>2 DEF Charts
<1> QED
  BY <1>1 DEF HasCharts

\* Each row goes from the query to the column of its trend, and its chart is
\* added there.
LEMMA ColumnsGrow ==
  ASSUME SamePages(states), PageOK, NEW rows, NEW row, row \notin rows, HasCharts(rows),
         Drawn(TrendColumn(row), Chart(row, states))
  PROVE  HasCharts(rows \cup {row})'
<1> DEFINE column == TrendColumn(row)
<1>1. column \in {"col1", "col2"} /\ {"col1", "col2"} \subseteq Areas
  BY DEF TrendColumn, Areas
<1>2. ASSUME NEW area \in {"col1", "col2"}
      PROVE  Charts(display'[area], cursor'[area], InColumn(area, rows \cup {row}), states)
  <2>1. Charts(display[area], cursor[area], InColumn(area, rows), states) /\ cursor[area] \in Nat
    BY <1>1 DEF HasCharts, PageOK
  <2>2. CASE area = column
    <3>1. /\ InColumn(area, rows \cup {row}) = InColumn(area, rows) \cup {row}
          /\ row \notin InColumn(area, rows)
      BY <2>2 DEF InColumn
    <3>2. /\ \A i \in 1 .. cursor[area] : display'[area][i] = display[area][i]
          /\ display'[area][cursor[area] + 1] = Chart(row, states)
          /\ cursor'[area] = cursor[area] + 1
      BY <2>2 DEF Drawn
    <3>3. Charts(display'[area], cursor[area] + 1, InColumn(area, rows) \cup {row}, states)
      BY <2>1, <3>1, <3>2, ChartAdded
    <3> QED
      BY <3>1, <3>2, <3>3
  <2>3. CASE area # column
    <3>1. InColumn(area, rows \cup {row}) = InColumn(area, rows)
      BY <2>3 DEF InColumn
    <3>2. display'[area] = display[area] /\ cursor'[area] = cursor[area]
      BY <1>1, <2>3 DEF Drawn
    <3> QED
      BY <2>1, <3>1, <3>2
  <2> QED
    BY <2>2, <2>3
<1>3. \A r : Chart(r, states)' = Chart(r, states)
  BY DEF SamePages
<1>4. ASSUME NEW area \in {"col1", "col2"}
      PROVE  Charts(display[area], cursor[area], InColumn(area, rows \cup {row}), states)'
  <2> DEFINE all == InColumn(area, rows \cup {row})
  <2>1. PICK r \in Bijection(1 .. cursor'[area], all) :
             \A i \in 1 .. cursor'[area] : display'[area][i] = Chart(r[i], states)
    BY <1>2 DEF Charts
  <2> HIDE DEF all
  <2>2. Charts(display[area], cursor[area], all, states)'
    BY <1>3, <2>1 DEF Charts
  <2> QED
    BY <2>2 DEF all
<1> QED
  BY <1>4 DEF HasCharts

\* The loop over the rows: it draws one, fails at one without a momentum, or
\* has drawn them all.
LEMMA ChartKeeps ==
  ASSUME Inv, DrawChart, Rest  PROVE Inv'
<1>0. PICK row, before, sidebar, main :
        /\ row = Head(stocks) /\ before = Found(states) \ ToSet(stocks)
        /\ sidebar = SidebarFor(states) /\ main = MainFor(states)
  OBVIOUS
<1>1. pc = "chart" /\ "chart" \in Statements /\ "end" \in Statements \ {"chart"}
  BY DEF DrawChart, Statements, StCalls
<1>2. /\ ToSet(stocks) \subseteq Found(states) /\ IsInjective(stocks)
      /\ before \subseteq Valued(states) /\ HasCharts(before)
      /\ ScanRun(states) /\ HomeRun(states) /\ Found(states) # {} /\ html \in BOOLEAN /\ PageOK
      /\ cursor["sidebar"] = 7 /\ cursor["main"] = 1 /\ BranchAt("end", states)
      /\ Begins(display["sidebar"], 7, sidebar) /\ Begins(display["main"], 1, main)
      /\ stocks \in Seq(Joined(db))
  BY <1>0, <1>1, RunIsAt DEF Inv, RunOK, RunAt, DrawnAt, ColumnsAt, BranchAt, SidebarAt, MainAt
<1>3. /\ Len(sidebar) = 7
      /\ Found(states) = Valued(states) => Len(main) = 1
      /\ Found(states) # Valued(states) => Len(main) = 2 /\ main[2] = NoValue
  BY <1>0, <1>2, Sidebars, Mains
<1>4. stocks # << >> => /\ ToSet(stocks) = {row} \cup ToSet(Tail(stocks))
                        /\ row \notin ToSet(Tail(stocks))
                        /\ Tail(stocks) \in Seq(Joined(db)) /\ IsInjective(Tail(stocks))
  BY <1>0, <1>2, FirstRow
<1>5. CASE /\ stocks # << >> /\ row.momentum.value # NULL
           /\ Draw(TrendColumn(row), Chart(row, states), "chart") /\ stocks' = Tail(stocks)
  <2>1. Emit(TrendColumn(row), Chart(row, states)) /\ pc' = "chart" /\ Kept
    BY <1>5, DrawIsEmit
  <2>2. SamePages(states)
    BY <2>1, PagesStay DEF Kept
  <2>3. TrendColumn(row) \in Areas \ {"sidebar", "main"} /\ {"sidebar", "main"} \subseteq Areas
    BY DEF TrendColumn, Areas
  <2>4. PageOK' /\ Drawn(TrendColumn(row), Chart(row, states))
    BY <1>2, <2>1, <2>3, EmitDraws
  <2>5. /\ display'["sidebar"] = display["sidebar"] /\ cursor'["sidebar"] = 7
        /\ display'["main"] = display["main"] /\ cursor'["main"] = 1
    BY <1>2, <2>3, <2>4 DEF Drawn
  <2>6. /\ row \in Found(states) /\ row \notin before
        /\ Found(states) \ ToSet(stocks') = before \cup {row}
        /\ ToSet(stocks') \subseteq Found(states)
    BY <1>0, <1>2, <1>4, <1>5
  <2>7. before \cup {row} \subseteq Valued(states)
    BY <1>2, <1>5, <2>6 DEF Valued
  <2>8. HasCharts(before \cup {row})'
    BY <1>2, <2>2, <2>4, <2>6, ColumnsGrow
  <2>9. Found(states)' = Found(states) /\ Valued(states)' = Valued(states)
    BY <2>2 DEF SamePages
  <2>10. (Found(states) \ ToSet(stocks))' = before \cup {row}
    BY <2>6, <2>9
  <2>11. HasCharts(Found(states) \ ToSet(stocks))'
    BY <2>8, <2>10 DEF HasCharts
  <2>12. ColumnsAt("chart")'
    BY <1>4, <1>5, <2>6, <2>7, <2>9, <2>10, <2>11 DEF ColumnsAt
  <2>13. BranchAt("chart", states)
    BY <1>2 DEF BranchAt
  <2>14. DrawnAt("chart", SidebarFor(states), MainFor(states))'
    BY <1>0, <1>2, <2>2, <2>5 DEF DrawnAt, SidebarAt, MainAt, SamePages
  <2>15. \A i \in DOMAIN display'["sidebar"] : display'["sidebar"][i] \in Widgets
    BY <2>5 DEF Inv, SidebarOK
  <2> QED
    BY <1>1, <1>4, <1>5, <2>1, <2>4, <2>12, <2>13, <2>14, <2>15, RunOn
<1>6. CASE stocks # << >> /\ row.momentum.value = NULL /\ Raise(NoValue) /\ UNCHANGED stocks
  <2>1. Emit("main", NoValue) /\ pc' = "end" /\ Kept
    BY <1>6 DEF Raise, Rest, Kept
  <2>2. SamePages(states)
    BY <2>1, PagesStay DEF Kept
  <2>3. PageOK' /\ Drawn("main", NoValue)
    BY <1>2, <2>1, EmitDraws DEF Areas
  <2>4. /\ display'["sidebar"] = display["sidebar"] /\ cursor'["sidebar"] = 7
        /\ display'["col1"] = display["col1"] /\ cursor'["col1"] = cursor["col1"]
        /\ display'["col2"] = display["col2"] /\ cursor'["col2"] = cursor["col2"]
        /\ cursor'["main"] = 2
    BY <1>2, <2>3 DEF Drawn, Areas
  <2>5. row \in Found(states) /\ row \notin Valued(states)
    BY <1>2, <1>4, <1>6 DEF Valued
  <2>6. before \in DrawingsFor(states) /\ Len(main) = 2 /\ main[2] = NoValue
    BY <1>2, <1>3, <2>5 DEF DrawingsFor
  <2>7. Begins(display'["main"], 2, main)
    <3>1. cursor["main"] + 1 = 2
      BY <1>2
    <3> QED
      BY <1>2, <2>3, <2>4, <2>6, <3>1, DrawnBegins DEF Areas
  <2>8. HasCharts(before)'
    BY <1>2, <2>2, <2>4, ChartsStay
  <2>9. ColumnsAt("end")'
    BY <2>2, <2>6, <2>8 DEF ColumnsAt, SamePages
  <2>10. DrawnAt("end", SidebarFor(states), MainFor(states))'
    BY <1>0, <1>2, <1>3, <2>2, <2>4, <2>6, <2>7
       DEF DrawnAt, SidebarAt, MainAt, SamePages
  <2>11. \A i \in DOMAIN display'["sidebar"] : display'["sidebar"][i] \in Widgets
    BY <2>4 DEF Inv, SidebarOK
  <2> QED
    BY <1>1, <1>2, <1>6, <2>1, <2>3, <2>9, <2>10, <2>11, RunOn
<1>7. CASE stocks = << >> /\ Compute("end") /\ UNCHANGED stocks
  <2>1. Compute("end") /\ Kept /\ display' = display /\ cursor' = cursor
    BY <1>7 DEF Compute, Rest, Kept, page
  <2>2. SamePages(states)
    BY <2>1, PagesStay DEF Kept
  <2>3. before = Found(states) /\ Found(states) = Valued(states)
    <3>1. ToSet(<< >>) = {}
      BY DEF ToSet
    <3>2. before = Found(states)
      BY <1>0, <1>7, <3>1
    <3>3. Valued(states) \subseteq Found(states)
      BY DEF Valued
    <3> QED
      BY <1>2, <3>2, <3>3
  <2>4. before \in DrawingsFor(states)
    BY <1>2, <2>3 DEF DrawingsFor
  <2>5. HasCharts(before)'
    BY <1>2, <2>1, <2>2, ChartsStay
  <2>6. ColumnsAt("end")'
    BY <2>2, <2>4, <2>5 DEF ColumnsAt, SamePages
  <2>7. SidebarAt("end", cursor["sidebar"], sidebar) /\ MainAt("end", cursor["main"], main)
    BY <1>2, <1>3, <2>3 DEF SidebarAt, MainAt
  <2>8. sidebar = SidebarFor(states) /\ main = MainFor(states) /\ stocks' \in Seq(Joined(db))
    BY <1>0, <1>2, <1>7
  <2> QED
    BY <1>1, <1>2, <2>1, <2>6, <2>7, <2>8, ComputeKeeps
<1> QED
  BY <1>0, <1>5, <1>6, <1>7 DEF DrawChart, NoValue

-----------------------------------------------------------------------------
(***************************************************************************)
(* Runs begin and end, and the user touches widgets.                       *)
(***************************************************************************)
\* A run begins; whatever the page shows, it has drawn nothing yet.
LEMMA StartRunKeeps ==
  ASSUME Inv, StartRun(StCalls), asked' = {}, answering' = asked,
         UNCHANGED <<stocks, edits, db, html, touches>>
  PROVE  Inv'
<1>1. /\ pc' = "load" /\ rerun' = FALSE /\ states' = store /\ cursor' = [a \in Areas |-> 0]
      /\ store' = [w \in {v \in DOMAIN store : ~v.button} |-> store[w]] /\ display' = display
  BY DEF StartRun, Top
<1>2. SamePages(store)
  BY <1>1, PagesStay
<1>3. PageOK'
  <2>1. ASSUME NEW a \in Areas  PROVE 0 <= Len(display[a])
    <3>1. PICK S : display[a] \in Seq(S)
      BY DEF Inv, PageOK, IsSeq
    <3> QED
      BY <3>1
  <2> QED
    BY <1>1, <2>1 DEF Inv, PageOK
<1>4. ControlOK'
  BY <1>1 DEF Inv, ControlOK, Statements
<1>5. ValuesOK'
  BY <1>1 DEF Inv, ValuesOK, HaveOptions
<1>6. SidebarOK'
  BY <1>1, <1>2 DEF Inv, SidebarOK, SamePages
<1>7. ButtonsOK'
  <2>1. PressedIn(store', {})
    BY <1>1 DEF PressedIn
  <2>2. PressedIn(states', answering')
    BY <1>1 DEF Inv, ButtonsOK, PressedIn
  <2> QED
    BY <2>1, <2>2 DEF ButtonsOK, PressedIn, Buttons
<1>8. RunAt("load")'
  <2>1. cursor'["sidebar"] = 0 /\ cursor'["main"] = 0 /\ cursor'["col1"] = 0 /\ cursor'["col2"] = 0
    BY <1>1 DEF Areas
  <2>2. 0 <= Len(SidebarFor(store)) /\ 0 <= Len(MainFor(store))
    <3>1. html \in BOOLEAN
      BY DEF Inv, ControlOK
    <3>2. Len(SidebarFor(store)) \in 1 .. 7 /\ Len(MainFor(store)) \in 1 .. 3
      BY <3>1, Sidebars, Mains
    <3> QED
      BY <3>2
  <2>3. 0 <= Len(SidebarFor(states)') /\ 0 <= Len(MainFor(states)')
    BY <1>2, <2>2 DEF SamePages
  <2>4. DrawnAt("load", SidebarFor(states), MainFor(states))'
    BY <2>1, <2>3 DEF DrawnAt, SidebarAt, MainAt, Begins
  <2>5. BranchAt("load", states)' /\ ColumnsAt("load")'
    BY <2>1 DEF BranchAt, ColumnsAt
  <2> QED
    BY <2>4, <2>5 DEF RunAt
<1>9. RunOK'
  BY <1>1, <1>8 DEF RunOK, AtRest
<1>10. RemembersOK'
  BY <1>1 DEF RemembersOK
<1> QED
  BY <1>3, <1>4, <1>5, <1>6, <1>7, <1>9, <1>10 DEF Inv

\* A run ends; its page is what it has drawn.
LEMMA EndRunKeeps ==
  ASSUME Inv, EndRun, edits' = [w \in DOMAIN edits \cap ToSet(display'["sidebar"]) |-> edits[w]],
         UNCHANGED <<stocks, asked, answering, db, html, touches>>
  PROVE  Inv'
<1>1. /\ pc = "end" /\ pc' = "idle" /\ cursor' = cursor /\ rerun' = rerun /\ states' = states
      /\ display' = [a \in Areas |-> SubSeq(display[a], 1, cursor[a])]
      /\ store' = [w \in {v \in DOMAIN store : rerun \/ v \in ToSet(display'["sidebar"])} |-> store[w]]
  BY DEF EndRun
<1>2. SamePages(states)
  BY <1>1, PagesStay
<1>3. ASSUME NEW a \in Areas
      PROVE  /\ IsSeq(display'[a]) /\ Len(display'[a]) = cursor'[a] /\ cursor'[a] <= Len(display'[a])
             /\ DOMAIN display'[a] \subseteq DOMAIN display[a]
             /\ \A i \in 1 .. cursor'[a] : display'[a][i] = display[a][i]
             /\ DOMAIN display'[a] = 1 .. cursor'[a]
  <2>1. PICK S : display[a] \in Seq(S)
    BY DEF Inv, PageOK, IsSeq
  <2> DEFINE d == display[a]
             n == cursor[a]
             e == SubSeq(d, 1, n)
  <2>2. n \in Nat /\ n <= Len(d) /\ d \in Seq(S)
    BY <2>1 DEF Inv, PageOK
  <2>3. display'[a] = e /\ cursor'[a] = n
    BY <1>1
  <2> HIDE DEF d, n
  <2>4. e \in Seq(S) /\ Len(e) = n /\ DOMAIN e = 1 .. n /\ \A i \in 1 .. n : e[i] = d[i]
    BY <2>2
  <2>5. DOMAIN e \subseteq DOMAIN d
    BY <2>2, <2>4
  <2> HIDE DEF e
  <2>6. IsSeq(e) /\ n <= Len(e)
    BY <2>2, <2>4 DEF IsSeq
  <2> QED
    BY <2>3, <2>4, <2>5, <2>6 DEF d
<1>4. {"sidebar", "main", "col1", "col2"} = Areas
  BY DEF Areas
<1>5. PageOK'
  BY <1>1, <1>3 DEF Inv, PageOK
<1>6. ControlOK' /\ ValuesOK'
  BY <1>1 DEF Inv, ControlOK, ValuesOK, HaveOptions
<1>7. SidebarOK'
  BY <1>2, <1>3, <1>4 DEF Inv, SidebarOK, SamePages
<1>8. ButtonsOK'
  <2>1. PressedIn(store', asked')
    <3>1. CASE rerun
      <4>1. DOMAIN store' = DOMAIN store /\ \A w \in DOMAIN store : store'[w] = store[w]
        BY <1>1, <3>1
      <4>2. asked' = asked /\ PressedIn(store, asked)
        BY DEF Inv, ButtonsOK
      <4>3. \A w \in asked : w \in DOMAIN store
        BY <4>2, ButtonsOfWidgets DEF PressedIn
      <4> QED
        BY <4>1, <4>2, <4>3 DEF PressedIn, Buttons
    <3>2. CASE ~rerun
      <4>1. asked = {} /\ \A w : w.button => w \notin DOMAIN store
        BY <3>2 DEF Inv, ButtonsOK, PressedIn, ControlOK
      <4>2. \A w : w.button => w \notin DOMAIN store'
        BY <1>1, <4>1
      <4> QED
        BY <4>1, <4>2 DEF PressedIn
    <3> QED
      BY <3>1, <3>2
  <2> QED
    BY <1>1, <2>1 DEF Inv, ButtonsOK, PressedIn, Buttons
<1>9. RunAt("end") /\ RunAt("end")'
  <2>1. RunAt("end")
    BY <1>1 DEF Inv, RunOK
  <2>2. BranchAt("end", states)'
    BY DEF BranchAt
  <2>3. DrawnAt("end", SidebarFor(states), MainFor(states))'
    BY <1>1, <1>2, <1>3, <1>4, <2>1 DEF RunAt, DrawnAt, SidebarAt, MainAt, Begins, SamePages
  <2>4. PICK rows \in DrawingsFor(states) : HasCharts(rows)
    BY <2>1 DEF RunAt, ColumnsAt
  <2>5. HasCharts(rows)' /\ rows \in DrawingsFor(states)'
    BY <1>1, <1>2, <1>3, <1>4, <2>4, ChartsStay DEF SamePages
  <2>6. ColumnsAt("end")'
    BY <2>5 DEF ColumnsAt
  <2> QED
    BY <2>1, <2>2, <2>3, <2>6 DEF RunAt
<1>10. RunOK'
  BY <1>1, <1>3, <1>9 DEF RunOK
<1>11. RemembersOK'
  BY <1>1 DEF Inv, RemembersOK
<1> QED
  BY <1>5, <1>6, <1>7, <1>8, <1>10, <1>11 DEF Inv

\* What the user does between the steps of a run, and what nobody does.
LEMMA OutsideKeeps ==
  ASSUME Inv, UNCHANGED <<display, cursor, pc, states, db, html, stocks, answering>>,
         touches' \in 0 .. MaxTouches, HaveOptions(store'), HaveOptions(edits'),
         \A w \in DOMAIN edits' : ~w.button, PressedIn(store', asked'),
         \/ rerun' = TRUE
         \/ rerun' = rerun /\ store' = store /\ asked' = asked
  PROVE  Inv'
<1>1. SamePages(states)
  BY PagesStay
<1>2. PageOK' /\ ControlOK' /\ ValuesOK' /\ SidebarOK'
  BY <1>1 DEF Inv, PageOK, ControlOK, ValuesOK, HaveOptions, SidebarOK, SamePages
<1>3. ButtonsOK'
  BY DEF Inv, ButtonsOK, PressedIn, Buttons
<1>4. ASSUME NEW p, RunAt(p)  PROVE RunAt(p)'
  <2>1. BranchAt(p, states)'
    BY <1>1, <1>4 DEF RunAt, BranchAt, SamePages
  <2>2. DrawnAt(p, SidebarFor(states), MainFor(states))'
    BY <1>1, <1>4 DEF RunAt, DrawnAt, SamePages
  <2>3. ColumnsAt(p)'
    <3>1. ASSUME NEW rows, HasCharts(rows)  PROVE HasCharts(rows)'
      BY <1>1, <3>1, ChartsStay
    <3>2. /\ Found(states)' = Found(states) /\ Valued(states)' = Valued(states)
          /\ DrawingsFor(states)' = DrawingsFor(states) /\ ColumnsAt(p)
      BY <1>1, <1>4 DEF SamePages, RunAt
    <3>3. ASSUME p = "chart"  PROVE HasCharts(Found(states) \ ToSet(stocks))'
      <4> DEFINE left == Found(states) \ ToSet(stocks)
      <4>1. HasCharts(left)
        BY <3>2, <3>3 DEF ColumnsAt
      <4>2. left' = left
        BY <3>2
      <4> HIDE DEF left
      <4>3. HasCharts(left)'
        BY <3>1, <4>1, <4>2 DEF HasCharts
      <4> QED
        BY <4>3 DEF left
    <3>4. ASSUME p = "end"  PROVE \E rows \in DrawingsFor(states)' : HasCharts(rows)'
      BY <3>1, <3>2, <3>4 DEF ColumnsAt
    <3> QED
      BY <3>2, <3>3, <3>4 DEF ColumnsAt
  <2> QED
    BY <2>1, <2>2, <2>3 DEF RunAt
<1>5. RunOK'
  BY <1>4 DEF Inv, RunOK, AtRest, ControlOK
<1>6. RemembersOK'
  BY DEF Inv, RemembersOK, ControlOK
<1> QED
  BY <1>2, <1>3, <1>5, <1>6 DEF Inv

\* The user picks a page, enters a value in a form, or presses a button.
LEMMA UserKeeps ==
  ASSUME Inv, User  PROVE Inv'
<1>1. /\ touches' \in 0 .. MaxTouches /\ UNCHANGED <<db, html, stocks, answering>>
      /\ HaveOptions(store) /\ HaveOptions(edits) /\ PressedIn(store, asked)
      /\ \A w \in DOMAIN edits : ~w.button
  BY TouchesAssumption DEF User, Inv, ControlOK, ValuesOK, ButtonsOK
<1>2. ASSUME NEW i \in DOMAIN PageMenu.options, PickPage(i)  PROVE Inv'
  <2>1. /\ rerun' = TRUE /\ UNCHANGED <<display, cursor, pc, states, edits, asked>>
        /\ store' = [w \in DOMAIN store \cup {PageMenu} |-> IF w \in {PageMenu} THEN i ELSE store[w]]
    BY <1>2 DEF PickPage, Touch, Updated, page
  <2>2. ~PageMenu.button /\ \A b \in Buttons : b.button
    BY ButtonsOfWidgets
  <2>3. HaveOptions(store')
    BY <1>1, <2>1 DEF HaveOptions
  <2>4. PressedIn(store', asked')
    BY <1>1, <2>1, <2>2 DEF PressedIn, Buttons
  <2> QED
    BY <1>1, <2>1, <2>3, <2>4, OutsideKeeps
<1>3. ASSUME NEW w, ~w.button, NEW i \in DOMAIN w.options, Edit(w, i)  PROVE Inv'
  <2>1. /\ UNCHANGED <<store, rerun, display, cursor, pc, states, asked>>
        /\ edits' = [v \in DOMAIN edits \cup {w} |-> IF v \in {w} THEN i ELSE edits[v]]
    BY <1>3 DEF Edit, Updated, streamlit, page
  <2>2. HaveOptions(edits') /\ \A v \in DOMAIN edits' : ~v.button
    BY <1>1, <1>3, <2>1 DEF HaveOptions
  <2> QED
    BY <1>1, <2>1, <2>2, OutsideKeeps DEF PressedIn, Buttons
<1>4. ASSUME NEW form \in {HomeForm, StockForm}, NEW b \in ToSet(form), b.button, Submit(form, b)
      PROVE  Inv'
  <2>1. b \in Buttons /\ b.options = <<"released", "pressed">>
    BY <1>4, ButtonsOfWidgets DEF Widgets
  <2> DEFINE sent == DOMAIN edits \cap ToSet(form)
             value(w) == IF w = b THEN 2 ELSE edits[w]
  <2>2. /\ rerun' = TRUE /\ UNCHANGED <<display, cursor, pc, states>>
        /\ store' = [w \in DOMAIN store \cup (sent \cup {b}) |->
                       IF w \in sent \cup {b} THEN value(w) ELSE store[w]]
        /\ edits' = [w \in DOMAIN edits \ sent |-> edits[w]]
        /\ asked' = asked \cup {b}
    BY <1>4 DEF Submit, Touch, Updated, page
  <2>3. 2 \in DOMAIN b.options
    BY <2>1
  <2>4. HaveOptions(store')
    BY <1>1, <2>2, <2>3 DEF HaveOptions
  <2>5. HaveOptions(edits') /\ \A w \in DOMAIN edits' : ~w.button
    BY <1>1, <2>2 DEF HaveOptions
  <2>6. PressedIn(store', asked')
    <3>1. asked \cup {b} \subseteq Buttons
      BY <1>1, <2>1 DEF PressedIn
    <3>2. ASSUME NEW w, w.button  PROVE w \in DOMAIN store' <=> w \in asked \cup {b}
      <4>1. w \notin sent
        BY <1>1, <3>2
      <4> QED
        BY <1>1, <2>2, <3>2, <4>1 DEF PressedIn
    <3>3. ASSUME NEW w \in asked \cup {b}  PROVE store'[w] = 2
      <4>1. w.button
        BY <3>1, ButtonsOfWidgets
      <4>2. w \notin sent /\ w \in DOMAIN store'
        BY <1>1, <3>2, <4>1
      <4> QED
        BY <1>1, <2>2, <4>2 DEF PressedIn
    <3> QED
      BY <2>2, <3>1, <3>2, <3>3 DEF PressedIn, Buttons
  <2> QED
    BY <1>1, <2>2, <2>4, <2>5, <2>6, OutsideKeeps
<1> QED
  BY <1>2, <1>3, <1>4 DEF User

\* The invariant.
LEMMA StockInvariant == Spec => []Inv
<1>1. Init => Inv
  <2> SUFFICES ASSUME Init  PROVE Inv
    OBVIOUS
  <2>1. /\ store = << >> /\ states = << >> /\ edits = << >> /\ rerun = TRUE /\ pc = "idle"
        /\ touches = 0 /\ stocks = << >> /\ asked = {} /\ answering = {}
        /\ db \in Databases /\ html \in BOOLEAN
        /\ display = [a \in Areas |-> << >>] /\ cursor = [a \in Areas |-> 0]
    BY DEF Init, Open, Top
  <2>2. PageOK
    BY <2>1, TuplesAreSeqs DEF PageOK
  <2>3. ControlOK
    BY <2>1, TouchesAssumption DEF ControlOK
  <2>4. ValuesOK /\ SidebarOK /\ ButtonsOK
    BY <2>1 DEF ValuesOK, HaveOptions, SidebarOK, ButtonsOK, PressedIn, Areas
  <2>5. RunOK /\ RemembersOK
    BY <2>1 DEF RunOK, AtRest, RemembersOK
  <2> QED
    BY <2>2, <2>3, <2>4, <2>5 DEF Inv
<1>2. Inv /\ [Next]_vars => Inv'
  <2> SUFFICES ASSUME Inv, [Next]_vars  PROVE Inv'
    OBVIOUS
  <2>1. ASSUME Show, UNCHANGED <<db, html, touches>>  PROVE Inv'
    <3>1. CASE (Load \/ DrawPageMenu \/ HomePage \/ DisplayPage) /\ UNCHANGED <<stocks, edits, presses>>
      <4>1. Rest /\ stocks' = stocks
        BY <2>1, <3>1 DEF Rest, presses
      <4> QED
        BY <3>1, <4>1, LoadKeeps, PageMenuKeeps, HomePageKeeps, DisplayPageKeeps
    <3>2. CASE (Query \/ DrawChart) /\ UNCHANGED <<edits, presses>>
      <4>1. Rest
        BY <2>1, <3>2 DEF Rest, presses
      <4> QED
        BY <3>2, <4>1, QueryKeeps, ChartKeeps
    <3>3. CASE /\ StartRun(StCalls) /\ asked' = {} /\ answering' = asked
               /\ UNCHANGED <<stocks, edits>>
      BY <2>1, <3>3, StartRunKeeps
    <3>4. CASE /\ EndRun
               /\ edits' = [w \in DOMAIN edits \cap ToSet(display'.sidebar) |-> edits[w]]
               /\ UNCHANGED <<stocks, presses>>
      BY <2>1, <3>4, EndRunKeeps DEF presses
    <3> QED
      BY <2>1, <3>1, <3>2, <3>3, <3>4 DEF Show
  <2>2. CASE User
    BY <2>2, UserKeeps
  <2>3. CASE UNCHANGED vars
    <3>1. UNCHANGED <<store, display, cursor, rerun, pc, states, db, html, stocks, edits, touches,
                      asked, answering>>
      BY <2>3 DEF vars, streamlit, page, user, presses
    <3> QED
      BY <3>1, OutsideKeeps DEF Inv, ControlOK, ValuesOK, ButtonsOK, HaveOptions, PressedIn, Buttons
  <2> QED
    BY <2>1, <2>2, <2>3 DEF Next, Server
<1> QED
  BY <1>1, <1>2, PTL DEF Spec

-----------------------------------------------------------------------------
(***************************************************************************)
(* The theorems.                                                           *)
(***************************************************************************)
\* The options of an entry of a date are the days.
LEMMA DateInputs ==
  ASSUME NEW w \in {StartDate, EndDate, MarkDate}
  PROVE  w.index \in {EarliestDate, Today} /\ w.options = [d \in 1 .. LastDate |-> d]
<1> DEFINE days == [d \in 1 .. LastDate |-> d]
<1>1. /\ StartDate = Selectbox("Start Date:", days, EarliestDate)
      /\ EndDate = Selectbox("End Date:", days, Today)
      /\ MarkDate = Selectbox("Pattern Detection Date:", days, Today)
  BY DEF StartDate, EndDate, MarkDate, DateInput
<1> HIDE DEF days
<1>2. \A label, index : /\ Selectbox(label, days, index).index = index
                        /\ Selectbox(label, days, index).options = days
  BY DEF Selectbox
<1>3. w.index \in {EarliestDate, Today} /\ w.options = days
  BY <1>1, <1>2
<1> QED
  BY <1>3 DEF days

\* A menu with options, or an entry of a date, has a default.
LEMMA WidgetDefaults ==
  ASSUME db \in Databases, NEW w \in Widgets, w.options # << >>
  PROVE  w.index \in DOMAIN w.options
<1>1. ASSUME NEW s, s \in Seq(ToSet(s)), NEW t, DOMAIN t = DOMAIN s,
             t = [i \in DOMAIN t |-> t[i]], t # << >>
      PROVE  1 \in DOMAIN t
  <2>1. DOMAIN s = 1 .. Len(s) /\ Len(s) \in Nat
    BY <1>1
  <2>2. ASSUME Len(s) = 0  PROVE t = << >>
    <3>1. DOMAIN t = {}
      BY <1>1, <2>1, <2>2
    <3> QED
      BY <1>1, <3>1
  <2> QED
    BY <1>1, <2>1, <2>2
<1>2. CASE w = PageMenu
  <2>1. w.index = 1 /\ w.options = <<"Home", "View Stocks">>
    BY <1>2 DEF PageMenu, Selectbox
  <2>2. 1 \in DOMAIN <<"Home", "View Stocks">>
    OBVIOUS
  <2> QED
    BY <2>1, <2>2
<1>3. CASE w = PatternSelector
  <2>1. w.index = 1 /\ w.options = PatternIds(db)
    BY <1>3 DEF PatternSelector, Selectbox
  <2>2. /\ DOMAIN PatternIds(db) = DOMAIN db.candle_patterns
        /\ PatternIds(db) = [i \in DOMAIN PatternIds(db) |-> PatternIds(db)[i]]
    BY DEF PatternIds
  <2>3. db.candle_patterns \in Seq(ToSet(db.candle_patterns))
    BY DatabasesAssumption DEF IsDatabase
  <2> QED
    BY <1>1, <2>1, <2>2, <2>3
<1>4. CASE w = StockPool
  <2>1. w.index = 1 /\ w.options = StockIds(db)
    BY <1>4 DEF StockPool, Selectbox
  <2>2. /\ DOMAIN StockIds(db) = DOMAIN db.stock_list
        /\ StockIds(db) = [i \in DOMAIN StockIds(db) |-> StockIds(db)[i]]
    BY DEF StockIds
  <2>3. db.stock_list \in Seq(ToSet(db.stock_list))
    BY DatabasesAssumption DEF IsDatabase
  <2> QED
    BY <1>1, <2>1, <2>2, <2>3
<1>5. CASE w \in {StartDate, EndDate, MarkDate}
  <2>1. w.index \in {EarliestDate, Today} /\ w.options = [d \in 1 .. LastDate |-> d]
    BY <1>5, DateInputs
  <2> QED
    BY <2>1, DatesAssumption
<1>6. CASE w \in Buttons
  <2>1. w.index = 1 /\ w.options = <<"released", "pressed">>
    BY <1>6, ButtonsOfWidgets
  <2> QED
    BY <2>1
<1> QED
  BY <1>2, <1>3, <1>4, <1>5, <1>6, FormSets DEF Widgets, Buttons

(***************************************************************************)
(* Every widget of stock_app.py, whether the present run drew it or it is  *)
(* left of an earlier one, has a default, and every value that the browser *)
(* holds, submitted or not, is one of its widget's options, for every      *)
(* database; presses are of buttons, and the rows left to draw are rows of *)
(* the four joined tables.                                                 *)
(***************************************************************************)
THEOREM StockTypeCorrect == Spec => []TypeOK
<1>1. Inv => TypeOK
  <2> SUFFICES ASSUME Inv  PROVE TypeOK
    OBVIOUS
  <2>1. ASSUME NEW a \in Areas  PROVE cursor[a] \in 0 .. Len(display[a])
    <3>1. PICK S : display[a] \in Seq(S)
      BY DEF Inv, PageOK, IsSeq
    <3> QED
      BY <3>1 DEF Inv, PageOK
  <2>2. ASSUME NEW w \in ToSet(display["sidebar"]), w.options # << >>
        PROVE  w.index \in DOMAIN w.options
    <3>1. w \in Widgets /\ db \in Databases
      BY DEF ToSet, Inv, SidebarOK, ControlOK
    <3> QED
      BY <2>2, <3>1, WidgetDefaults
  <2>3. StreamlitTypeOK
    BY <2>1, <2>2 DEF StreamlitTypeOK, Inv, ControlOK, ValuesOK, HaveOptions
  <2>4. ToSet(stocks) \subseteq Joined(db)
    BY DEF ToSet, Inv, ControlOK
  <2> QED
    BY <2>3, <2>4
       DEF TypeOK, Inv, ControlOK, ValuesOK, HaveOptions, ButtonsOK, PressedIn, Statements, Buttons
<1> QED
  BY <1>1, StockInvariant, PTL

\* At rest the sidebar and the main area are those of the values that the last
\* run read,
LEMMA RestShows ==
  ASSUME Inv, AtRest
  PROVE  /\ display["sidebar"] = SidebarFor(states) /\ display["main"] = MainFor(states)
         /\ \E rows \in DrawingsFor(states) : \A area \in {"col1", "col2"} :
              Charts(display[area], Len(display[area]), InColumn(area, rows), states)
<1>1. /\ RunAt("end") /\ \A a \in Areas : Len(display[a]) = cursor[a] /\ IsSeq(display[a])
      /\ html \in BOOLEAN
  BY DEF Inv, RunOK, PageOK, ControlOK
<1>2. {"sidebar", "main", "col1", "col2"} = Areas
  BY DEF Areas
<1>3. IsSeq(SidebarFor(states)) /\ IsSeq(MainFor(states))
  <2>1. IsSeq(SidebarFor(states))
    BY <1>1, Sidebars
  <2>2. IsSeq(MainFor(states))
    BY <1>1, Mains
  <2> QED
    BY <2>1, <2>2
<1>4. /\ Len(display["sidebar"]) = Len(SidebarFor(states))
      /\ \A i \in 1 .. Len(display["sidebar"]) : display["sidebar"][i] = SidebarFor(states)[i]
      /\ Len(display["main"]) = Len(MainFor(states))
      /\ \A i \in 1 .. Len(display["main"]) : display["main"][i] = MainFor(states)[i]
  BY <1>1, <1>2 DEF RunAt, DrawnAt, SidebarAt, MainAt, Begins
<1>5. display["sidebar"] = SidebarFor(states)
  BY <1>1, <1>2, <1>3, <1>4, SameSeq
<1>6. display["main"] = MainFor(states)
  BY <1>1, <1>2, <1>3, <1>4, SameSeq
<1>7. \E rows \in DrawingsFor(states) : \A area \in {"col1", "col2"} :
        Charts(display[area], Len(display[area]), InColumn(area, rows), states)
  BY <1>1, <1>2 DEF RunAt, ColumnsAt, HasCharts
<1> QED
  BY <1>5, <1>6, <1>7

\* on which the values in the browser and the presses before it agree.
LEMMA RestAgrees ==
  ASSUME Inv, AtRest
  PROVE  /\ \A w \in ToSet(SidebarFor(states)) : Selected(Asked, w) = Selected(states, w)
         /\ \A w \in ToSet(SidebarFor(states)) : ~w.button => Selected(store, w) = Selected(states, w)
         /\ \A b \in Buttons : Pressed(Asked, b) <=> b \in answering
         /\ \A b \in Buttons : Pressed(states, b) <=> b \in answering
<1>1. /\ DOMAIN Asked = DOMAIN store \cup answering
      /\ \A w \in DOMAIN Asked : Asked[w] = IF w \in answering THEN 2 ELSE store[w]
  BY DEF Asked, Updated
<1>2. PressedIn(states, answering) /\ PressedIn(store, {})
  BY DEF Inv, ButtonsOK, AtRest, ControlOK
<1>3. PressedIn(Asked, answering)
  BY <1>1, <1>2 DEF PressedIn
<1>4. \A w \in answering : w.button
  BY <1>2, ButtonsOfWidgets DEF PressedIn
<1>5. ASSUME NEW w \in ToSet(SidebarFor(states)), ~w.button
      PROVE  Selected(Asked, w) = Selected(states, w) /\ Selected(store, w) = Selected(states, w)
  <2>1. /\ w \in DOMAIN store <=> w \in DOMAIN states
        /\ w \in DOMAIN store => store[w] = states[w]
    BY <1>5, RestShows DEF Inv, RemembersOK, AtRest
  <2>2. /\ w \in DOMAIN Asked <=> w \in DOMAIN states
        /\ w \in DOMAIN Asked => Asked[w] = states[w]
    BY <1>1, <1>4, <1>5, <2>1
  <2> QED
    BY <2>1, <2>2 DEF Selected
<1>6. ASSUME NEW w, w.button  PROVE Selected(Asked, w) = Selected(states, w)
  <2>1. /\ w \in DOMAIN Asked <=> w \in DOMAIN states
        /\ w \in DOMAIN Asked => Asked[w] = states[w]
    BY <1>2, <1>3, <1>6 DEF PressedIn
  <2> QED
    BY <2>1 DEF Selected
<1>7. \A b \in Buttons : /\ Pressed(Asked, b) <=> b \in answering
                         /\ Pressed(states, b) <=> b \in answering
  BY <1>2, <1>3, PressedValues
<1> QED
  BY <1>5, <1>6, <1>7

\* The page menu is on every page, and the widgets of a form on its page.
LEMMA WidgetsOnPage ==
  ASSUME html \in BOOLEAN
  PROVE  /\ PageMenu \in ToSet(SidebarFor(states))
         /\ HomeRun(states) => ToSet(HomeForm) \subseteq ToSet(SidebarFor(states))
         /\ ~HomeRun(states) /\ html => ToSet(StockForm) \subseteq ToSet(SidebarFor(states))
<1> DEFINE s == SidebarFor(states)
<1>1. /\ IsSeq(s) /\ Len(s) \in 1 .. 7 /\ s[1] = PageMenu
      /\ HomeRun(states) => Len(s) = 7 /\ \A i \in 1 .. 6 : s[i + 1] = HomeForm[i]
      /\ ~HomeRun(states) /\ html => Len(s) = 3 /\ \A i \in 1 .. 2 : s[i + 1] = StockForm[i]
  BY Sidebars
<1> HIDE DEF s
<1>2. DOMAIN s = 1 .. Len(s)
  BY <1>1 DEF IsSeq
<1>3. PageMenu \in ToSet(s)
  BY <1>1, <1>2 DEF ToSet
<1>4. ASSUME NEW form, NEW n \in Nat, DOMAIN form = 1 .. n, Len(s) = n + 1,
             \A i \in 1 .. n : s[i + 1] = form[i]
      PROVE  ToSet(form) \subseteq ToSet(s)
  <2>1. ASSUME NEW i \in 1 .. n  PROVE form[i] \in ToSet(s)
    <3>1. i + 1 \in DOMAIN s /\ s[i + 1] = form[i]
      BY <1>2, <1>4
    <3> QED
      BY <3>1 DEF ToSet
  <2> QED
    BY <1>4, <2>1 DEF ToSet
<1>5. DOMAIN HomeForm = 1 .. 6 /\ DOMAIN StockForm = 1 .. 2
  BY DEF HomeForm, StockForm
<1>6. ASSUME HomeRun(states)  PROVE ToSet(HomeForm) \subseteq ToSet(s)
  <2>1. Len(s) = 6 + 1 /\ \A i \in 1 .. 6 : s[i + 1] = HomeForm[i]
    BY <1>1, <1>6
  <2> QED
    BY <1>4, <1>5, <2>1
<1>7. ASSUME ~HomeRun(states), html  PROVE ToSet(StockForm) \subseteq ToSet(s)
  <2>1. Len(s) = 2 + 1 /\ \A i \in 1 .. 2 : s[i + 1] = StockForm[i]
    BY <1>1, <1>7
  <2> QED
    BY <1>4, <1>5, <2>1
<1> QED
  BY <1>3, <1>6, <1>7 DEF s

\* A scan at rest is that of the values its form was submitted with.
LEMMA RestScan ==
  ASSUME Inv, AtRest
  PROVE  /\ IsHome <=> HomeRun(states)
         /\ IsScan <=> ScanRun(states)
         /\ HomeRun(states) => Found(Asked) = Found(states) /\ Valued(Asked) = Valued(states)
         /\ HomeRun(states) => \A row : Chart(row, Asked) = Chart(row, states)
         /\ ~HomeRun(states) /\ html => StockElement(Asked) = StockElement(states)
         /\ Pressed(states, DisplayBtn) <=> DisplayBtn \in answering
<1>1. html \in BOOLEAN
  BY DEF Inv, ControlOK
<1>2. IsHome <=> HomeRun(states)
  BY <1>1, RestAgrees, WidgetsOnPage, ButtonsOfWidgets DEF IsHome, HomeRun
<1>3. /\ Pressed(states, ScanPattern) <=> ScanPattern \in answering
      /\ Pressed(states, ScanAll) <=> ScanAll \in answering
      /\ Pressed(states, DisplayBtn) <=> DisplayBtn \in answering
      /\ Pressed(Asked, ScanPattern) <=> ScanPattern \in answering
  BY RestAgrees DEF Buttons
<1>4. IsScan <=> ScanRun(states)
  BY <1>2, <1>3 DEF IsScan, ScanRun
<1>5. ASSUME HomeRun(states)
      PROVE  \A w \in {PatternSelector, StartDate, EndDate, MarkDate} :
               Selected(Asked, w) = Selected(states, w)
  BY <1>1, <1>5, RestAgrees, WidgetsOnPage, FormSets
<1>6. ASSUME HomeRun(states)
      PROVE  Found(Asked) = Found(states) /\ Valued(Asked) = Valued(states)
  BY <1>3, <1>5, <1>6 DEF Found, Valued, ScannedPatterns
<1>7. ASSUME HomeRun(states), NEW row
      PROVE  Chart(row, Asked) = Chart(row, states)
  BY <1>5, <1>7 DEF Chart
<1>8. ASSUME ~HomeRun(states), html
      PROVE  StockElement(Asked) = StockElement(states)
  <2>1. Selected(Asked, StockPool) = Selected(states, StockPool)
    BY <1>1, <1>8, RestAgrees, WidgetsOnPage, FormSets
  <2> QED
    BY <2>1 DEF StockElement
<1> QED
  BY <1>2, <1>3, <1>4, <1>6, <1>7, <1>8

\* Tuples joined.
LEMMA TuplesJoined ==
  /\ \A a, b : <<a>> \o <<b>> = <<a, b>>
  /\ \A a : <<a>> \o << >> = <<a>>
  /\ \A a, b, c : <<a, b>> \o <<c>> = <<a, b, c>>
  /\ \A a, b : <<a, b>> \o << >> = <<a, b>>
<1>1. ASSUME NEW a, NEW b  PROVE <<a>> \o <<b>> = <<a, b>>
  <2> DEFINE s == <<a>> \o <<b>>
             t == <<a, b>>
  <2>1. s \in Seq({a, b}) /\ Len(s) = 2 /\ s[1] = a /\ s[2] = b
    OBVIOUS
  <2>2. t \in Seq({a, b}) /\ Len(t) = 2 /\ t[1] = a /\ t[2] = b
    OBVIOUS
  <2>3. IsSeq(s) /\ IsSeq(t)
    BY <2>1, <2>2 DEF IsSeq
  <2> HIDE DEF s, t
  <2>4. \A i \in 1 .. Len(s) : s[i] = t[i]
    BY <2>1, <2>2
  <2>5. s = t
    BY <2>1, <2>2, <2>3, <2>4, SameSeq
  <2> QED
    BY <2>5 DEF s, t
<1>2. ASSUME NEW a, NEW b, NEW c  PROVE <<a, b>> \o <<c>> = <<a, b, c>>
  <2> DEFINE s == <<a, b>> \o <<c>>
             t == <<a, b, c>>
  <2>1. s \in Seq({a, b, c}) /\ Len(s) = 3 /\ s[1] = a /\ s[2] = b /\ s[3] = c
    OBVIOUS
  <2>2. t \in Seq({a, b, c}) /\ Len(t) = 3 /\ t[1] = a /\ t[2] = b /\ t[3] = c
    OBVIOUS
  <2>3. IsSeq(s) /\ IsSeq(t)
    BY <2>1, <2>2 DEF IsSeq
  <2> HIDE DEF s, t
  <2>4. \A i \in 1 .. Len(s) : s[i] = t[i]
    BY <2>1, <2>2
  <2>5. s = t
    BY <2>1, <2>2, <2>3, <2>4, SameSeq
  <2> QED
    BY <2>5 DEF s, t
<1> QED
  BY <1>1, <1>2

\* The page of those values is the page of the values of the run.
LEMMA RestPages ==
  ASSUME Inv, AtRest
  PROVE  SidebarOf = SidebarFor(states) /\ MainOf = MainFor(states)
<1>1. /\ IsHome <=> HomeRun(states)
      /\ IsScan <=> ScanRun(states)
      /\ HomeRun(states) => Found(Asked) = Found(states) /\ Valued(Asked) = Valued(states)
      /\ ~HomeRun(states) /\ html => StockElement(Asked) = StockElement(states)
      /\ Pressed(states, DisplayBtn) <=> DisplayBtn \in answering
      /\ html \in BOOLEAN
  BY RestScan DEF Inv, ControlOK
<1>2. SidebarOf = SidebarFor(states)
  BY <1>1 DEF SidebarOf, SidebarFor
<1>3. CASE HomeRun(states)
  <2> DEFINE fails == ScanRun(states) /\ Found(states) # Valued(states)
             below == CASE ScanRun(states) /\ Found(states) = {} -> <<Warning>>
                        [] fails -> <<NoValue>>
                        [] OTHER -> << >>
  <2>1. MainOf = <<HomeTitle>> \o below
    BY <1>1, <1>3 DEF MainOf, HomeTitle, Warning, NoValue
  <2>2. Found(states) = {} => Found(states) = Valued(states)
    BY DEF Valued
  <2>3. /\ <<HomeTitle>> \o <<Warning>> = <<HomeTitle, Warning>>
        /\ <<HomeTitle>> \o <<NoValue>> = <<HomeTitle, NoValue>>
        /\ <<HomeTitle>> \o << >> = <<HomeTitle>>
    BY TuplesJoined
  <2>4. CASE ScanRun(states) /\ Found(states) = {}
    <3>1. below = <<Warning>> /\ MainFor(states) = <<HomeTitle, Warning>>
      BY <1>3, <2>2, <2>4 DEF MainFor
    <3> QED
      BY <1>2, <2>1, <2>3, <3>1
  <2>5. CASE fails
    <3>1. below = <<NoValue>> /\ MainFor(states) = <<HomeTitle, NoValue>>
      BY <1>3, <2>2, <2>5 DEF MainFor
    <3> QED
      BY <1>2, <2>1, <2>3, <3>1
  <2>6. CASE ~fails /\ ~(ScanRun(states) /\ Found(states) = {})
    <3>1. below = << >> /\ MainFor(states) = <<HomeTitle>>
      BY <1>3, <2>6 DEF MainFor
    <3> QED
      BY <1>2, <2>1, <2>3, <3>1
  <2> QED
    BY <2>4, <2>5, <2>6
<1>4. CASE ~HomeRun(states) /\ html
  <2> DEFINE stock == StockElement(states)
  <2>1. /\ MainOf = <<PageTitle, Markets>> \o IF Pressed(states, DisplayBtn) THEN <<stock>> ELSE << >>
        /\ MainFor(states) = IF Pressed(states, DisplayBtn) THEN <<PageTitle, Markets, stock>>
                                                            ELSE <<PageTitle, Markets>>
    BY <1>1, <1>4 DEF MainOf, MainFor, PageTitle, Markets
  <2> HIDE DEF stock
  <2>2. /\ <<PageTitle, Markets>> \o <<stock>> = <<PageTitle, Markets, stock>>
        /\ <<PageTitle, Markets>> \o << >> = <<PageTitle, Markets>>
    BY TuplesJoined
  <2> QED
    BY <1>2, <2>1, <2>2
<1>5. CASE ~HomeRun(states) /\ ~html
  BY <1>1, <1>2, <1>5 DEF MainOf, MainFor, NoFile
<1> QED
  BY <1>1, <1>3, <1>4, <1>5

\* A chart is shown as often as there are rows that it is the chart of.
LEMMA ChartsShowOnce ==
  ASSUME NEW area, NEW rows, IsSeq(display[area]),
         Charts(display[area], Len(display[area]), rows, Asked)
  PROVE  ShowsOnce(area, rows)
<1> DEFINE charts == display[area]
           n == Len(charts)
<1>1. n \in Nat /\ DOMAIN charts = 1 .. n
  BY DEF IsSeq
<1>2. PICK r \in Bijection(1 .. n, rows) : \A i \in 1 .. n : charts[i] = Chart(r[i], Asked)
  BY DEF Charts
<1>3. IsFiniteSet(1 .. n) /\ Cardinality(1 .. n) = n
  BY <1>1, FS_Interval
<1> HIDE DEF charts, n
<1>4. n = Cardinality(rows)
  BY <1>2, <1>3, FS_Bijection DEF ExistsBijection
<1>5. /\ r \in [1 .. n -> rows]
      /\ \A i, j \in 1 .. n : r[i] = r[j] => i = j
      /\ \A row \in rows : \E i \in 1 .. n : r[i] = row
  BY <1>2 DEF Bijection, Injection, Surjection, IsInjective
<1>6. ASSUME NEW row \in rows
      PROVE  Cardinality({i \in DOMAIN charts : charts[i] = Chart(row, Asked)})
               = Cardinality({s \in rows : Chart(s, Asked) = Chart(row, Asked)})
  <2> DEFINE I == {i \in DOMAIN charts : charts[i] = Chart(row, Asked)}
             J == {s \in rows : Chart(s, Asked) = Chart(row, Asked)}
             q == [i \in I |-> r[i]]
  <2>1. I \subseteq 1 .. n /\ \A i \in 1 .. n : i \in I <=> r[i] \in J
    BY <1>1, <1>2, <1>5 DEF charts, n
  <2>2. IsFiniteSet(I)
    BY <1>3, <2>1, FS_Subset
  <2>3. J \subseteq rows
    OBVIOUS
  <2> HIDE DEF I, J
  <2>4. q \in [I -> J] /\ \A i \in I : q[i] = r[i]
    BY <2>1
  <2> HIDE DEF q
  <2>5. \A i, j \in I : q[i] = q[j] => i = j
    BY <1>5, <2>1, <2>4
  <2>6. \A s \in J : \E i \in I : q[i] = s
    BY <1>5, <2>1, <2>3, <2>4
  <2>7. q \in Bijection(I, J)
    BY <2>4, <2>5, <2>6 DEF Bijection, Injection, Surjection, IsInjective
  <2>8. Cardinality(J) = Cardinality(I)
    BY <2>2, <2>7, FS_Bijection DEF ExistsBijection
  <2> QED
    BY <2>8 DEF I, J
<1> QED
  BY <1>4, <1>6 DEF ShowsOnce, charts, n

(***************************************************************************)
(* However presses, edits, changes of page and runs given up half-way      *)
(* followed one another, a page of stock_app.py at rest shows the answer   *)
(* to exactly the presses made before its last run began, with one chart   *)
(* for each row of their scan in the column of its trend, unless a row     *)
(* without a momentum stopped it on the way, which it then shows.  For     *)
(* every database and number of touches.                                   *)
(***************************************************************************)
THEOREM RestingPageAnswered == Spec => []RestingPageAnswers
<1>1. Inv => RestingPageAnswers
  <2> SUFFICES ASSUME Inv, AtRest
               PROVE  /\ display["sidebar"] = SidebarOf /\ display["main"] = MainOf
                      /\ \E rows \in Drawings :
                           \A area \in {"col1", "col2"} : ShowsOnce(area, ColumnOf(area, rows))
    BY DEF RestingPageAnswers
  <2>1. display["sidebar"] = SidebarOf /\ display["main"] = MainOf
    BY RestShows, RestPages
  <2>2. PICK rows \in DrawingsFor(states) : \A area \in {"col1", "col2"} :
          Charts(display[area], Len(display[area]), InColumn(area, rows), states)
    BY RestShows
  <2>3. rows \in Drawings
    BY <2>2, RestScan DEF Drawings, DrawingsFor, ScanRun
  <2>4. ASSUME NEW area \in {"col1", "col2"}  PROVE ShowsOnce(area, ColumnOf(area, rows))
    <3>1. ColumnOf(area, rows) = InColumn(area, rows)
      BY DEF ColumnOf, InColumn, TrendColumn
    <3>2. IsSeq(display[area])
      BY DEF Inv, PageOK, Areas
    <3>3. CASE HomeRun(states)
      <4>1. Charts(display[area], Len(display[area]), ColumnOf(area, rows), Asked)
        BY <2>2, <3>1, <3>3, RestScan DEF Charts
      <4> QED
        BY <3>2, <4>1, ChartsShowOnce
    <3>4. CASE ~HomeRun(states)
      <4>1. rows = {} /\ ColumnOf(area, rows) = {} /\ InColumn(area, rows) = {}
        BY <2>2, <3>4 DEF DrawingsFor, ScanRun, ColumnOf, InColumn
      <4>2. Len(display[area]) = 0
        <5>1. PICK r : r \in Bijection(1 .. Len(display[area]), {})
          BY <2>2, <4>1 DEF Charts
        <5>2. \A i \in 1 .. Len(display[area]) : r[i] \in {}
          BY <5>1 DEF Bijection, Injection, Surjection
        <5>3. Len(display[area]) \in Nat
          BY <3>2 DEF IsSeq
        <5> QED
          BY <5>2, <5>3
      <4> QED
        BY <4>1, <4>2, FS_EmptySet DEF ShowsOnce
    <3> QED
      BY <3>3, <3>4
  <2> QED
    BY <2>1, <2>3, <2>4
<1> QED
  BY <1>1, StockInvariant, PTL

\* Entries of dates are days.
LEMMA DatesAreDays ==
  ASSUME NEW values, HaveOptions(values), NEW w \in {StartDate, EndDate}
  PROVE  Selected(values, w) \in 1 .. LastDate
<1>1. w.index \in {EarliestDate, Today} /\ w.options = [d \in 1 .. LastDate |-> d]
  BY DateInputs
<1>2. w.options # << >> /\ w.index \in 1 .. LastDate
  BY <1>1, DatesAssumption
<1>3. w \in DOMAIN values => values[w] \in 1 .. LastDate
  BY <1>1 DEF HaveOptions
<1> QED
  BY <1>1, <1>2, <1>3 DEF Selected

(***************************************************************************)
(* Each chart on a page of stock_app.py at rest has a recognised pattern   *)
(* behind it, of its stock, trend and shaded day, and the candle of that   *)
(* day unless its own dates leave it out.  For every database, dangling    *)
(* foreign keys included.                                                  *)
(***************************************************************************)
THEOREM ChartsRecognised == Spec => []ChartsShowRecognisedDays
<1>1. Inv => ChartsShowRecognisedDays
  <2> SUFFICES ASSUME Inv, AtRest, NEW area \in {"col1", "col2"}, NEW i \in DOMAIN display[area]
               PROVE  IsRecognised(display[area][i].content, area)
    BY DEF ChartsShowRecognisedDays
  <2>0. PICK rows \in DrawingsFor(states) :
             Charts(display[area], Len(display[area]), InColumn(area, rows), states)
    BY RestShows
  <2>1. PICK r \in Bijection(1 .. Len(display[area]), InColumn(area, rows)) :
             \A j \in 1 .. Len(display[area]) : display[area][j] = Chart(r[j], states)
    BY <2>0 DEF Charts
  <2>2. i \in 1 .. Len(display[area])
    BY DEF Inv, PageOK, Areas, IsSeq
  <2> DEFINE row == r[i]
             s == row.stock
             p == row.price
             m == row.momentum
             start == Selected(states, StartDate)
             end == Selected(states, EndDate)
             chart == display[area][i].content
  <2>3. row \in rows /\ TrendColumn(row) = area
    BY <2>1, <2>2 DEF Bijection, Injection, Surjection, InColumn
  <2>4. ScanRun(states) /\ row \in Found(states) /\ m.value # NULL
    BY <2>0, <2>3 DEF DrawingsFor, Valued
  <2>5. /\ row \in Joined(db) /\ p.date = Selected(states, MarkDate)
        /\ m.value # NULL /\ (m.value > 0 <=> area = "col1")
    BY <2>3, <2>4 DEF Found, PageData, TrendColumn
  <2>6. /\ s \in ToSet(db.stock_list) /\ p \in db.stock_prices /\ m \in db.stock_momentums
        /\ p.stock_id = s.stock_id /\ m.price_id = p.price_id /\ m.pattern_id = row.pattern.pattern_id
    BY <2>5 DEF Joined
  <2>7. display[area][i] = Chart(row, states)
    BY <2>1, <2>2
  <2>8. /\ chart.stock = s.code /\ chart.pattern = row.pattern.pattern_id
        /\ chart.x0 = Selected(states, MarkDate)
        /\ chart.bars = {q.date : q \in GraphData(db, s, start, end)}
    BY <2>7 DEF Chart, Element
  <2>9. Selected(store, StartDate) = start /\ Selected(store, EndDate) = end
    <3>1. html \in BOOLEAN /\ HomeRun(states)
      BY <2>4 DEF Inv, ControlOK, ScanRun
    <3>2. {StartDate, EndDate} \subseteq ToSet(SidebarFor(states))
      BY <3>1, WidgetsOnPage, FormSets
    <3> QED
      BY <3>2, RestAgrees, ButtonsOfWidgets
  <2>10. start \in 1 .. LastDate /\ end \in 1 .. LastDate
    BY DatesAreDays DEF Inv, ValuesOK
  <2> HIDE DEF row, s, p, m, start, end, chart
  <2>11. ASSUME p.date \in start .. end  PROVE p.date \in chart.bars
    <3>1. start <= p.date /\ p.date <= end
      BY <2>10, <2>11
    <3>2. p \in GraphData(db, s, start, end)
      BY <2>6, <3>1 DEF GraphData
    <3> QED
      BY <2>8, <3>2
  <2>12. IsRecognised(chart, area)
    BY <2>5, <2>6, <2>8, <2>9, <2>11 DEF IsRecognised
  <2> QED
    BY <2>12 DEF chart
<1> QED
  BY <1>1, StockInvariant, PTL
=============================================================================
