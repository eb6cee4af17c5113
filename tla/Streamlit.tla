------------------------------ MODULE Streamlit ------------------------------
(***************************************************************************)
(* Streamlit, as far as the two page scripts rely on it, for one browser   *)
(* session.                                                                *)
(*                                                                         *)
(* The script runs from its first line whenever the user touches a widget. *)
(* A run reads the values the widgets had when it began, draws element     *)
(* after element over what the previous run left on the page, and is given *)
(* up at its next st call when another touch has come in.  Only a run that *)
(* reaches its end removes the elements, and the widget values, it did not *)
(* draw again.                                                             *)
(*                                                                         *)
(* The actions only speak of the variables of this module; a script adds   *)
(* what becomes of its own.                                                *)
(***************************************************************************)
EXTENDS Integers, SequencesExt

VARIABLES
  store,    \* the browser's widget values: widget -> position of its option
  display,  \* the elements in each area of the page
  rerun,    \* TRUE when a touch has not been answered by a run yet
  pc,       \* the next statement of the run, "idle" between runs
  states,   \* the widget values the run reads
  cursor    \* how many elements of each area the run has drawn

page == <<display, cursor>>
streamlit == <<store, page, rerun, pc, states>>

-----------------------------------------------------------------------------
(***************************************************************************)
(* Widgets.  They are identified by all they are created with, so the same *)
(* label with other options is another widget.  A button is pressed in the *)
(* run it starts and in no other.                                          *)
(***************************************************************************)
Selectbox(label, options, index) ==
  [label |-> label, options |-> options, index |-> index, button |-> FALSE]

Button(label) ==
  [label |-> label, options |-> <<"released", "pressed">>, index |-> 1, button |-> TRUE]

\* What a selectbox without options returns.
None == "None"

\* The value a widget returns: the user's choice or else its default.
Selected(values, widget) ==
  IF widget.options = << >> THEN None
  ELSE widget.options[IF widget \in DOMAIN values THEN values[widget] ELSE widget.index]

-----------------------------------------------------------------------------
\* The sidebar, the page itself, and two columns on it.
Areas == {"sidebar", "main", "col1", "col2"}

Top == [a \in Areas |-> 0]

\* The session opens with a request for its first run.
Open ==
  /\ store = << >> /\ states = << >>
  /\ display = [a \in Areas |-> << >>] /\ cursor = Top
  /\ rerun = TRUE /\ pc = "idle"

\* Widget values of which some are new.
Updated(values, new) ==
  [w \in DOMAIN values \cup DOMAIN new |-> IF w \in DOMAIN new THEN new[w] ELSE values[w]]

\* The user gives widgets new values, which asks for a run.
Touch(values) ==
  /\ store' = Updated(store, values)
  /\ rerun' = TRUE
  /\ UNCHANGED <<page, pc, states>>

\* Mutant: the request is not taken off the queue.
StartRunAgain(stCalls) ==
  /\ rerun /\ pc \in stCalls \cup {"idle"}
  /\ pc' = "load" /\ states' = store /\ cursor' = Top
  /\ store' = [w \in {v \in DOMAIN store : ~v.button} |-> store[w]]
  /\ UNCHANGED <<rerun, display>>

\* Mutant: buttons stay pressed.
StartRunPressed(stCalls) ==
  /\ rerun /\ pc \in stCalls \cup {"idle"}
  /\ pc' = "load" /\ rerun' = FALSE /\ states' = store /\ cursor' = Top
  /\ UNCHANGED <<store, display>>

\* A run begins, in the place of one that is under way if there is one; that
\* one can only be given up at a statement that calls st.
StartRun(stCalls) ==
  /\ rerun /\ pc \in stCalls \cup {"idle"}
  /\ pc' = "load" /\ rerun' = FALSE /\ states' = store /\ cursor' = Top
  /\ store' = [w \in {v \in DOMAIN store : ~v.button} |-> store[w]]
  /\ UNCHANGED display

\* An element takes the place of what an earlier run drew at its position.
Emit(area, element) ==
  LET n == cursor[area] + 1
  IN  /\ cursor' = [cursor EXCEPT ![area] = n]
      /\ display' = [display EXCEPT ![area] =
                       IF n \in DOMAIN @ THEN [@ EXCEPT ![n] = element]
                                         ELSE Append(@, element)]

\* An st call: draws the element unless the run has to be given up.
Draw(area, element, next) ==
  /\ ~rerun
  /\ Emit(area, element)
  /\ pc' = next
  /\ UNCHANGED <<store, rerun, states>>

\* Statements without an st call.
Compute(next) ==
  /\ pc' = next
  /\ UNCHANGED <<store, page, rerun, states>>

\* An uncaught exception is drawn below the page and ends the run.
Raise(element) ==
  /\ Emit("main", element)
  /\ pc' = "end"
  /\ UNCHANGED <<store, rerun, states>>

\* Mutant: what the run did not draw again stays on the page.
EndRunKeepsStale ==
  /\ pc = "end" /\ pc' = "idle"
  /\ store' = [w \in {v \in DOMAIN store : rerun \/ v \in ToSet(display.sidebar)} |-> store[w]]
  /\ UNCHANGED <<page, rerun, states>>

\* The script ends: the rest of the old page goes, widget values included,
\* unless they are already on their way to the next run.
EndRun ==
  /\ pc = "end" /\ pc' = "idle"
  /\ display' = [a \in Areas |-> SubSeq(display[a], 1, cursor[a])]
  /\ store' = [w \in {v \in DOMAIN store : rerun \/ v \in ToSet(display'.sidebar)} |-> store[w]]
  /\ UNCHANGED <<cursor, rerun, states>>

AtRest == pc = "idle" /\ ~rerun

\* Every widget that is shown or remembered points at one of its options.
StreamlitTypeOK ==
  /\ rerun \in BOOLEAN
  /\ \A a \in Areas : cursor[a] \in 0 .. Len(display[a])
  /\ \A w \in ToSet(display.sidebar) : w.options # << >> => w.index \in DOMAIN w.options
  /\ \A values \in {store, states} :
       \A w \in DOMAIN values : values[w] \in DOMAIN w.options
=============================================================================
