----------------------------- MODULE RouteInput -----------------------------
(***************************************************************************)
(* The input for a city, of both portals: what is typed is searched for    *)
(* after a pause, several searches may be under way, and the list of       *)
(* suggestions opens when the last one is answered.  The Enter key takes   *)
(* the entry that is active.                                               *)
(***************************************************************************)
EXTENDS Naturals, FiniteSets

CONSTANTS Texts,        \* what is typed, of two letters and more
          PlaceNames,   \* names of places, taken over from a suggestion
          MaxInputs     \* bound: inputs and selections

Short == "short"        \* any text of less than two letters
None  == "none"

ASSUME RouteInputAssumption == {Short, None} \intersect (Texts \union PlaceNames) = {} /\ MaxInputs \in Nat

VARIABLES
    query,        \* the text of the input
    suggestions,  \* the text the suggestions were fetched for, or none
    isOpen, loading,
    activeIndex,  \* none, first (set with the suggestions) or moved by an arrow key
    debounce,     \* the text the timer will search for, or none
    requestRef,
    fetches,      \* searches under way: their requestId and text
    inputs,
    overtaken     \* history: a place was selected before the search had ended

routeVars == <<query, suggestions, isOpen, loading, activeIndex, debounce, requestRef,
               fetches, inputs, overtaken>>

RouteInputInit ==
    /\ query = Short /\ suggestions = None
    /\ isOpen = FALSE /\ loading = FALSE /\ activeIndex = None
    /\ debounce = None /\ requestRef = 0 /\ fetches = {}
    /\ inputs = 0 /\ overtaken = FALSE

Input == inputs < MaxInputs /\ inputs' = inputs + 1

\* handleInput
Type(q) ==
    /\ Input
    /\ query' = q /\ isOpen' = TRUE /\ activeIndex' = None
    /\ requestRef' = requestRef + 1
    /\ debounce' = q
    /\ overtaken' = FALSE
    /\ UNCHANGED <<suggestions, loading, fetches>>

\* Mutant of TypeShort: the search that is under way will end the spinner.
TypeShortOnly ==
    /\ Input
    /\ query' = Short /\ isOpen' = TRUE /\ activeIndex' = None
    /\ requestRef' = requestRef + 1
    /\ debounce' = None
    /\ suggestions' = None
    /\ overtaken' = FALSE
    /\ UNCHANGED <<loading, fetches>>

\* handleInput, a text that is not searched for
TypeShort ==
    /\ Input
    /\ query' = Short /\ isOpen' = TRUE /\ activeIndex' = None
    /\ requestRef' = requestRef + 1
    /\ debounce' = None
    /\ suggestions' = None /\ loading' = FALSE
    /\ overtaken' = FALSE
    /\ UNCHANGED fetches

\* search, when the timer fires
SearchText ==
    /\ debounce # None
    /\ requestRef' = requestRef + 1
    /\ fetches' = fetches \union {[id |-> requestRef + 1, text |-> debounce]}
    /\ loading' = TRUE
    /\ debounce' = None
    /\ UNCHANGED <<query, suggestions, isOpen, activeIndex, inputs, overtaken>>

\* Mutant of SuggestionsFetched: every answer is taken.
TakeSuggestions(f) ==
    /\ f \in fetches
    /\ fetches' = fetches \ {f}
    /\ suggestions' = f.text /\ isOpen' = TRUE /\ activeIndex' = "first" /\ loading' = FALSE
    /\ UNCHANGED <<query, debounce, requestRef, inputs, overtaken>>

\* The answer, or the known cities when there is none: only of the last request.
SuggestionsFetched(f) ==
    /\ f \in fetches
    /\ fetches' = fetches \ {f}
    /\ IF requestRef = f.id
       THEN /\ suggestions' = f.text /\ isOpen' = TRUE /\ activeIndex' = "first"
            /\ loading' = FALSE
       ELSE UNCHANGED <<suggestions, isOpen, activeIndex, loading>>
    /\ UNCHANGED <<query, debounce, requestRef, inputs, overtaken>>

\* handleSelect, of a suggestion, a recent place or a known city; the timer and the
\* searches go on.
Select(p) ==
    /\ isOpen /\ Input
    /\ query' = p /\ suggestions' = None
    /\ isOpen' = FALSE /\ activeIndex' = None
    /\ overtaken' = (overtaken \/ debounce # None \/ \E f \in fetches : f.id = requestRef)
    /\ UNCHANGED <<loading, debounce, requestRef, fetches>>

\* handleKeyDown: the arrow keys open the list.
Arrow ==
    /\ isOpen' = TRUE /\ activeIndex' = "moved"
    /\ UNCHANGED <<query, suggestions, loading, debounce, requestRef, fetches, inputs,
                   overtaken>>

\* Escape, or the mouse outside of the input
CloseList ==
    /\ isOpen
    /\ isOpen' = FALSE /\ activeIndex' = None
    /\ UNCHANGED <<query, suggestions, loading, debounce, requestRef, fetches, inputs,
                   overtaken>>

\* onFocus
Focus ==
    /\ isOpen' = TRUE
    /\ UNCHANGED <<query, suggestions, loading, activeIndex, debounce, requestRef,
                   fetches, inputs, overtaken>>

Fetched == \E f \in fetches : SuggestionsFetched(f)

RouteInputNext ==
    \/ \E q \in Texts : Type(q)
    \/ TypeShort \/ SearchText \/ Fetched
    \/ \E p \in PlaceNames : Select(p)
    \/ Arrow \/ CloseList \/ Focus

RouteInputSpec == RouteInputInit /\ [][RouteInputNext]_routeVars

\* The timer fires, and a search is answered or fails.
RouteInputFairness == WF_routeVars(SearchText) /\ WF_routeVars(Fetched)

-----------------------------------------------------------------------------
RouteInputTypeOK ==
    /\ query \in Texts \union PlaceNames \union {Short}
    /\ suggestions \in Texts \union {None}
    /\ isOpen \in BOOLEAN /\ loading \in BOOLEAN /\ overtaken \in BOOLEAN
    /\ activeIndex \in {None, "first", "moved"}
    /\ debounce \in Texts \union {None}
    /\ requestRef \in Nat /\ inputs \in Nat
    /\ \A f \in fetches : f.id \in Nat /\ f.text \in Texts

\* The Enter key takes a suggestion for the text in the input, whatever was typed
\* and answered before, unless the user has moved to another entry, or has selected a
\* place while a search was under way: its answer opens the list again.
EnterTakesTyped ==
    isOpen /\ activeIndex = "first" /\ ~ overtaken => suggestions = query

\* The spinner ends, and the list is that of the last text searched for.
SearchEnds == loading ~> ~ loading
=============================================================================
