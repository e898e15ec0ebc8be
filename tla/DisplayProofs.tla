---------------------------- MODULE DisplayProofs ----------------------------
(***************************************************************************)
(* For any set of displays and of images: the flags of the display and what   *)
(* its panel shows, and the pages and their requests, go together between     *)
(* rounds, if no button lands between two stores that belong together.       *)
(***************************************************************************)
EXTENDS Display, TLAPS

\* No button between a flag and its panel, nor between leaving a page and
\* entering the next.
QuietPresses == PressesLand \subseteq Places \ {"Dimming", "Darkening", "Exited"}

OnlyItAsks(v) == v \in Views /\ \A p \in Pages \ {v.page} : v.asks[p] = NoPage

\* The stores of a routine come one by one: where the panel is behind, the flag
\* says what it will be told.
PanelInv ==
    /\ panel \in {"Bright", "Dim", "Dark"}
    /\ sleeping \in BOOLEAN /\ lowPowerMode \in BOOLEAN
    /\ place = "Dimming" => lowPowerMode /\ ~sleeping
    /\ place = "Darkening" => sleeping
    /\ place \notin {"Dimming", "Darkening"} =>
         /\ panel = "Dark" <=> sleeping
         /\ panel = "Dim" <=> lowPowerMode /\ ~sleeping

PageInv ==
    /\ OnlyItAsks(View)
    /\ place = "Exited" => entering \in Pages /\ asks[shownPage] = NoPage

DisplayInv == place \in Places /\ PanelInv /\ PageInv

-----------------------------------------------------------------------------
(* The pages *)

LEMMA EnteredAsks ==
    ASSUME NEW v, OnlyItAsks(v), NEW q \in Pages, NEW w \in Entered(Left(v), q)
    PROVE  OnlyItAsks(w)
<1> DEFINE a == Left(v)
<1>1. a \in [Pages -> Pages \cup {NoPage}] /\ \A p \in Pages : a[p] = NoPage
  BY DEF OnlyItAsks, Views, Left
<1>2. CASE w = [page |-> q, asks |-> a]
  BY <1>1, <1>2 DEF OnlyItAsks, Views
<1>3. CASE w = [page |-> q, asks |-> [a EXCEPT ![q] = "home"]]
  <2>1. w.page = q /\ w.asks = [a EXCEPT ![q] = "home"]
    BY <1>3
  <2>2. "home" \in Pages
    BY DEF Pages
  <2>3. w.asks \in [Pages -> Pages \cup {NoPage}]
    BY <1>1, <2>1, <2>2
  <2>4. \A p \in Pages \ {q} : w.asks[p] = NoPage
    BY <1>1, <2>1
  <2> QED BY <1>3, <2>1, <2>3, <2>4 DEF OnlyItAsks, Views
<1> QED BY <1>2, <1>3 DEF Entered

\* PageManager::Refresh clears the request it serves.
LEMMA RefreshedAsks ==
    ASSUME NEW v, OnlyItAsks(v), NEW w \in Refreshed(v) PROVE OnlyItAsks(w)
<1>1. CASE v.asks[v.page] = NoPage
  BY <1>1 DEF Refreshed
<1>2. CASE v.asks[v.page] # NoPage
  <2>1. v.asks[v.page] \in Pages
    BY <1>2 DEF OnlyItAsks, Views
  <2> QED BY <1>2, <2>1, EnteredAsks DEF Refreshed
<1> QED BY <1>1, <1>2

\* A press asks on behalf of the page that is shown.
LEMMA PressedAsks ==
    ASSUME NEW v, OnlyItAsks(v), NEW b, NEW w \in Pressed(v, b) PROVE OnlyItAsks(w)
<1>1. CASE w = v
  BY <1>1
<1>2. CASE w \in {[v EXCEPT !.asks[v.page] = q] : q \in {q \in Pages : <<v.page, b, q>> \in Links}}
  <2>1. PICK q \in Pages : w = [v EXCEPT !.asks[v.page] = q]
    BY <1>2
  <2>2. v.page \in Pages /\ v.asks \in [Pages -> Pages \cup {NoPage}]
    BY DEF OnlyItAsks, Views
  <2>3. w = [page |-> v.page, asks |-> [v.asks EXCEPT ![v.page] = q]]
    BY <2>1 DEF OnlyItAsks, Views
  <2>4. w.page = v.page /\ w.asks = [v.asks EXCEPT ![v.page] = q]
    BY <2>3
  <2>5. w.asks \in [Pages -> Pages \cup {NoPage}]
    BY <2>2, <2>4
  <2>6. \A p \in Pages \ {w.page} : w.asks[p] = NoPage
    BY <2>2, <2>4 DEF OnlyItAsks
  <2> QED BY <2>2, <2>3, <2>4, <2>5, <2>6 DEF OnlyItAsks, Views
<1> QED BY <1>1, <1>2 DEF Pressed

LEMMA ShownPages ==
    ASSUME NEW v, OnlyItAsks(v), Show(v) PROVE OnlyItAsks(View)'
<1>1. View' = v
  BY DEF View, Show, OnlyItAsks, Views
<1> QED BY <1>1 DEF OnlyItAsks, Views, Pages, NoPage

LEMMA WokenAsks ==
    ASSUME PageInv, NEW v \in WokenViews PROVE OnlyItAsks(v)
BY RefreshedAsks DEF WokenViews, PageInv

-----------------------------------------------------------------------------
(* The steps *)

\* Wake leaves the display lit and awake, wherever it was.
LEMMA WakePanel ==
    ASSUME PanelInv, WakeFlags, place \notin {"Dimming", "Darkening"}
    PROVE  ~sleeping' /\ ~lowPowerMode' /\ panel' = "Bright"
BY DEF PanelInv, WakeFlags, Lit

\* A button that is served, in the interrupt or by the task.
LEMMA ServeKeeps ==
    ASSUME DisplayInv, NEW b, Serve(b), place \notin {"Dimming", "Darkening", "Exited"}
    PROVE  DisplayInv'
<1>1. place' = place
  BY DEF Serve
<1>2. PanelInv'
  BY <1>1, WakePanel DEF DisplayInv, Serve, PanelInv, WakeFlags
<1>3. \E v : OnlyItAsks(v) /\ Show(v)
  BY WokenAsks, PressedAsks DEF DisplayInv, Serve
<1>4. PageInv'
  BY <1>1, <1>3, ShownPages DEF PageInv
<1> QED BY <1>1, <1>2, <1>4 DEF DisplayInv, Places

\* What does not touch place, panel, flags and pages.
LEMMA OutsideKeeps ==
    ASSUME DisplayInv,
           UNCHANGED <<place, sleeping, lowPowerMode, panel, pageVars>>
    PROVE  DisplayInv'
BY DEF DisplayInv, PanelInv, PageInv, OnlyItAsks, View, Views, pageVars, Places, Pages, NoPage

\* A step of the round that leaves the panel and its flags alone.
LEMMA PanelStays ==
    ASSUME PanelInv, place \notin {"Dimming", "Darkening"},
           place' \notin {"Dimming", "Darkening"},
           UNCHANGED <<sleeping, lowPowerMode, panel>>
    PROVE  PanelInv'
BY DEF PanelInv

LEMMA PagesStay ==
    ASSUME PageInv, place' # "Exited", UNCHANGED <<shownPage, asks>>
    PROVE  PageInv'
BY DEF PageInv, OnlyItAsks, View, Views, Pages, NoPage

LEMMA PagesShown ==
    ASSUME place' # "Exited", NEW v, OnlyItAsks(v), Show(v) PROVE PageInv'
BY ShownPages DEF PageInv

LEMMA EnterLowPowerKeeps ==
    ASSUME DisplayInv, EnterLowPower PROVE DisplayInv'
<1>1. place = "Timers" /\ place' = "Dimming"
  BY DEF EnterLowPower, GoOn
<1>2. PanelInv'
  BY <1>1 DEF EnterLowPower, LowPowerDue, DisplayInv, PanelInv
<1>3. PageInv'
  <2>1. CASE UNCHANGED <<shownPage, asks>>
    BY <1>1, <2>1, PagesStay DEF DisplayInv
  <2>2. CASE \E v \in Entered(Left(View), "art") : Show(v)
    <3>1. "art" \in Pages
      BY DEF Pages
    <3> QED BY <1>1, <2>2, <3>1, EnteredAsks, PagesShown DEF DisplayInv, PageInv
  <2> QED BY <2>1, <2>2 DEF EnterLowPower
<1> QED BY <1>1, <1>2, <1>3 DEF DisplayInv, Places

LEMMA SleepKeeps ==
    ASSUME DisplayInv, Dim \/ EnterSleep \/ WarningOver \/ Darken PROVE DisplayInv'
<1>1. CASE Dim
  <2>1. place = "Dimming" /\ place' = "Art"
    BY <1>1 DEF Dim, GoOn
  <2>2. PanelInv'
    BY <1>1, <2>1 DEF Dim, DisplayInv, PanelInv
  <2> QED BY <1>1, <2>1, <2>2, PagesStay DEF Dim, DisplayInv, Places, pageVars
<1>2. CASE EnterSleep
  <2>1. place = "Timers" /\ place' \in {"Warning", "Darkening"}
    BY <1>2 DEF EnterSleep, GoOn
  <2>2. CASE place' = "Warning"
    BY <1>2, <2>1, <2>2, PanelStays, PagesStay
    DEF EnterSleep, GoOn, DisplayInv, Places, pageVars
  <2>3. CASE place' = "Darkening"
    <3>1. sleeping' = TRUE /\ UNCHANGED <<lowPowerMode, panel>>
      BY <1>2, <2>1, <2>3 DEF EnterSleep, GoOn
    <3>2. PanelInv'
      BY <2>3, <3>1 DEF DisplayInv, PanelInv
    <3> QED BY <1>2, <2>1, <3>2, PagesStay DEF EnterSleep, DisplayInv, Places, pageVars
  <2> QED BY <2>1, <2>2, <2>3
<1>3. CASE WarningOver
  <2>1. place = "Warning" /\ place' = "Darkening"
    BY <1>3 DEF WarningOver, GoOn
  <2>2. PanelInv'
    BY <1>3, <2>1 DEF WarningOver, DisplayInv, PanelInv
  <2>3. PageInv'
    BY <1>3, <2>1, RefreshedAsks, PagesShown DEF WarningOver, DisplayInv, PageInv
  <2> QED BY <2>1, <2>2, <2>3 DEF DisplayInv, Places
<1>4. CASE Darken
  <2>1. place = "Darkening" /\ place' = "Art"
    BY <1>4 DEF Darken, GoOn
  <2>2. PanelInv'
    BY <1>4, <2>1 DEF Darken, DisplayInv, PanelInv
  <2> QED BY <1>4, <2>1, <2>2, PagesStay DEF Darken, DisplayInv, Places, pageVars
<1> QED BY <1>1, <1>2, <1>3, <1>4

LEMMA CheckDiscArtTimerKeeps ==
    ASSUME DisplayInv, CheckDiscArtTimer PROVE DisplayInv'
<1>1. place = "Art" /\ place' = "Pages"
  BY DEF CheckDiscArtTimer, GoOn
<1>2. PanelInv'
  BY <1>1, PanelStays DEF CheckDiscArtTimer, DisplayInv, powerVars
<1>3. UNCHANGED <<shownPage, asks>> \/ \E v \in Entered(Left(View), "art") : Show(v)
  BY DEF CheckDiscArtTimer, SkipsArt
<1>4. PageInv'
  <2>1. CASE UNCHANGED <<shownPage, asks>>
    BY <1>1, <2>1, PagesStay DEF DisplayInv
  <2>2. CASE \E v \in Entered(Left(View), "art") : Show(v)
    <3>1. "art" \in Pages
      BY DEF Pages
    <3> QED BY <1>1, <2>2, <3>1, EnteredAsks, PagesShown DEF DisplayInv, PageInv
  <2> QED BY <1>3, <2>1, <2>2
<1> QED BY <1>1, <1>2, <1>4 DEF DisplayInv, Places

\* The change of page, as the round makes it: out of one, then into the other.
LEMMA ChangePageKeeps ==
    ASSUME DisplayInv, LeavePage \/ EnterPage PROVE DisplayInv'
<1>1. CASE LeavePage
  <2>1. place = "Pages" /\ place' = "Exited"
    BY <1>1 DEF LeavePage, GoOn
  <2>2. PanelInv'
    BY <1>1, <2>1, PanelStays DEF LeavePage, DisplayInv, powerVars
  <2>3. shownPage \in Pages /\ asks \in [Pages -> Pages \cup {NoPage}]
    BY DEF DisplayInv, PageInv, OnlyItAsks, View, Views
  <2>4. entering' \in Pages
    BY <1>1, <2>3 DEF LeavePage
  <2>5. asks' = [asks EXCEPT ![shownPage] = NoPage] /\ shownPage' = shownPage
    BY <1>1 DEF LeavePage, Left, View
  <2>6. asks' \in [Pages -> Pages \cup {NoPage}] /\ \A p \in Pages : asks'[p] = NoPage
    BY <2>3, <2>5 DEF DisplayInv, PageInv, OnlyItAsks, View
  <2>7. PageInv'
    BY <2>3, <2>4, <2>5, <2>6 DEF PageInv, OnlyItAsks, View, Views, Pages, NoPage
  <2> QED BY <2>1, <2>2, <2>7 DEF DisplayInv, Places
<1>2. CASE EnterPage
  <2>1. place = "Exited" /\ place' = "Rest"
    BY <1>2 DEF EnterPage, GoOn
  <2>2. PanelInv'
    BY <1>2, <2>1, PanelStays DEF EnterPage, DisplayInv, powerVars
  <2>3. entering \in Pages /\ asks = Left(View)
    BY <2>1 DEF DisplayInv, PageInv, OnlyItAsks, View, Views, Left
  <2>4. PICK v \in Entered(asks, entering) : Show(v)
    BY <1>2 DEF EnterPage
  <2>5. OnlyItAsks(v)
    BY <2>3, <2>4, EnteredAsks DEF DisplayInv, PageInv
  <2>6. PageInv'
    BY <2>1, <2>4, <2>5, PagesShown
  <2> QED BY <2>1, <2>2, <2>6 DEF DisplayInv, Places
<1> QED BY <1>1, <1>2

LEMMA RoundKeeps ==
    ASSUME DisplayInv, Round PROVE DisplayInv'
<1>1. CASE \E b \in Buttons : ProcessPendingInput(b)
  BY <1>1, ServeKeeps DEF ProcessPendingInput
<1>2. CASE StartRound \/ StayAsItIs \/ KeepPage
  <2>1. place \in {"Rest", "Timers", "Pages"} /\ place' \in {"Timers", "Art", "Rest"}
    BY <1>2 DEF StartRound, StayAsItIs, KeepPage, GoOn
  <2>2. UNCHANGED <<sleeping, lowPowerMode, panel, shownPage, asks>>
    BY <1>2 DEF StartRound, StayAsItIs, KeepPage, powerVars, pageVars
  <2> QED BY <2>1, <2>2, PanelStays, PagesStay DEF DisplayInv, Places
<1>3. CASE WakeForGood
  <2>1. place = "Timers" /\ place' = "Art"
    BY <1>3 DEF WakeForGood, GoOn
  <2>2. PanelInv'
    BY <1>3, <2>1, WakePanel DEF WakeForGood, WakeFlags, DisplayInv, PanelInv
  <2>3. PageInv'
    BY <1>3, <2>1, WokenAsks, PagesShown DEF WakeForGood, DisplayInv
  <2> QED BY <2>1, <2>2, <2>3 DEF DisplayInv, Places
<1> QED BY <1>1, <1>2, <1>3, EnterLowPowerKeeps, SleepKeeps, CheckDiscArtTimerKeeps,
           ChangePageKeeps DEF Round

\* Between rounds the flags of the display say what its panel shows, and only the
\* page shown asks for another: DisplayInOrder, of Wake, EnterSleep, EnterLowPower
\* and PageManager, for any buttons at any quiet place and any timeouts.
THEOREM DisplayCorrect ==
    ASSUME QuietPresses PROVE Init /\ [][Next]_vars => []DisplayInOrder
<1>1. Init => DisplayInv
  <2>1. SUFFICES ASSUME Init PROVE DisplayInv
    OBVIOUS
  <2>2. PanelInv /\ place \in Places
    BY <2>1 DEF Init, PanelInv, Places
  <2>3. shownPage \in Pages /\ asks \in [Pages -> Pages \cup {NoPage}]
    BY <2>1 DEF Init, Pages
  <2>4. \A p \in Pages \ {shownPage} : asks[p] = NoPage
    BY <2>1 DEF Init
  <2> QED BY <2>1, <2>2, <2>3, <2>4 DEF Init, DisplayInv, PageInv, OnlyItAsks, View, Views
<1>2. DisplayInv /\ [Next]_vars => DisplayInv'
  <2>1. SUFFICES ASSUME DisplayInv, [Next]_vars PROVE DisplayInv'
    OBVIOUS
  <2>2. CASE \E b \in Buttons : HandleButtonPress(b)
    BY <2>1, <2>2, ServeKeeps DEF HandleButtonPress, QuietPresses
  <2>3. CASE \E b \in Buttons : QueueButtonPress(b)
    BY <2>1, <2>3, OutsideKeeps DEF QueueButtonPress, powerVars
  <2>4. CASE Round
    BY <2>1, <2>4, RoundKeeps
  <2>5. CASE TimePasses \/ ChangeDisc \/ ChangeTimeouts \/ UNCHANGED vars
    BY <2>1, <2>5, OutsideKeeps DEF TimePasses, ChangeDisc, ChangeTimeouts, vars, powerVars
  <2> QED BY <2>1, <2>2, <2>3, <2>4, <2>5 DEF Next
<1>3. DisplayInv => DisplayInOrder
  BY DEF DisplayInv, PanelInv, PageInv, OnlyItAsks, View, DisplayInOrder
<1> QED BY <1>1, <1>2, <1>3, PTL

-----------------------------------------------------------------------------
(* The types                                                                 *)

TypeInv == TypeOK /\ (place = "Exited" => entering \in Pages)

LEMMA EnteredViews ==
    ASSUME NEW a \in [Pages -> Pages \cup {NoPage}], NEW q \in Pages, NEW w \in Entered(a, q)
    PROVE  w \in Views
<1>1. CASE w = [page |-> q, asks |-> a]
  BY <1>1 DEF Views
<1>2. CASE w = [page |-> q, asks |-> [a EXCEPT ![q] = "home"]]
  <2>1. "home" \in Pages
    BY DEF Pages
  <2>2. [a EXCEPT ![q] = "home"] \in [Pages -> Pages \cup {NoPage}]
    BY <2>1
  <2> QED BY <1>2, <2>2 DEF Views
<1> QED BY <1>1, <1>2 DEF Entered

LEMMA LeftAsks ==
    ASSUME NEW v \in Views PROVE Left(v) \in [Pages -> Pages \cup {NoPage}]
<1>1. v.page \in Pages /\ v.asks \in [Pages -> Pages \cup {NoPage}]
  BY DEF Views
<1> QED BY <1>1 DEF Left

LEMMA RefreshedViews ==
    ASSUME NEW v \in Views, NEW w \in Refreshed(v) PROVE w \in Views
<1>1. CASE v.asks[v.page] = NoPage
  BY <1>1 DEF Refreshed
<1>2. CASE v.asks[v.page] # NoPage
  <2>1. v.asks[v.page] \in Pages
    BY <1>2 DEF Views
  <2> QED BY <1>2, <2>1, LeftAsks, EnteredViews DEF Refreshed
<1> QED BY <1>1, <1>2

LEMMA PressedViews ==
    ASSUME NEW v \in Views, NEW b, NEW w \in Pressed(v, b) PROVE w \in Views
<1>1. CASE w = v
  BY <1>1
<1>2. CASE w \in {[v EXCEPT !.asks[v.page] = q] : q \in {q \in Pages : <<v.page, b, q>> \in Links}}
  <2>1. PICK q \in Pages : w = [v EXCEPT !.asks[v.page] = q]
    BY <1>2
  <2>2. v.page \in Pages /\ v.asks \in [Pages -> Pages \cup {NoPage}]
    BY DEF Views
  <2>3. w = [page |-> v.page, asks |-> [v.asks EXCEPT ![v.page] = q]]
    BY <2>1 DEF Views
  <2>4. [v.asks EXCEPT ![v.page] = q] \in [Pages -> Pages \cup {NoPage}]
    BY <2>1, <2>2
  <2> QED BY <2>2, <2>3, <2>4 DEF Views
<1> QED BY <1>1, <1>2 DEF Pressed

LEMMA ShownViews ==
    ASSUME NEW v \in Views, Show(v) PROVE (View \in Views)'
<1>1. View' = v
  BY DEF View, Show, Views
<1> QED BY <1>1 DEF Views, Pages, NoPage

\* What the flags and the timer become is a flag, whatever display it is.
FlagTypes == {sleeping, lowPowerMode, idle, lowPowerTimeout, sleepTimeout} \subseteq BOOLEAN
ArtTypes ==
    /\ {path, m_LastDiscPath} \subseteq ArtImages \cup PlainImages \cup {NoImage}
    /\ m_DiscArtPending \in BOOLEAN /\ artTimer \in {"Zero", "Running", "Over"}

LEMMA WakeTypes ==
    ASSUME TypeOK, WakeFlags, UNCHANGED timeouts
    PROVE  FlagTypes' /\ panel' \in {"Bright", "Dim", "Dark"}
<1>1. sleeping' = FALSE /\ lowPowerMode' = FALSE /\ idle' = FALSE
  BY DEF WakeFlags
<1>2. panel' \in {"Bright", "Dim", "Dark"}
  BY DEF TypeOK, WakeFlags, Lit
<1> QED BY <1>1, <1>2 DEF TypeOK, FlagTypes, timeouts

LEMMA ServeTypes ==
    ASSUME TypeInv, NEW b, Serve(b), m_PendingButton' \subseteq Buttons PROVE TypeInv'
<1>1. \A v \in WokenViews : v \in Views
  BY RefreshedViews DEF WokenViews, TypeInv, TypeOK
<1>2. \E v \in Views : Show(v)
  <2>1. PICK v \in WokenViews : Show(v) \/ \E w \in Pressed(v, b) : Show(w)
    BY DEF Serve
  <2> QED BY <1>1, <2>1, PressedViews
<1>3. (View \in Views)'
  BY <1>2, ShownViews
<1>4. lowPowerTimeout' \in BOOLEAN /\ sleepTimeout' \in BOOLEAN
  <2>1. UNCHANGED timeouts \/ \E v \in WokenViews : SetTimeouts(v.page, b)
    BY DEF Serve
  <2> QED BY <2>1 DEF SetTimeouts, TypeInv, TypeOK, timeouts
<1>5. FlagTypes' /\ panel' \in {"Bright", "Dim", "Dark"}
  <2>1. sleeping' = FALSE /\ lowPowerMode' = FALSE /\ idle' = FALSE
    BY DEF Serve, WakeFlags
  <2>2. panel' \in {"Bright", "Dim", "Dark"}
    BY DEF TypeInv, TypeOK, Serve, WakeFlags, Lit
  <2> QED BY <1>4, <2>1, <2>2 DEF FlagTypes
<1>6. UNCHANGED <<display, place, entering, path, artVars>>
  BY DEF Serve
<1> QED BY <1>3, <1>5, <1>6 DEF TypeInv, TypeOK, FlagTypes, artVars

\* A step of the round: what it leaves alone keeps its type.
LEMMA RoundStepTypes ==
    ASSUME TypeInv, NEW from, NEW to \in Places, GoOn(from, to), FlagTypes',
           panel' \in {"Bright", "Dim", "Dark"}, (View \in Views)', ArtTypes',
           entering' \in Pages \cup {NoPage}, to = "Exited" => entering' \in Pages
    PROVE  TypeInv'
  BY DEF TypeInv, TypeOK, GoOn, FlagTypes, ArtTypes

LEMMA FlagsOf ==
    ASSUME TypeInv, UNCHANGED <<sleeping, lowPowerMode, idle, timeouts>> PROVE FlagTypes'
  BY DEF TypeInv, TypeOK, FlagTypes, timeouts

LEMMA PanelOf ==
    ASSUME TypeInv, UNCHANGED panel PROVE panel' \in {"Bright", "Dim", "Dark"}
  BY DEF TypeInv, TypeOK

LEMMA ViewOf ==
    ASSUME TypeInv, UNCHANGED <<shownPage, asks>> PROVE (View \in Views)'
  BY DEF TypeInv, TypeOK, View, Views, Pages, NoPage

LEMMA ArtOf ==
    ASSUME TypeInv, UNCHANGED <<path, artVars>> PROVE ArtTypes'
  BY DEF TypeInv, TypeOK, ArtTypes, artVars

LEMMA EnteringOf ==
    ASSUME TypeInv, UNCHANGED entering PROVE entering' \in Pages \cup {NoPage}
  BY DEF TypeInv, TypeOK

LEMMA ArtPageShown ==
    ASSUME TypeInv,
           UNCHANGED <<shownPage, asks>> \/ \E v \in Entered(Left(View), "art") : Show(v)
    PROVE  (View \in Views)'
<1>1. "art" \in Pages /\ View \in Views
  BY DEF Pages, TypeInv, TypeOK
<1> QED BY <1>1, LeftAsks, EnteredViews, ShownViews, ViewOf

LEMMA RoundTypes ==
    ASSUME TypeInv, Round PROVE TypeInv'
<1> USE DEF Places
<1>1. CASE \E b \in Buttons : ProcessPendingInput(b)
  BY <1>1, ServeTypes DEF ProcessPendingInput, TypeInv, TypeOK
<1>2. CASE StartRound \/ StayAsItIs \/ KeepPage
  <2>1. PICK to \in {"Timers", "Art", "Rest"} : \E from : GoOn(from, to)
    BY <1>2 DEF StartRound, StayAsItIs, KeepPage
  <2>2. UNCHANGED <<powerVars, pageVars, artVars>>
    BY <1>2 DEF StartRound, StayAsItIs, KeepPage
  <2> QED BY <2>1, <2>2, RoundStepTypes, FlagsOf, PanelOf, ViewOf, ArtOf, EnteringOf
          DEF GoOn, powerVars, pageVars
<1>3. CASE WakeForGood
  <2>1. GoOn("Timers", "Art") /\ WakeFlags /\ UNCHANGED <<timeouts, entering, path, artVars>>
    BY <1>3 DEF WakeForGood, GoOn
  <2>2. (View \in Views)'
    BY <1>3, RefreshedViews, ShownViews DEF WakeForGood, WokenViews, TypeInv, TypeOK
  <2> QED BY <2>1, <2>2, RoundStepTypes, WakeTypes, ArtOf, EnteringOf DEF TypeInv
<1>4. CASE EnterLowPower
  <2>1. /\ GoOn("Timers", "Dimming") /\ lowPowerMode' = TRUE /\ idle' = FALSE
        /\ UNCHANGED <<sleeping, panel, timeouts, entering, path, m_LastDiscPath, artTimer>>
        /\ UNCHANGED <<shownPage, asks>> \/ \E v \in Entered(Left(View), "art") : Show(v)
        /\ m_DiscArtPending' = FALSE \/ UNCHANGED m_DiscArtPending
    BY <1>4 DEF EnterLowPower, GoOn
  <2>2. FlagTypes'
    BY <2>1 DEF TypeInv, TypeOK, FlagTypes, timeouts
  <2>3. ArtTypes'
    BY <2>1 DEF TypeInv, TypeOK, ArtTypes
  <2> QED BY <2>1, <2>2, <2>3, RoundStepTypes, PanelOf, ArtPageShown, EnteringOf
<1>5. CASE Dim \/ Darken
  <2>1. PICK from : GoOn(from, "Art")
    BY <1>5 DEF Dim, Darken
  <2>2. /\ panel' \in {"Bright", "Dim", "Dark"}
        /\ UNCHANGED <<sleeping, lowPowerMode, idle, timeouts, pageVars, path, artVars>>
    BY <1>5 DEF Dim, Darken, GoOn
  <2> QED BY <2>1, <2>2, RoundStepTypes, FlagsOf, ViewOf, ArtOf, EnteringOf DEF pageVars
<1>6. CASE EnterSleep \/ WarningOver
  <2>1. PICK to \in {"Warning", "Darkening"} : \E from : GoOn(from, to)
    BY <1>6 DEF EnterSleep, WarningOver
  <2>2. /\ sleeping' = TRUE \/ UNCHANGED sleeping
        /\ UNCHANGED <<lowPowerMode, panel, idle, timeouts, entering, path, artVars>>
    BY <1>6 DEF EnterSleep, WarningOver, GoOn, pageVars
  <2>3. (View \in Views)'
    <3>1. CASE UNCHANGED <<shownPage, asks>>
      BY <3>1, ViewOf
    <3>2. CASE \E v \in Refreshed(View) : Show(v)
      BY <3>2, RefreshedViews, ShownViews DEF TypeInv, TypeOK
    <3> QED BY <1>6, <3>1, <3>2 DEF EnterSleep, WarningOver, pageVars
  <2>4. FlagTypes'
    BY <2>2 DEF TypeInv, TypeOK, FlagTypes, timeouts
  <2> QED BY <2>1, <2>2, <2>3, <2>4, RoundStepTypes, PanelOf, ArtOf, EnteringOf
<1>7. CASE CheckDiscArtTimer
  <2>1. GoOn("Art", "Pages") /\ UNCHANGED <<powerVars, timeouts, entering>>
    BY <1>7 DEF CheckDiscArtTimer, GoOn
  <2>2. /\ m_LastDiscPath' \in {m_LastDiscPath, path, NoImage} /\ UNCHANGED path
        /\ m_DiscArtPending' = m_DiscArtPending \/ m_DiscArtPending' = TRUE
           \/ m_DiscArtPending' = FALSE
        /\ artTimer' \in {artTimer, "Running", "Zero"}
    BY <1>7 DEF CheckDiscArtTimer, GoOn, SkipsArt, artVars
  <2>3. ArtTypes'
    BY <2>2 DEF TypeInv, TypeOK, ArtTypes
  <2>4. UNCHANGED <<shownPage, asks>> \/ \E v \in Entered(Left(View), "art") : Show(v)
    BY <1>7 DEF CheckDiscArtTimer, SkipsArt
  <2> QED BY <2>1, <2>3, <2>4, RoundStepTypes, FlagsOf, PanelOf, ArtPageShown, EnteringOf
          DEF powerVars
<1>8. CASE LeavePage
  <2>1. /\ GoOn("Pages", "Exited") /\ UNCHANGED <<powerVars, timeouts, path, artVars>>
        /\ asks[shownPage] # NoPage /\ entering' = asks[shownPage]
        /\ shownPage' = shownPage /\ asks' = Left(View)
    BY <1>8 DEF LeavePage, GoOn
  <2>2. View \in Views /\ View.page = shownPage /\ View.asks = asks
    BY DEF TypeInv, TypeOK, View
  <2>3. shownPage \in Pages /\ asks[shownPage] \in Pages \cup {NoPage}
    BY <2>2 DEF Views
  <2>4. (View \in Views)'
    BY <2>1, <2>2, <2>3, LeftAsks DEF View, Views, Pages, NoPage
  <2> QED BY <2>1, <2>3, <2>4, RoundStepTypes, FlagsOf, PanelOf, ArtOf DEF powerVars
<1>9. CASE EnterPage
  <2>1. /\ GoOn("Exited", "Rest") /\ UNCHANGED <<powerVars, timeouts, path, artVars>>
        /\ entering' = NoPage
    BY <1>9 DEF EnterPage, GoOn
  <2>2. entering \in Pages /\ asks \in [Pages -> Pages \cup {NoPage}]
    BY <2>1 DEF GoOn, TypeInv, TypeOK, View, Views
  <2>3. (View \in Views)'
    BY <1>9, <2>2, EnteredViews, ShownViews DEF EnterPage
  <2> QED BY <2>1, <2>3, RoundStepTypes, FlagsOf, PanelOf, ArtOf DEF powerVars
<1> QED BY <1>1, <1>2, <1>3, <1>4, <1>5, <1>6, <1>7, <1>8, <1>9 DEF Round

\* The display's variables have their types, for any displays, images and places
\* where a button may interrupt: TypeOK, of DisplayService and its displays.
THEOREM DisplayTypes == Init /\ [][Next]_vars => []TypeOK
<1>1. ASSUME Init PROVE TypeInv
  <2>1. shownPage \in Pages /\ asks \in [Pages -> Pages \cup {NoPage}]
    BY <1>1 DEF Init, Pages
  <2>2. View \in Views
    BY <2>1 DEF View, Views
  <2>3. FlagTypes
    BY <1>1, Zenon DEF Init, HasLowPower, FlagTypes
  <2>4. ArtTypes
    BY <1>1 DEF Init, ArtTypes
  <2> QED BY <1>1, <2>2, <2>3, <2>4 DEF Init, TypeInv, TypeOK, FlagTypes, ArtTypes, Places
<1>2. ASSUME TypeInv, [Next]_vars PROVE TypeInv'
  <2>1. CASE \E b \in Buttons : HandleButtonPress(b)
    BY <1>2, <2>1, ServeTypes DEF HandleButtonPress, TypeInv, TypeOK
  <2>2. CASE \E b \in Buttons : QueueButtonPress(b)
    <3>1. /\ m_PendingButton' \subseteq Buttons
          /\ UNCHANGED <<display, place, powerVars, timeouts, pageVars, path, artVars>>
      BY <1>2, <2>2 DEF QueueButtonPress, TypeInv, TypeOK
    <3> QED BY <1>2, <3>1, ViewOf
            DEF TypeInv, TypeOK, powerVars, timeouts, pageVars, artVars
  <2>3. CASE TimePasses \/ ChangeDisc \/ ChangeTimeouts \/ UNCHANGED vars
    <3>1. /\ (View \in Views)'
          /\ UNCHANGED <<display, place, sleeping, lowPowerMode, panel, entering,
                         m_PendingButton, m_LastDiscPath, m_DiscArtPending>>
      BY <1>2, <2>3, ViewOf DEF TimePasses, ChangeDisc, ChangeTimeouts, vars, powerVars, pageVars,
                                artVars
    <3>2. idle' \in BOOLEAN /\ lowPowerTimeout' \in BOOLEAN /\ sleepTimeout' \in BOOLEAN
      BY <1>2, <2>3 DEF TimePasses, ChangeDisc, ChangeTimeouts, vars, powerVars, timeouts, TypeInv,
                        TypeOK
    <3>3. /\ path' \in ArtImages \cup PlainImages \cup {NoImage}
          /\ artTimer' \in {"Zero", "Running", "Over"}
      BY <1>2, <2>3 DEF TimePasses, ChangeDisc, ChangeTimeouts, vars, artVars, TypeInv, TypeOK
    <3> QED BY <1>2, <3>1, <3>2, <3>3 DEF TypeInv, TypeOK
  <2> QED BY <1>2, <2>1, <2>2, <2>3, RoundTypes DEF Next
<1>3. TypeInv => TypeOK
  BY DEF TypeInv
<1> QED BY <1>1, <1>2, <1>3, PTL
=============================================================================
