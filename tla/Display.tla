------------------------------- MODULE Display -------------------------------
(***************************************************************************)
(* DisplayService and its three displays, in the main loop: the pages and    *)
(* their manager, power saving, disc art, and the buttons, which the ST7789    *)
(* and the SH1106 serve in the interrupt and the MT32-Pi in the task.  A page *)
(* is where its buttons lead: rows, and what is drawn, are left out, and the  *)
(* requests a page makes are in MountService and ConfigService.              *)
(***************************************************************************)
EXTENDS Integers

CONSTANTS
    Displays,       \* those a behaviour may have, one of them
    ArtImages,      \* images with a picture beside them,
    PlainImages,    \* and without
    NoImage,        \* GetCurrentCDPath returns none
    PressesLand     \* the places of the task's round where a button interrupts it

\* Where a round of DisplayService::Run stands.  The task sleeps at "Rest" and at
\* "Warning"; at "Dimming" and "Darkening" the flag is stored and the panel not yet
\* told, at "Exited" a page was left and no other entered.
Places == {"Rest", "Timers", "Dimming", "Warning", "Darkening", "Art", "Pages", "Exited"}

DisplayAssumption ==
    /\ Displays \subseteq {"st7789", "sh1106", "mt32pi"}
    /\ NoImage \notin ArtImages \cup PlainImages /\ PressesLand \subseteq Places

Buttons == {"Up", "Down", "Ok", "Cancel"}
\* "menu" is each page that only leads back: USB, log, sound, classic Mac, info, power.
Pages == {"splash", "home", "images", "config", "menu", "timeout", "lowpower", "art"}
NoPage == "none"

VARIABLES
    display,            \* the one that is fitted
    place,              \* where the task's round stands
    sleeping, lowPowerMode,
    panel,              \* what the panel, or its backlight, was told last
    idle,               \* the timer the next test looks at has run out
    lowPowerTimeout, sleepTimeout,      \* the settings: TRUE if not 0
    shownPage,          \* currentPage
    asks,               \* the next page of each page whose m_ShouldChangePage is set
    entering,           \* the page SetActivePage is about to enter
    m_PendingButton,    \* of the MT32-Pi: presses its task has not seen
    path, m_LastDiscPath, m_DiscArtPending, artTimer        \* of the ST7789

powerVars == <<sleeping, lowPowerMode, panel, idle>>
pageVars  == <<shownPage, asks, entering>>
artVars   == <<m_LastDiscPath, m_DiscArtPending, artTimer>>
timeouts  == <<lowPowerTimeout, sleepTimeout>>
vars == <<display, place, powerVars, timeouts, pageVars, m_PendingButton, path, artVars>>

HasLowPower == display = "st7789"

\* Where another part runs, the display rests at its first state.
IsFirst == \A d \in Displays : d = display \/ display = "st7789"

\* The ST7789 starts with its splash, which is over when the task runs.
Init ==
    /\ display \in Displays /\ place = "Rest"
    /\ sleeping = FALSE /\ lowPowerMode = FALSE /\ panel = "Bright" /\ idle = FALSE
    /\ lowPowerTimeout = HasLowPower /\ sleepTimeout = TRUE
    /\ shownPage = IF HasLowPower THEN "splash" ELSE "home"
    /\ asks = [p \in Pages |-> IF <<p, shownPage>> = <<"splash", p>> THEN "home" ELSE NoPage]
    /\ entering = NoPage /\ m_PendingButton = {}
    /\ path = NoImage /\ m_LastDiscPath = NoImage /\ m_DiscArtPending = FALSE
    /\ artTimer = "Zero"

-----------------------------------------------------------------------------
(* The pages, as the page shown and the flags of all.                        *)

Views == [page : Pages, asks : [Pages -> Pages \cup {NoPage}]]
View  == [page |-> shownPage, asks |-> asks]
Show(v) == shownPage' = v.page /\ asks' = v.asks

\* OnExit of the page shown.
Left(v) == [v.asks EXCEPT ![v.page] = NoPage]

\* OnEnter: the art page goes home again when its picture cannot be loaded.
Entered(a, q) ==
    {[page |-> q, asks |-> a]}
    \cup {w \in {[page |-> q, asks |-> [a EXCEPT ![q] = "home"]]} : q = "art"}

\* PageManager::Refresh, and SetActivePage in one step.
Refreshed(v) ==
    IF v.asks[v.page] = NoPage THEN {v} ELSE Entered(Left(v), v.asks[v.page])

\* Where the buttons lead, by the row that is highlighted.  OK at home is the info
\* page, and the images on the small displays.
Links ==
    {<<"home", "Up", "images">>, <<"home", "Cancel", "config">>,
     <<"home", "Ok", IF HasLowPower THEN "menu" ELSE "images">>,
     <<"images", "Ok", "home">>, <<"images", "Cancel", "home">>,
     <<"config", "Ok", "menu">>, <<"config", "Ok", "timeout">>, <<"config", "Cancel", "home">>,
     <<"menu", "Ok", "config">>, <<"menu", "Cancel", "config">>,
     <<"timeout", "Ok", "home">>, <<"timeout", "Cancel", "config">>,
     <<"lowpower", "Ok", "home">>, <<"lowpower", "Cancel", "config">>}
    \cup {<<"art", b, "home">> : b \in Buttons}
    \cup {l \in {<<"config", "Ok", "lowpower">>} : HasLowPower}

\* A folder that is opened or left, and a setting that is saved for a reboot, keep
\* the page.
KeepsPage(p, b) ==
    \/ <<p, b>> \in {<<"images", "Ok">>, <<"images", "Cancel">>, <<"menu", "Ok">>}
    \/ \A q \in Pages : <<p, b, q>> \notin Links

\* OnButtonPress.
Pressed(v, b) ==
    {[v EXCEPT !.asks[v.page] = q] : q \in {q \in Pages : <<v.page, b, q>> \in Links}}
    \cup {w \in {v} : KeepsPage(v.page, b)}

\* OK on the page of a timeout sets it.
SetTimeouts(p, b) ==
    /\ IF <<p, b>> = <<"timeout", "Ok">>  THEN sleepTimeout' \in BOOLEAN
                                          ELSE UNCHANGED sleepTimeout
    /\ IF <<p, b>> = <<"lowpower", "Ok">> THEN lowPowerTimeout' \in BOOLEAN
                                          ELSE UNCHANGED lowPowerTimeout

-----------------------------------------------------------------------------
(* The buttons.                                                             *)

\* mutant of Lit: only a display that sleeps is lit.
LitFromSleep == IF sleeping THEN "Bright" ELSE panel

Lit == IF sleeping \/ lowPowerMode THEN "Bright" ELSE panel

\* Wake: the timer starts anew; a display that was saving power is lit and drawn.
WakeFlags ==
    /\ idle' = FALSE /\ panel' = Lit /\ sleeping' = FALSE /\ lowPowerMode' = FALSE
WokenViews == IF sleeping \/ lowPowerMode THEN Refreshed(View) ELSE {View}

\* The press that wakes a sleeping display is swallowed.
Serve(b) ==
    /\ WakeFlags
    /\ \E v \in WokenViews :
          IF sleeping THEN Show(v) /\ UNCHANGED timeouts
                      ELSE /\ \E w \in Pressed(v, b) : Show(w)
                           /\ SetTimeouts(v.page, b)
    /\ UNCHANGED <<display, place, entering, path, artVars>>

\* HandleButtonPress of the ST7789 and the SH1106, in the interrupt.
HandleButtonPress(b) ==
    /\ display # "mt32pi" /\ place \in PressesLand
    /\ Serve(b)
    /\ UNCHANGED m_PendingButton

\* HandleButtonPress of the MT32-Pi queues the press.
QueueButtonPress(b) ==
    /\ display = "mt32pi"
    /\ m_PendingButton' = m_PendingButton \cup {b}
    /\ UNCHANGED <<display, place, powerVars, timeouts, pageVars, path, artVars>>

-----------------------------------------------------------------------------
(* A round of the task.                                                      *)

\* ProcessPendingInput, one press at a time.
ProcessPendingInput(b) ==
    /\ place = "Rest" /\ b \in m_PendingButton
    /\ m_PendingButton' = m_PendingButton \ {b}
    /\ Serve(b)

GoOn(from, to) ==
    /\ place = from /\ place' = to
    /\ UNCHANGED <<display, timeouts, m_PendingButton, path>>

\* mutant of StartRound: the rest of a round does not wait for the presses.
StartRoundUnserved ==
    /\ GoOn("Rest", "Timers")
    /\ UNCHANGED <<powerVars, pageVars, artVars>>

StartRound ==
    /\ GoOn("Rest", "Timers") /\ m_PendingButton = {}
    /\ UNCHANGED <<powerVars, pageVars, artVars>>

NoTimeouts == ~lowPowerTimeout /\ ~sleepTimeout

\* Both timeouts were set to 0 while the display saved power.
WakeForGood ==
    /\ GoOn("Timers", "Art") /\ NoTimeouts /\ (sleeping \/ lowPowerMode)
    /\ WakeFlags
    /\ \E v \in WokenViews : Show(v)
    /\ UNCHANGED <<entering, artVars>>

LowPowerDue == HasLowPower /\ lowPowerTimeout /\ idle /\ ~sleeping /\ ~lowPowerMode
SleepDue    == sleepTimeout /\ idle /\ ~sleeping /\ (HasLowPower => lowPowerMode)

HasDiscArt(image) == image \in ArtImages

\* EnterLowPower: the picture that was due at home is shown first.
EnterLowPower ==
    /\ GoOn("Timers", "Dimming") /\ LowPowerDue
    /\ IF shownPage = "home" /\ m_DiscArtPending
       THEN /\ m_DiscArtPending' = FALSE
            /\ IF HasDiscArt(m_LastDiscPath) THEN \E v \in Entered(Left(View), "art") : Show(v)
                                             ELSE UNCHANGED <<shownPage, asks>>
       ELSE UNCHANGED <<m_DiscArtPending, shownPage, asks>>
    /\ lowPowerMode' = TRUE /\ idle' = FALSE
    /\ UNCHANGED <<sleeping, panel, entering, m_LastDiscPath, artTimer>>

Dim ==
    /\ GoOn("Dimming", "Art")
    /\ panel' = "Dim"
    /\ UNCHANGED <<sleeping, lowPowerMode, idle, pageVars, artVars>>

\* EnterSleep of the ST7789, Sleep of the others: 2 s of warning, except when the
\* brightness asleep is high enough to read by.
EnterSleep ==
    /\ SleepDue
    /\ \/ GoOn("Timers", "Warning") /\ UNCHANGED sleeping
       \/ GoOn("Timers", "Darkening") /\ HasLowPower /\ sleeping' = TRUE
    /\ UNCHANGED <<lowPowerMode, panel, idle, pageVars, artVars>>

WarningOver ==
    /\ GoOn("Warning", "Darkening")
    /\ \E v \in Refreshed(View) : Show(v)
    /\ sleeping' = TRUE
    /\ UNCHANGED <<lowPowerMode, panel, idle, entering, artVars>>

Darken ==
    /\ GoOn("Darkening", "Art")
    /\ panel' = "Dark"
    /\ UNCHANGED <<sleeping, lowPowerMode, idle, pageVars, artVars>>

StayAsItIs ==
    /\ GoOn("Timers", "Art")
    /\ ~(NoTimeouts /\ (sleeping \/ lowPowerMode)) /\ ~LowPowerDue /\ ~SleepDue
    /\ UNCHANGED <<powerVars, pageVars, artVars>>

\* CheckDiscArtTimer: 2 s after a disc came in, or home was reached with one, its
\* picture is shown.
SkipsArt == ~HasLowPower \/ lowPowerMode \/ sleeping
AtHome   == shownPage = "home"

CheckDiscArtTimer ==
    /\ GoOn("Art", "Pages")
    /\ CASE SkipsArt -> UNCHANGED <<artVars, shownPage, asks>>
         [] ~SkipsArt /\ path = NoImage ->
              /\ m_DiscArtPending' = FALSE /\ m_LastDiscPath' = NoImage
              /\ UNCHANGED <<artTimer, shownPage, asks>>
         [] ~SkipsArt /\ path \notin {NoImage, m_LastDiscPath} ->
              /\ m_LastDiscPath' = path
              /\ IF AtHome THEN artTimer' = "Running" /\ m_DiscArtPending' = TRUE
                           ELSE UNCHANGED <<artTimer, m_DiscArtPending>>
              /\ UNCHANGED <<shownPage, asks>>
         [] ~SkipsArt /\ path = m_LastDiscPath /\ path # NoImage ->
              IF AtHome /\ ~m_DiscArtPending /\ artTimer = "Zero"
              THEN /\ artTimer' = "Running" /\ m_DiscArtPending' = TRUE
                   /\ UNCHANGED <<m_LastDiscPath, shownPage, asks>>
              ELSE IF AtHome /\ m_DiscArtPending /\ artTimer = "Over"
              THEN /\ artTimer' = "Zero" /\ m_DiscArtPending' = FALSE
                   /\ IF HasDiscArt(path) THEN \E v \in Entered(Left(View), "art") : Show(v)
                                          ELSE UNCHANGED <<shownPage, asks>>
                   /\ UNCHANGED m_LastDiscPath
              ELSE UNCHANGED <<artVars, shownPage, asks>>
    /\ UNCHANGED <<powerVars, entering>>

\* PageManager::Refresh at the end of the round.
KeepPage ==
    /\ GoOn("Pages", "Rest") /\ asks[shownPage] = NoPage
    /\ UNCHANGED <<powerVars, pageVars, artVars>>

LeavePage ==
    /\ GoOn("Pages", "Exited") /\ asks[shownPage] # NoPage
    /\ entering' = asks[shownPage] /\ asks' = Left(View)
    /\ UNCHANGED <<powerVars, shownPage, artVars>>

EnterPage ==
    /\ GoOn("Exited", "Rest")
    /\ \E v \in Entered(asks, entering) : Show(v)
    /\ entering' = NoPage
    /\ UNCHANGED <<powerVars, artVars>>

Round ==
    \/ \E b \in Buttons : ProcessPendingInput(b)
    \/ StartRound \/ WakeForGood \/ EnterLowPower \/ Dim \/ EnterSleep \/ WarningOver
    \/ Darken \/ StayAsItIs \/ CheckDiscArtTimer \/ KeepPage \/ LeavePage \/ EnterPage

-----------------------------------------------------------------------------
(* What happens around it; the round looks at it only where it starts.        *)

TimePasses ==
    /\ place = "Rest"
    /\ \/ idle' = TRUE /\ UNCHANGED artTimer
       \/ artTimer = "Running" /\ artTimer' = "Over" /\ UNCHANGED idle
    /\ UNCHANGED <<display, place, sleeping, lowPowerMode, panel, timeouts, pageVars,
                   m_PendingButton, path, m_LastDiscPath, m_DiscArtPending>>

\* An image is mounted or none is.
ChangeDisc ==
    /\ HasLowPower /\ place = "Rest"
    /\ path' \in ArtImages \cup PlainImages \cup {NoImage}
    /\ UNCHANGED <<display, place, powerVars, timeouts, pageVars, m_PendingButton, artVars>>

\* The web page sets the timeouts.
ChangeTimeouts ==
    /\ place = "Rest"
    /\ sleepTimeout' \in BOOLEAN
    /\ lowPowerTimeout' \in {lowPowerTimeout} \cup {t \in BOOLEAN : HasLowPower}
    /\ UNCHANGED <<display, place, powerVars, pageVars, m_PendingButton, path, artVars>>

Next ==
    \/ \E b \in Buttons : HandleButtonPress(b) \/ QueueButtonPress(b)
    \/ Round \/ TimePasses \/ ChangeDisc \/ ChangeTimeouts

\* The scheduler gives the task its turn.
Fairness == WF_vars(Round)
Spec == Init /\ [][Next]_vars /\ Fairness

-----------------------------------------------------------------------------
TypeOK ==
    /\ display \in Displays /\ place \in Places
    /\ {sleeping, lowPowerMode, idle, lowPowerTimeout, sleepTimeout} \subseteq BOOLEAN
    /\ panel \in {"Bright", "Dim", "Dark"}
    /\ View \in Views /\ entering \in Pages \cup {NoPage}
    /\ m_PendingButton \subseteq Buttons
    /\ {path, m_LastDiscPath} \subseteq ArtImages \cup PlainImages \cup {NoImage}
    /\ m_DiscArtPending \in BOOLEAN /\ artTimer \in {"Zero", "Running", "Over"}

\* Between rounds the flags say what the panel shows, whatever presses, timeouts
\* and settings met around a warning: a dark screen takes no press but the one that
\* lights it.  And no page but the one shown still asks for another, or the next
\* visit to it would be over at once.
DisplayInOrder ==
    /\ place = "Rest" =>
         /\ panel = "Dark" <=> sleeping
         /\ panel = "Dim" <=> lowPowerMode /\ ~sleeping
    /\ \A p \in Pages \ {shownPage} : asks[p] = NoPage

\* On the MT32-Pi a press lights the screen, also one that comes while the display
\* warns that it goes to sleep.
PressLights == m_PendingButton # {} ~> panel = "Bright"
=============================================================================
