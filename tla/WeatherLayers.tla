--------------------------- MODULE WeatherLayers ---------------------------
(***************************************************************************)
(* The weather layers of the map: the frames of the animation are mounted  *)
(* ahead as raster sources at opacity zero, and the map goes from one      *)
(* frame to the next only when all layers of the next have their tiles     *)
(* (useWeatherLayers).  The page around it keeps the stack of layers, the  *)
(* active time and the answers of the layer queries (App, store).          *)
(*                                                                         *)
(* Each action is one task of the browser's event loop: a rendering, its   *)
(* effect, a timer, an event of the map, an answer.  A layer taken off the *)
(* map becomes transparent at once; the timer that then removes its source *)
(* changes nothing that can be seen and is left out.                       *)
(***************************************************************************)
EXTENDS Integers, FiniteSets

CONSTANTS
    FrameCount,     \* valid times of the timeline
    Lookahead,      \* WEATHER_FRAME_LOOKAHEAD
    MaxLayerId,     \* layers that get an id in a behaviour
    MaxStack,       \* layers in the stack at most
    MaxQueryKey,    \* keys the query of a layer has, one after the other
    MaxEdits        \* changes by the user or the timeline in a behaviour

ASSUME LayersAssumption ==
    /\ FrameCount \in Nat \ {0} /\ Lookahead \in Nat
    /\ MaxLayerId \in Nat \ {0} /\ MaxStack \in Nat \ {0}
    /\ MaxQueryKey \in Nat \ {0} /\ MaxEdits \in Nat

VARIABLES
    stack,          \* the layers of the selection
    nextLayerId,
    switchedOff,    \* layers of the stack that are not to be seen
    validTime,      \* the selected frame, NoFrame for ''
    timeline,       \* whether the times are known
    cityView,       \* cityForecastMode
    queryKey,       \* of each layer query: its field, run and colour range
    answered,       \* queries answered under the key they have
    failed,         \* queries given up under the key they have
    effectDue,      \* a rendering whose effects have not run
    playTimer,      \* the timeout of playback: the frame it leaves, and whether
                    \* its delay may be over
    refreshDue,     \* the timer the effect starts
    seen,           \* what the last effect saw: the refs of the hook
    entry,          \* entriesRef: what is mounted for a frame and a layer
    held,           \* heldLayersRef: replaced layers that are still seen
    visibleFrame,   \* visibleFrameIdRef
    readyFrames,    \* readyFrameIds
    mapMoving,      \* between movestart and moveend
    loaded,         \* mounted layers whose tiles are there
    edits           \* counted for the bound

pageVars == <<stack, nextLayerId, switchedOff, validTime, timeline, cityView,
              queryKey, answered, edits>>
hookVars == <<refreshDue, seen, entry, held, visibleFrame, readyFrames>>
mapVars == <<mapMoving, loaded>>
layersVars == <<pageVars, failed, effectDue, playTimer, hookVars, mapVars>>

Frames == 0..(FrameCount - 1)
NoFrame == -1
LayerIds == 1..MaxLayerId
LayerKeys == Frames \X LayerIds

\* BufferedLayer; opaque: its opacity on the map is not 0.
BufferedLayer == [token : 1..MaxQueryKey, checks : 0..1, ready : BOOLEAN,
                  timer : BOOLEAN, visible : BOOLEAN, opaque : BOOLEAN]
Unmounted == [token |-> 0]
Mounted == {k \in LayerKeys : entry[k] # Unmounted}
NoTimer == [frame |-> NoFrame, due |-> FALSE]

LayersTypeOK ==
    /\ stack \subseteq LayerIds /\ nextLayerId \in 1..(MaxLayerId + 1)
    /\ switchedOff \subseteq stack
    /\ validTime \in Frames \cup {NoFrame}
    /\ timeline \in BOOLEAN /\ cityView \in BOOLEAN
    /\ queryKey \in [LayerKeys -> 1..MaxQueryKey]
    /\ answered \subseteq LayerKeys /\ failed \subseteq LayerKeys \ answered
    /\ effectDue \in BOOLEAN /\ refreshDue \in BOOLEAN
    /\ playTimer \in [frame : Frames \cup {NoFrame}, due : BOOLEAN]
    /\ seen \in [active : Frames \cup {NoFrame}, expected : 0..MaxStack,
                 wanted : [LayerKeys -> 0..MaxQueryKey]]
    /\ entry \in [LayerKeys -> BufferedLayer \cup {Unmounted}]
    /\ held \subseteq LayerKeys
    /\ visibleFrame \in Frames \cup {NoFrame} /\ readyFrames \subseteq Frames
    /\ mapMoving \in BOOLEAN /\ loaded \subseteq Mounted
    /\ edits \in 0..MaxEdits

\* The page as it opens: one layer, the first frame, no answer yet.
LayersInit ==
    /\ stack = {1} /\ nextLayerId = 2 /\ switchedOff = {}
    /\ validTime = 0 /\ timeline = TRUE /\ cityView = FALSE
    /\ queryKey = [k \in LayerKeys |-> 1] /\ answered = {} /\ failed = {}
    /\ effectDue = TRUE /\ refreshDue = FALSE /\ playTimer = NoTimer
    /\ seen = [active |-> NoFrame, expected |-> 0, wanted |-> [k \in LayerKeys |-> 0]]
    /\ entry = [k \in LayerKeys |-> Unmounted]
    /\ held = {} /\ visibleFrame = NoFrame /\ readyFrames = {}
    /\ mapMoving = FALSE /\ loaded = {}
    /\ edits = 0

-----------------------------------------------------------------------------
(* The page *)

\* Frames from the active one on, round the end of the timeline; a time that
\* is not in the timeline counts as the first.
BufferedTimes ==
    {f \in Frames : /\ timeline
                    /\ (f - (IF validTime = NoFrame THEN 0 ELSE validTime)) % FrameCount
                           <= Lookahead}

\* What the page passes to useWeatherLayers: the layers that are answered.
PassedFrames == IF cityView THEN {} ELSE BufferedTimes
PassedActive == IF cityView THEN NoFrame ELSE validTime
PassedLayers ==
    LET frames == PassedFrames
    IN  [k \in LayerKeys |-> IF k[1] \in frames /\ k[2] \in stack /\ k \in answered
                             THEN queryKey[k] ELSE 0]

\* The page renders again; its effects have still to run.
Renders == effectDue' = TRUE /\ UNCHANGED <<playTimer, hookVars, mapVars>>

Counted == edits < MaxEdits /\ edits' = edits + 1

Edited == Counted /\ Renders

NewKeys(K) ==
    /\ \A k \in K : queryKey[k] < MaxQueryKey
    /\ queryKey' = [k \in LayerKeys |-> IF k \in K THEN queryKey[k] + 1 ELSE queryKey[k]]
    /\ answered' = answered \ K /\ failed' = failed \ K

\* The timeline is that of the field of the first layer.  With another first
\* layer or field it has to be fetched, unless it was before or is the same.
MayLeaveTimeline == timeline' \in {timeline, FALSE}

\* store.ts addLayer and ensureLayer: an id is never used again.
AppendLayer ==
    /\ nextLayerId <= MaxLayerId
    /\ stack' = stack \cup {nextLayerId}
    /\ nextLayerId' = nextLayerId + 1
    /\ UNCHANGED <<switchedOff, validTime, cityView, queryKey, answered, failed>>

AddLayer ==
    /\ stack # {} /\ Cardinality(stack) < MaxStack
    /\ Edited
    /\ AppendLayer /\ UNCHANGED timeline

EnsureLayer ==
    /\ stack = {} /\ ~cityView
    /\ Renders
    /\ AppendLayer /\ MayLeaveTimeline /\ UNCHANGED edits

\* The button is there while the stack has another layer.
RemoveLayer(s) ==
    /\ s \in stack /\ Cardinality(stack) > 1
    /\ Edited
    /\ stack' = stack \ {s} /\ switchedOff' = switchedOff \ {s}
    /\ MayLeaveTimeline
    /\ UNCHANGED <<nextLayerId, validTime, cityView, queryKey, answered, failed>>

\* Layers change places; the model keeps what that does to the timeline.
MoveLayer ==
    /\ timeline /\ Cardinality(stack) > 1
    /\ Edited
    /\ timeline' = FALSE
    /\ UNCHANGED <<stack, nextLayerId, switchedOff, validTime, cityView, queryKey,
                   answered, failed>>

SwitchLayer(s) ==
    /\ s \in stack
    /\ Edited
    /\ switchedOff' = IF s \in switchedOff THEN switchedOff \ {s} ELSE switchedOff \cup {s}
    /\ UNCHANGED <<stack, nextLayerId, validTime, timeline, cityView, queryKey,
                   answered, failed>>

\* Another field or colour range: the queries of the layer have another key.
ChangeField(s) ==
    /\ s \in stack
    /\ Edited
    /\ NewKeys(Frames \X {s})
    /\ MayLeaveTimeline
    /\ UNCHANGED <<stack, nextLayerId, switchedOff, validTime, cityView>>

\* The timeline is fetched again and has a newer run for a valid time.
NewRun(f) ==
    /\ timeline
    /\ Edited
    /\ NewKeys({f} \X stack)
    /\ UNCHANGED <<stack, nextLayerId, switchedOff, validTime, timeline, cityView>>

\* The user goes to a time.
GoTo(f) ==
    /\ timeline /\ f # validTime
    /\ Edited
    /\ validTime' = f
    /\ UNCHANGED <<stack, nextLayerId, switchedOff, timeline, cityView, queryKey,
                   answered, failed>>

\* Another range or run: the time is chosen anew.
ChangeRange ==
    /\ validTime # NoFrame
    /\ Edited
    /\ validTime' = NoFrame
    /\ MayLeaveTimeline
    /\ UNCHANGED <<stack, nextLayerId, switchedOff, cityView, queryKey, answered, failed>>

\* setVariable, setProduct: the selection starts anew.
ChangeProduct ==
    /\ Edited
    /\ stack' = {} /\ switchedOff' = {}
    /\ validTime' = NoFrame /\ timeline' = FALSE
    /\ UNCHANGED <<nextLayerId, cityView, queryKey, answered, failed>>

LoadTimeline ==
    /\ ~timeline /\ ~cityView
    /\ timeline' = TRUE /\ Renders
    /\ UNCHANGED <<stack, nextLayerId, switchedOff, validTime, cityView, queryKey,
                   answered, failed, edits>>

FirstTime ==
    /\ timeline /\ validTime = NoFrame
    /\ validTime' = 0 /\ Renders
    /\ UNCHANGED <<stack, nextLayerId, switchedOff, timeline, cityView, queryKey,
                   answered, failed, edits>>

SwitchView ==
    /\ Edited
    /\ cityView' = ~cityView
    /\ UNCHANGED <<stack, nextLayerId, switchedOff, validTime, timeline, queryKey,
                   answered, failed>>

\* The layer queries that are in flight or retried.
Requested(k) == k[1] \in BufferedTimes /\ k[2] \in stack /\ k \notin answered \cup failed

\* A layer query is answered, one in flight in the city view too.
ResolveLayer(k) ==
    /\ Requested(k)
    /\ answered' = answered \cup {k} /\ Renders
    /\ UNCHANGED <<stack, nextLayerId, switchedOff, validTime, timeline, cityView,
                   queryKey, failed, edits>>

\* It is given up: at once when the server has no such layer, else after two
\* retries.  The page renders without its data.
FailLayer(k) ==
    /\ Requested(k)
    /\ failed' = failed \cup {k} /\ Edited
    /\ UNCHANGED <<stack, nextLayerId, switchedOff, validTime, timeline, cityView,
                   queryKey, answered>>

\* It is asked again: the window has the focus again, or the network is back.
RetryLayer(k) ==
    /\ k \in failed /\ ~cityView
    /\ failed' = failed \ {k} /\ Renders
    /\ UNCHANGED <<stack, nextLayerId, switchedOff, validTime, timeline, cityView,
                   queryKey, answered, edits>>

\* Mutant: the answers are there, whether or not their tiles are.
DisplayedFrameAnswered ==
    /\ stack # {} /\ validTime # NoFrame
    /\ {validTime} \X stack \subseteq answered

\* The active frame has its answers and is ready as far as the page knows.
DisplayedFrameReady ==
    /\ stack # {} /\ validTime # NoFrame
    /\ {validTime} \X stack \subseteq answered
    /\ PassedActive \in readyFrames

\* nextReadyTimelineFrame, before its readiness is looked at.
NextFrame(f) == (f + 1) % FrameCount

\* The frame a rendering lets playback leave: it is ready, and so is the next.
PlayableFrame ==
    IF /\ timeline /\ FrameCount > 1
       /\ DisplayedFrameReady /\ NextFrame(validTime) \in readyFrames
    THEN validTime ELSE NoFrame

\* The timeout of playback, a quarter of a second or more after the rendering
\* that has started it, whatever has changed since without an effect.
PlayNext ==
    /\ playTimer.due
    /\ Counted
    /\ validTime' = NextFrame(playTimer.frame)
    /\ playTimer' = NoTimer /\ effectDue' = TRUE
    /\ UNCHANGED <<stack, nextLayerId, switchedOff, timeline, cityView, queryKey,
                   answered, failed, hookVars, mapVars>>

-----------------------------------------------------------------------------
(* useWeatherLayers *)

\* addSource, addLayer at opacity 0, startReadyCheck.
Mount(k, token) ==
    [token |-> token, checks |-> 0, ready |-> FALSE, timer |-> TRUE,
     visible |-> k[2] \notin switchedOff, opaque |-> FALSE]

\* Mutant: the selected frame stays, not the one that is seen.
RetainedActive(k) == PassedActive # NoFrame /\ PassedFrames # {} /\ k[1] = PassedActive

\* The visible frame stays although nothing asks for it, until another is ready.
Retained(k) == PassedActive # NoFrame /\ PassedFrames # {} /\ k[1] = visibleFrame

Replaced(passed) == {k \in Mounted : passed[k] \notin {0, entry[k].token}}
Dropped(passed) == {k \in Mounted : passed[k] = 0 /\ ~Retained(k)}

\* The effects of a rendering: mount, replace and drop layers, and start the
\* timeout of playback unless the one for this frame goes on.  A query nothing
\* observes any more is asked again when it is observed next.
RunEffect ==
    /\ effectDue
    /\ effectDue' = FALSE /\ refreshDue' = TRUE
    /\ failed' = {k \in failed : k[1] \in PassedFrames /\ k[2] \in stack}
    /\ playTimer' = IF playTimer.frame = PlayableFrame THEN playTimer
                    ELSE [frame |-> PlayableFrame, due |-> FALSE]
    /\ LET passed == PassedLayers
           replaced == Replaced(passed)
           dropped == Dropped(passed)
       IN  /\ seen' = [active |-> PassedActive, expected |-> Cardinality(stack),
                       wanted |-> passed]
           /\ entry' = [k \in LayerKeys |->
                  IF k \in dropped THEN Unmounted
                  ELSE IF passed[k] = 0 THEN entry[k]
                  ELSE IF entry[k].token = passed[k]
                       THEN [entry[k] EXCEPT !.visible = k[2] \notin switchedOff]
                  ELSE Mount(k, passed[k])]
           /\ held' = held \cup {k \in replaced : k[1] = visibleFrame /\ entry[k].opaque}
           /\ loaded' = loaded \ (dropped \cup replaced)
    /\ UNCHANGED <<pageVars, visibleFrame, readyFrames, mapMoving>>

\* Frames of which every layer is mounted with its token and ready.
ReadyFrames(e) ==
    {f \in Frames :
        LET layers == {s \in LayerIds : seen.wanted[<<f, s>>] # 0}
        IN  /\ seen.expected >= 1 /\ Cardinality(layers) = seen.expected
            /\ \A s \in layers : /\ e[<<f, s>>].token = seen.wanted[<<f, s>>]
                                 /\ e[<<f, s>>].ready}

\* refreshReadyFrames: an active frame that is ready is shown and what nothing
\* asks for leaves the map; the page renders if other frames are ready.
RefreshReadyFrames(e) ==
    /\ readyFrames' = ReadyFrames(e)
    /\ effectDue' = (effectDue \/ readyFrames' # readyFrames)
    /\ IF seen.active \in ReadyFrames(e)
       THEN LET stays == {k \in Mounted : seen.wanted[k] # 0 \/ k[1] = seen.active}
            IN  /\ visibleFrame' = seen.active
                /\ held' = {}
                /\ entry' = [k \in LayerKeys |->
                       IF k \in stays
                       THEN [e[k] EXCEPT !.opaque = k[1] = seen.active /\ e[k].visible]
                       ELSE Unmounted]
                /\ loaded' = loaded \cap stays
       ELSE entry' = e /\ UNCHANGED <<visibleFrame, held, loaded>>

\* The timer of the last effect, before or after a newer rendering has its own.
\* It has no delay: one of playback ends only after a moment at which neither an
\* effect nor a refresh was due.
Refresh ==
    /\ refreshDue
    /\ refreshDue' = FALSE
    /\ RefreshReadyFrames(entry)
    /\ playTimer' = [playTimer EXCEPT !.due = playTimer.frame # NoFrame /\ (@ \/ ~effectDue')]
    /\ UNCHANGED <<pageVars, failed, seen, mapMoving>>

\* Mutant: one check more than the entry counts.
CheckThrice(k) ==
    /\ k \in Mounted /\ entry[k].timer
    /\ IF k \in loaded /\ entry[k].checks = 2
       THEN RefreshReadyFrames([entry EXCEPT ![k].ready = TRUE, ![k].timer = FALSE])
       ELSE /\ entry' = [entry EXCEPT ![k].checks = IF k \in loaded THEN @ + 1 ELSE 0]
            /\ UNCHANGED <<readyFrames, effectDue, visibleFrame, held, loaded>>
    /\ UNCHANGED <<pageVars, failed, playTimer, refreshDue, seen, mapMoving>>

\* checkReady: a layer is ready when its tiles are there at two checks.
CheckReady(k) ==
    /\ k \in Mounted /\ entry[k].timer
    /\ IF k \in loaded /\ entry[k].checks = 1
       THEN RefreshReadyFrames([entry EXCEPT ![k].ready = TRUE, ![k].timer = FALSE])
       ELSE /\ entry' = [entry EXCEPT ![k].checks = IF k \in loaded THEN 1 ELSE 0]
            /\ UNCHANGED <<readyFrames, effectDue, visibleFrame, held, loaded>>
    /\ UNCHANGED <<pageVars, failed, playTimer, refreshDue, seen, mapMoving>>

\* movestart: nothing is ready and nothing checks until the movement ends.  The
\* new view needs tiles, some of which may arrive during the movement.
MoveStart ==
    /\ ~mapMoving /\ Counted
    /\ mapMoving' = TRUE /\ effectDue' = TRUE
    /\ loaded' = {}
    /\ entry' = [k \in LayerKeys |-> IF k \in Mounted
           THEN [entry[k] EXCEPT !.checks = 0, !.ready = FALSE, !.timer = FALSE]
           ELSE Unmounted]
    /\ readyFrames' = {}
    /\ UNCHANGED <<stack, nextLayerId, switchedOff, validTime, timeline, cityView,
                   queryKey,
                   answered, failed, playTimer, refreshDue, seen, held, visibleFrame>>

\* Mutant: only layers that have their tiles already are checked again.
MoveEndIfLoaded ==
    /\ mapMoving
    /\ mapMoving' = FALSE /\ effectDue' = TRUE
    /\ entry' = [k \in LayerKeys |-> IF k \in Mounted
           THEN [entry[k] EXCEPT !.checks = IF k \in loaded THEN 1 ELSE 0,
                                 !.ready = FALSE, !.timer = k \in loaded]
           ELSE Unmounted]
    /\ readyFrames' = {}
    /\ UNCHANGED <<pageVars, failed, playTimer, refreshDue, seen, held,
                   visibleFrame, loaded>>

\* moveend: the checks of all layers start again with one at once.
MoveEnd ==
    /\ mapMoving
    /\ mapMoving' = FALSE /\ effectDue' = TRUE
    /\ entry' = [k \in LayerKeys |-> IF k \in Mounted
           THEN [entry[k] EXCEPT !.checks = IF k \in loaded THEN 1 ELSE 0,
                                 !.ready = FALSE, !.timer = TRUE]
           ELSE Unmounted]
    /\ readyFrames' = {}
    /\ UNCHANGED <<pageVars, failed, playTimer, refreshDue, seen, held,
                   visibleFrame, loaded>>

-----------------------------------------------------------------------------
(* The map *)

TilesArrive(k) ==
    /\ k \in Mounted \ loaded
    /\ loaded' = loaded \cup {k}
    /\ UNCHANGED <<pageVars, failed, effectDue, playTimer, hookVars, mapMoving>>

LayersNext ==
    \/ AddLayer \/ EnsureLayer \/ MoveLayer
    \/ ChangeRange \/ ChangeProduct \/ LoadTimeline \/ FirstTime
    \/ SwitchView \/ PlayNext
    \/ \E s \in LayerIds : RemoveLayer(s) \/ SwitchLayer(s) \/ ChangeField(s)
    \/ \E f \in Frames : NewRun(f) \/ GoTo(f)
    \/ RunEffect \/ Refresh \/ MoveStart \/ MoveEnd
    \/ \E k \in LayerKeys : ResolveLayer(k) \/ FailLayer(k) \/ RetryLayer(k)
    \/ \E k \in LayerKeys : CheckReady(k) \/ TilesArrive(k)

LayersSpec == LayersInit /\ [][LayersNext]_layersVars

\* The browser runs what is due: effects and their timers, answers, tiles, the
\* end of a movement, the checks.  Between two edits each of these changes
\* something finitely often (a check that finds no tiles changes nothing), so
\* one condition covers them.
BrowserStep ==
    \/ RunEffect \/ Refresh \/ MoveEnd \/ EnsureLayer \/ LoadTimeline \/ FirstTime
    \/ \E k \in LayerKeys : ResolveLayer(k) \/ FailLayer(k) \/ TilesArrive(k) \/ CheckReady(k)

LayersFairSpec == LayersSpec /\ WF_layersVars(BrowserStep)

-----------------------------------------------------------------------------
\* Layers that can be seen.
OnMap == {k \in Mounted : entry[k].opaque} \cup held

\* docs/frontend.md: "avoiding a blank flash between frames".  While a time is
\* selected and the timeline known, the last layer leaves the map only because
\* the user has switched off every layer of the frame that is ready.
NoBlankFlash ==
    [][OnMap # {} /\ OnMap' = {} =>
          \/ PassedActive = NoFrame \/ PassedFrames = {}
          \/ /\ seen.active \in readyFrames'
             /\ \A k \in LayerKeys : k[1] = seen.active /\ seen.wanted[k] # 0
                    => entry'[k] # Unmounted /\ ~entry'[k].visible]_layersVars

\* The layers of the selected time are on the map, of the field and run that are
\* selected now.
SelectedIsOnMap ==
    \A s \in stack \ switchedOff :
        /\ <<validTime, s>> \in OnMap
        /\ entry[<<validTime, s>>].token = queryKey[<<validTime, s>>]

\* playback.test.ts: "lossless forecast playback".  The frame the animation
\* leaves is the one on the map, and nothing of another frame is with it.
\* Unless the timeout is faster than what an edit, an answer or a movement has
\* made due, all layers of the frame are seen, of the field and run selected now.
PlayedIsShown ==
    [][PlayNext => /\ visibleFrame = playTimer.frame
                   /\ \A k \in OnMap : k[1] = playTimer.frame
                   /\ ~effectDue /\ ~refreshDue
                          => validTime = playTimer.frame /\ SelectedIsOnMap]_layersVars

\* However the frames, the layers, the movements and the tiles come, the checks
\* never stop for good: when nothing is changed any more, the map shows the
\* selected time with every layer that is switched on, unless the query of one
\* of its layers was given up.
SelectionIsShown ==
    []<>(\/ cityView
         \/ \E s \in stack : <<validTime, s>> \in failed
         \/ SelectedIsOnMap)

\* docs/frontend.md, "Layer controls": "removal from the stack".  When the
\* active frame is ready and no work is due, the map shows layers of the stack.
RemovedIsGone ==
    ~effectDue /\ ~refreshDue /\ validTime \in readyFrames
        => \A k \in OnMap : k[2] \in stack
============================================================================
