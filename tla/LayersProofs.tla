---------------------------- MODULE LayersProofs ----------------------------
(***************************************************************************)
(* Proofs about WeatherLayers, for every timeline, lookahead, number of    *)
(* layers, of keys and of edits.                                           *)
(***************************************************************************)
EXTENDS WeatherLayers, TLAPS, FiniteSetTheorems

USE LayersAssumption

\* What a rendering asks for is what its effect has stored.
SeenInv ==
    ~effectDue => seen.active = PassedActive /\ seen.wanted = PassedLayers

\* After its effect every layer the page passes is mounted under its token.
MountedInv ==
    ~effectDue => \A k \in LayerKeys : seen.wanted[k] # 0 =>
        /\ entry[k].token = seen.wanted[k]
        /\ entry[k].visible <=> k[2] \notin switchedOff

\* After the refresh that follows an effect, a frame counts as ready only with
\* all its layers.
ReadyInv == ~refreshDue => readyFrames \subseteq ReadyFrames(entry)

\* An active frame that counts as ready is on the map, and no other is.
ShownInv ==
    ~refreshDue /\ seen.active \in readyFrames =>
        /\ held = {} /\ visibleFrame = seen.active
        /\ \A k \in Mounted : entry[k].opaque <=> k[1] = seen.active /\ entry[k].visible

\* Layers that can be seen are of the visible frame.
VisibleFrameInv ==
    /\ \A k \in Mounted : entry[k].opaque => k[1] = visibleFrame
    /\ \A k \in held : k[1] = visibleFrame

\* The timeout of playback is that of the last rendering.
TimerInv == ~effectDue => playTimer.frame \in {NoFrame, PlayableFrame}

\* A timeout whose delay may be over leaves the frame that is on the map.
DueInv ==
    playTimer.due => /\ playTimer.frame # NoFrame
                     /\ seen.active = playTimer.frame /\ visibleFrame = playTimer.frame

LayersInv ==
    /\ LayersTypeOK /\ Cardinality(stack) <= MaxStack
    /\ SeenInv /\ MountedInv /\ ReadyInv /\ ShownInv /\ VisibleFrameInv
    /\ TimerInv /\ DueInv

-----------------------------------------------------------------------------
(* Steps of the page: they leave the hook and the map alone.               *)

PageStep ==
    \/ AddLayer \/ EnsureLayer \/ MoveLayer
    \/ ChangeRange \/ ChangeProduct \/ LoadTimeline \/ FirstTime
    \/ SwitchView \/ PlayNext
    \/ \E s \in LayerIds : RemoveLayer(s) \/ SwitchLayer(s) \/ ChangeField(s)
    \/ \E f \in Frames : NewRun(f) \/ GoTo(f)
    \/ \E k \in LayerKeys : ResolveLayer(k) \/ FailLayer(k) \/ RetryLayer(k)

\* Every change of the page is followed by an effect, and by nothing else; a
\* timeout of playback that is over is no more.
LEMMA PageStepRenders ==
    PageStep => /\ effectDue' = TRUE /\ UNCHANGED <<hookVars, mapVars>>
                /\ playTimer' = playTimer \/ playTimer' = NoTimer
BY DEF PageStep, Renders, AddLayer, EnsureLayer, MoveLayer, ChangeRange, ChangeProduct,
       LoadTimeline, FirstTime, SwitchView, PlayNext, RemoveLayer, SwitchLayer,
       ChangeField, NewRun, GoTo, ResolveLayer, FailLayer, RetryLayer, Edited

\* A step is one of the page, of the hook or of the map.
LEMMA NextIsPageOrHook ==
    ASSUME [LayersNext]_layersVars
    PROVE  \/ PageStep \/ RunEffect \/ Refresh \/ MoveStart \/ MoveEnd
           \/ \E k \in LayerKeys : CheckReady(k) \/ TilesArrive(k)
           \/ UNCHANGED layersVars
BY DEF LayersNext, PageStep

\* The stack is finite; frames and keys are what they look like.
LEMMA StackIsFinite ==
    ASSUME stack \subseteq LayerIds
    PROVE  IsFiniteSet(stack) /\ Cardinality(stack) \in Nat
<1>1. IsFiniteSet(LayerIds)
  BY FS_Interval DEF LayerIds
<1>2. IsFiniteSet(stack)
  BY <1>1, FS_Subset
<1> QED BY <1>2, FS_CardinalityType

PageTypeOK ==
    /\ stack \subseteq LayerIds /\ nextLayerId \in 1..(MaxLayerId + 1)
    /\ switchedOff \subseteq stack
    /\ validTime \in Frames \cup {NoFrame}
    /\ timeline \in BOOLEAN /\ cityView \in BOOLEAN
    /\ queryKey \in [LayerKeys -> 1..MaxQueryKey]
    /\ answered \subseteq LayerKeys /\ failed \subseteq LayerKeys \ answered
    /\ edits \in 0..MaxEdits
    /\ Cardinality(stack) <= MaxStack

\* New keys of queries are keys, and the answers remain answers of layers.
LEMMA NewKeysType ==
    ASSUME PageTypeOK, NEW K \in SUBSET LayerKeys, NewKeys(K)
    PROVE  /\ queryKey' \in [LayerKeys -> 1..MaxQueryKey]
           /\ answered' \subseteq LayerKeys /\ failed' \subseteq LayerKeys \ answered'
<1>1. \A k \in LayerKeys : queryKey[k] \in 1..MaxQueryKey
  BY DEF PageTypeOK
<1>2. \A k \in K : queryKey[k] + 1 \in 1..MaxQueryKey
  BY <1>1 DEF NewKeys
<1> QED BY <1>1, <1>2 DEF NewKeys, PageTypeOK

\* The count of the edits stays within its bound.
LEMMA EditedType ==
    ASSUME PageTypeOK, Counted PROVE edits' \in 0..MaxEdits
BY DEF PageTypeOK, Counted

\* Appending takes the stack to one layer more.
LEMMA AppendType ==
    ASSUME PageTypeOK, AppendLayer, Cardinality(stack) < MaxStack
    PROVE  /\ stack' \subseteq LayerIds /\ nextLayerId' \in 1..(MaxLayerId + 1)
           /\ switchedOff' \subseteq stack'
           /\ Cardinality(stack') <= MaxStack
<1>1. nextLayerId \in LayerIds
  BY DEF PageTypeOK, AppendLayer, LayerIds
<1>2. IsFiniteSet(stack) /\ Cardinality(stack) \in Nat
  BY StackIsFinite DEF PageTypeOK
<1>3. Cardinality(stack \cup {nextLayerId}) <= Cardinality(stack) + 1
  BY <1>2, FS_AddElement
<1>4. Cardinality(stack \cup {nextLayerId}) \in Nat
  BY <1>2, FS_AddElement
<1> QED BY <1>1, <1>2, <1>3, <1>4 DEF PageTypeOK, AppendLayer, LayerIds

PlayTypeOK == playTimer \in [frame : Frames \cup {NoFrame}, due : BOOLEAN]

\* Every step of the page keeps its types and the limit of the stack.
LEMMA PageType ==
    ASSUME PageTypeOK, PlayTypeOK, PageStep PROVE PageTypeOK'
<1> USE DEF PageTypeOK
<1>0. FrameCount \in Nat \ {0} /\ 0 \in Frames /\ \A f \in Frames : f \in Nat
  BY DEF Frames
<1>1. CASE AddLayer
  BY <1>1, AppendType, EditedType DEF Edited, AddLayer, AppendLayer
<1>2. CASE EnsureLayer
  <2>1. Cardinality(stack) = 0
    BY <1>2, FS_EmptySet DEF EnsureLayer
  <2>2. Cardinality(stack) < MaxStack
    BY <2>1
  <2> QED BY <1>2, <2>2, AppendType DEF EnsureLayer, AppendLayer, MayLeaveTimeline
<1>3. CASE MoveLayer
  BY <1>3, EditedType DEF Edited, MoveLayer
<1>4. CASE ChangeRange
  BY <1>4, EditedType DEF Edited, ChangeRange, MayLeaveTimeline
<1>5. CASE ChangeProduct
  <2>1. Cardinality({}) = 0
    BY FS_EmptySet
  <2>2. Cardinality(stack') <= MaxStack
    BY <1>5, <2>1 DEF ChangeProduct
  <2>3. edits' \in 0..MaxEdits
    BY <1>5, EditedType DEF Edited, ChangeProduct
  <2> QED BY <1>5, <2>2, <2>3 DEF ChangeProduct
<1>6. CASE LoadTimeline
  BY <1>6 DEF LoadTimeline
<1>7. CASE FirstTime
  BY <1>0, <1>7 DEF FirstTime
<1>8. CASE SwitchView
  BY <1>8, EditedType DEF Edited, SwitchView
<1>9. CASE PlayNext
  <2>1. playTimer.frame + 1 \in Nat
    BY <1>0 DEF PlayTypeOK, NoFrame
  <2>2. NextFrame(playTimer.frame) \in Frames
    BY <1>0, <2>1 DEF NextFrame, Frames
  <2> QED BY <1>9, <2>2, EditedType DEF PlayNext
<1>10. ASSUME NEW s \in LayerIds, RemoveLayer(s) PROVE PageTypeOK'
  <2>1. IsFiniteSet(stack) /\ Cardinality(stack) \in Nat
    BY StackIsFinite
  <2>2. s \in stack /\ Cardinality(stack \ {s}) = Cardinality(stack) - 1
    BY <1>10, <2>1, FS_RemoveElement DEF RemoveLayer
  <2>3. stack' = stack \ {s} /\ switchedOff' = switchedOff \ {s}
    BY <1>10 DEF RemoveLayer
  <2>4. Cardinality(stack') <= MaxStack
    BY <2>1, <2>2, <2>3
  <2> QED BY <1>10, <2>3, <2>4, EditedType DEF Edited, RemoveLayer, MayLeaveTimeline
<1>11. ASSUME NEW s \in LayerIds, SwitchLayer(s) PROVE PageTypeOK'
  BY <1>11, EditedType DEF Edited, SwitchLayer
<1>12. ASSUME NEW s \in LayerIds, ChangeField(s) PROVE PageTypeOK'
  <2>1. Frames \X {s} \in SUBSET LayerKeys
    BY DEF LayerKeys
  <2> QED BY <1>12, <2>1, NewKeysType, EditedType DEF Edited, ChangeField, MayLeaveTimeline
<1>13. ASSUME NEW f \in Frames, NewRun(f) PROVE PageTypeOK'
  <2>1. {f} \X stack \in SUBSET LayerKeys
    BY DEF LayerKeys
  <2> QED BY <1>13, <2>1, NewKeysType, EditedType DEF Edited, NewRun
<1>14. ASSUME NEW f \in Frames, GoTo(f) PROVE PageTypeOK'
  BY <1>14, EditedType DEF Edited, GoTo
<1>15. ASSUME NEW k \in LayerKeys, ResolveLayer(k) PROVE PageTypeOK'
  BY <1>15 DEF ResolveLayer, Requested
<1>16. ASSUME NEW k \in LayerKeys, FailLayer(k) PROVE PageTypeOK'
  BY <1>16, EditedType DEF Edited, FailLayer, Requested
<1>17. ASSUME NEW k \in LayerKeys, RetryLayer(k) PROVE PageTypeOK'
  BY <1>17 DEF RetryLayer
<1> HIDE DEF PageTypeOK
<1> QED
  BY <1>1, <1>2, <1>3, <1>4, <1>5, <1>6, <1>7, <1>8, <1>9, <1>10, <1>11,
     <1>12, <1>13, <1>14, <1>15, <1>16, <1>17 DEF PageStep

-----------------------------------------------------------------------------
(* What is mounted                                                         *)

EntryType == BufferedLayer \cup {Unmounted}

\* A mounted layer has a token.
LEMMA MountedHasToken ==
    ASSUME NEW b \in EntryType
    PROVE  /\ b # Unmounted => b \in BufferedLayer
           /\ b \in BufferedLayer => b # Unmounted /\ b.token # 0
           /\ b.token # 0 => b # Unmounted
<1>1. b \in BufferedLayer => b.token \in 1..MaxQueryKey
  BY DEF BufferedLayer
<1>2. Unmounted.token = 0
  BY DEF Unmounted
<1>3. b \in BufferedLayer => b # Unmounted /\ b.token # 0
  BY <1>1, <1>2
<1> QED BY <1>2, <1>3 DEF EntryType

\* Entries that differ in their checks only: nothing else is seen or served.
SameLayers(e) ==
    /\ e \in [LayerKeys -> EntryType]
    /\ \A k \in LayerKeys :
          /\ e[k] # Unmounted <=> entry[k] # Unmounted
          /\ e[k].token = entry[k].token
          /\ entry[k] # Unmounted =>
                e[k].visible = entry[k].visible /\ e[k].opaque = entry[k].opaque

HookTypeOK ==
    /\ seen \in [active : Frames \cup {NoFrame}, expected : 0..MaxStack,
                 wanted : [LayerKeys -> 0..MaxQueryKey]]
    /\ entry \in [LayerKeys -> EntryType]
    /\ held \subseteq LayerKeys
    /\ visibleFrame \in Frames \cup {NoFrame} /\ readyFrames \subseteq Frames
    /\ loaded \subseteq Mounted

\* The type invariant in its two halves.
LEMMA TypeHalves ==
    (LayersTypeOK /\ Cardinality(stack) <= MaxStack)
       <=> /\ PageTypeOK /\ PlayTypeOK /\ HookTypeOK
           /\ effectDue \in BOOLEAN /\ refreshDue \in BOOLEAN /\ mapMoving \in BOOLEAN
BY DEF LayersTypeOK, PageTypeOK, PlayTypeOK, HookTypeOK, EntryType

\* The same of the next state.
LEMMA TypeHalvesNext ==
    ASSUME PageTypeOK', PlayTypeOK', HookTypeOK', effectDue' \in BOOLEAN, refreshDue' \in BOOLEAN,
           mapMoving' \in BOOLEAN
    PROVE  LayersTypeOK' /\ Cardinality(stack') <= MaxStack
BY DEF LayersTypeOK, PageTypeOK, PlayTypeOK, HookTypeOK, EntryType

\* The layers a frame needs, from the side of one of its layers.
LEMMA ReadyLayerIsMounted ==
    ASSUME NEW e \in [LayerKeys -> EntryType], NEW f \in ReadyFrames(e),
           NEW s \in LayerIds, seen.wanted[<<f, s>>] # 0
    PROVE  /\ <<f, s>> \in LayerKeys
           /\ e[<<f, s>>] # Unmounted
           /\ e[<<f, s>>].token = seen.wanted[<<f, s>>] /\ e[<<f, s>>].ready
<1>1. f \in Frames /\ <<f, s>> \in LayerKeys
  BY DEF ReadyFrames, LayerKeys
<1>2. e[<<f, s>>].token = seen.wanted[<<f, s>>] /\ e[<<f, s>>].ready
  BY DEF ReadyFrames
<1>3. e[<<f, s>>] \in EntryType
  BY <1>1
<1> QED BY <1>1, <1>2, <1>3, MountedHasToken

\* A frame that is ready stays ready when its layers keep their token and
\* stay ready.
LEMMA ReadyStays ==
    ASSUME NEW e, NEW f \in ReadyFrames(e), seen' = seen,
           \A s \in LayerIds : seen.wanted[<<f, s>>] # 0 =>
               /\ entry'[<<f, s>>].token = e[<<f, s>>].token
               /\ e[<<f, s>>].ready => entry'[<<f, s>>].ready
    PROVE  f \in ReadyFrames(entry)'
BY DEF ReadyFrames

-----------------------------------------------------------------------------
(* The refresh, from the timer and from the last check of a layer          *)

\* What a refresh leaves as it is, and what it establishes.
LEMMA RefreshKeeps ==
    ASSUME HookTypeOK, NEW e, SameLayers(e), RefreshReadyFrames(e), seen' = seen
    PROVE  /\ HookTypeOK'
           /\ \A k \in LayerKeys : seen.wanted[k] # 0 /\ entry[k].token = seen.wanted[k] =>
                 entry'[k].token = entry[k].token /\ entry'[k].visible = entry[k].visible
           /\ readyFrames' \subseteq ReadyFrames(entry)'
           /\ seen.active \in readyFrames' =>
                 /\ held' = {} /\ visibleFrame' = seen.active
                 /\ \A k \in Mounted' :
                       entry'[k].opaque <=> k[1] = seen.active /\ entry'[k].visible
           /\ visibleFrame' \in {visibleFrame, seen.active}
           /\ VisibleFrameInv => VisibleFrameInv'
<1> USE DEF HookTypeOK
<1>1. /\ e \in [LayerKeys -> EntryType] /\ readyFrames' = ReadyFrames(e)
      /\ readyFrames' \subseteq Frames
  BY DEF SameLayers, RefreshReadyFrames, ReadyFrames
<1>2. \A k \in LayerKeys : k[1] \in Frames
  BY DEF LayerKeys
<1>3. \A k \in LayerKeys : /\ e[k] # Unmounted <=> k \in Mounted
                           /\ k \in Mounted => e[k] \in BufferedLayer
                           /\ k \in Mounted => entry[k] \in BufferedLayer
                           /\ k \notin Mounted => entry[k].token = 0
                           /\ e[k].token = entry[k].token
                           /\ k \in Mounted => /\ e[k].visible = entry[k].visible
                                               /\ e[k].opaque = entry[k].opaque
  BY <1>1, MountedHasToken DEF SameLayers, Mounted, Unmounted
<1>4. CASE seen.active \notin ReadyFrames(e)
  <2>1. entry' = e /\ visibleFrame' = visibleFrame /\ held' = held /\ loaded' = loaded
    BY <1>4 DEF RefreshReadyFrames
  <2>2. Mounted' = Mounted
    BY <1>3, <2>1 DEF Mounted
  <2>3. HookTypeOK'
    BY <1>1, <2>1, <2>2
  <2>4. readyFrames' \subseteq ReadyFrames(entry)'
    BY <1>1, <2>1, ReadyStays
  <2>5. VisibleFrameInv => VisibleFrameInv'
    BY <1>3, <2>1, <2>2 DEF VisibleFrameInv, Mounted
  <2>6. \A k \in LayerKeys : seen.wanted[k] # 0 /\ entry[k].token = seen.wanted[k] =>
           entry'[k].token = entry[k].token /\ entry'[k].visible = entry[k].visible
    BY <1>3, <2>1
  <2> QED BY <1>1, <1>4, <2>1, <2>3, <2>4, <2>5, <2>6
<1>5. CASE seen.active \in ReadyFrames(e)
  <2> DEFINE stays == {k \in Mounted : seen.wanted[k] # 0 \/ k[1] = seen.active}
             Shown(k) == [e[k] EXCEPT !.opaque = k[1] = seen.active /\ e[k].visible]
  <2>1. /\ visibleFrame' = seen.active /\ held' = {} /\ loaded' = loaded \cap stays
        /\ entry' = [k \in LayerKeys |-> IF k \in stays THEN Shown(k) ELSE Unmounted]
    BY <1>5 DEF RefreshReadyFrames
  <2>2. \A k \in stays : /\ Shown(k) \in BufferedLayer
                         /\ Shown(k).token = e[k].token
                         /\ Shown(k).ready = e[k].ready
                         /\ Shown(k).visible = e[k].visible
                         /\ Shown(k).opaque <=> k[1] = seen.active /\ e[k].visible
    <3> TAKE k \in stays
    <3>1. e[k] \in BufferedLayer
      BY <1>3 DEF Mounted
    <3> QED BY <3>1 DEF BufferedLayer
  <2> HIDE DEF Shown
  <2>3. \A k \in LayerKeys : /\ k \in stays => entry'[k] = Shown(k)
                             /\ k \notin stays => entry'[k] = Unmounted
    BY <2>1
  <2>4. stays \subseteq LayerKeys /\ stays \subseteq Mounted
    BY DEF Mounted
  <2>5. Mounted' = stays
    <3>1. \A k \in stays : Shown(k) # Unmounted
      BY <2>2, MountedHasToken DEF EntryType
    <3> QED BY <2>3, <2>4, <3>1 DEF Mounted
  <2>6. entry' \in [LayerKeys -> EntryType]
    BY <2>1, <2>2 DEF EntryType
  <2>7. \A k \in LayerKeys : seen.wanted[k] # 0 /\ entry[k].token = seen.wanted[k] => k \in stays
    BY <1>3
  <2>8. \A k \in LayerKeys : seen.wanted[k] # 0 /\ entry[k].token = seen.wanted[k] =>
           entry'[k].token = entry[k].token /\ entry'[k].visible = entry[k].visible
    BY <1>3, <2>2, <2>3, <2>4, <2>7
  <2>9. readyFrames' \subseteq ReadyFrames(entry)'
    <3> SUFFICES ASSUME NEW f \in ReadyFrames(e) PROVE f \in ReadyFrames(entry)'
      BY <1>1
    <3>1. \A s \in LayerIds : seen.wanted[<<f, s>>] # 0 =>
             /\ entry'[<<f, s>>].token = e[<<f, s>>].token
             /\ e[<<f, s>>].ready => entry'[<<f, s>>].ready
      BY <1>1, <1>3, <2>2, <2>3, <2>7, ReadyLayerIsMounted
    <3> QED BY <3>1, ReadyStays
  <2>10. \A k \in Mounted' : entry'[k].opaque <=> k[1] = seen.active /\ entry'[k].visible
    BY <2>2, <2>3, <2>4, <2>5
  <2>11. VisibleFrameInv'
    BY <2>1, <2>10 DEF VisibleFrameInv
  <2>12. HookTypeOK'
    BY <1>1, <2>1, <2>4, <2>5, <2>6
  <2> QED BY <2>1, <2>8, <2>9, <2>10, <2>11, <2>12
<1> QED BY <1>4, <1>5

\* The entries are the same as themselves.
LEMMA EntryIsSame ==
    ASSUME HookTypeOK PROVE SameLayers(entry)
BY DEF HookTypeOK, SameLayers

\* A layer that has become ready is the same layer.
LEMMA ReadyIsSame ==
    ASSUME HookTypeOK, NEW k \in Mounted
    PROVE  SameLayers([entry EXCEPT ![k].ready = TRUE, ![k].timer = FALSE])
<1> DEFINE b == [entry[k] EXCEPT !.ready = TRUE, !.timer = FALSE]
<1>1. k \in LayerKeys /\ entry[k] \in BufferedLayer
  BY MountedHasToken DEF Mounted, HookTypeOK
<1>2. /\ b \in BufferedLayer /\ b.token = entry[k].token
      /\ b.visible = entry[k].visible /\ b.opaque = entry[k].opaque
  BY <1>1 DEF BufferedLayer
<1>3. b # Unmounted /\ b \in EntryType
  BY <1>2, MountedHasToken DEF EntryType
<1>4. [entry EXCEPT ![k].ready = TRUE, ![k].timer = FALSE] = [entry EXCEPT ![k] = b]
  BY <1>1 DEF HookTypeOK
<1> HIDE DEF b
<1>5. SameLayers([entry EXCEPT ![k] = b])
  BY <1>1, <1>2, <1>3 DEF SameLayers, HookTypeOK, Mounted
<1> QED BY <1>4, <1>5

\* A check that does not yet make the layer ready.
LEMMA CheckIsSame ==
    ASSUME HookTypeOK, NEW k \in Mounted, NEW c \in 0..1,
           entry' = [entry EXCEPT ![k].checks = c]
    PROVE  /\ SameLayers(entry')
           /\ \A q \in LayerKeys : q \in Mounted => entry'[q].ready = entry[q].ready
<1> DEFINE b == [entry[k] EXCEPT !.checks = c]
<1>1. k \in LayerKeys /\ entry[k] \in BufferedLayer
  BY MountedHasToken DEF Mounted, HookTypeOK
<1>2. /\ b \in BufferedLayer /\ b.token = entry[k].token /\ b.ready = entry[k].ready
      /\ b.visible = entry[k].visible /\ b.opaque = entry[k].opaque
  BY <1>1 DEF BufferedLayer
<1>3. b # Unmounted /\ b \in EntryType
  BY <1>2, MountedHasToken DEF EntryType
<1>4. entry' = [entry EXCEPT ![k] = b]
  BY <1>1 DEF HookTypeOK
<1> HIDE DEF b
<1> QED BY <1>1, <1>2, <1>3, <1>4 DEF SameLayers, HookTypeOK, Mounted

\* The start or the end of a movement of the map.
LEMMA MoveIsSame ==
    ASSUME HookTypeOK, NEW c \in [LayerKeys -> 0..1], NEW t \in BOOLEAN,
           entry' = [k \in LayerKeys |-> IF k \in Mounted
               THEN [entry[k] EXCEPT !.checks = c[k], !.ready = FALSE, !.timer = t]
               ELSE Unmounted]
    PROVE  SameLayers(entry')
<1> DEFINE b(k) == [entry[k] EXCEPT !.checks = c[k], !.ready = FALSE, !.timer = t]
<1>1. \A k \in Mounted : k \in LayerKeys /\ entry[k] \in BufferedLayer
  BY MountedHasToken DEF Mounted, HookTypeOK
<1>2. \A k \in Mounted : /\ b(k) \in BufferedLayer /\ b(k).token = entry[k].token
                         /\ b(k).visible = entry[k].visible
                         /\ b(k).opaque = entry[k].opaque
  BY <1>1 DEF BufferedLayer
<1>3. \A k \in Mounted : b(k) # Unmounted /\ b(k) \in EntryType
  BY <1>2, MountedHasToken DEF EntryType
<1>4. entry' = [k \in LayerKeys |-> IF k \in Mounted THEN b(k) ELSE Unmounted]
  OBVIOUS
<1> HIDE DEF b
<1>5. \A k \in LayerKeys : k \notin Mounted => entry[k] = Unmounted
  BY DEF Mounted
<1>6. entry' \in [LayerKeys -> EntryType]
  BY <1>3, <1>4 DEF EntryType
<1>7. \A k \in LayerKeys : k \in Mounted => entry'[k] = b(k) /\ entry[k] # Unmounted
  BY <1>4 DEF Mounted
<1>8. \A k \in LayerKeys : k \notin Mounted => entry'[k] = entry[k]
  BY <1>4, <1>5
<1>9. \A k \in LayerKeys :
         /\ entry'[k] # Unmounted <=> entry[k] # Unmounted
         /\ entry'[k].token = entry[k].token
         /\ entry[k] # Unmounted =>
               entry'[k].visible = entry[k].visible /\ entry'[k].opaque = entry[k].opaque
  BY <1>2, <1>3, <1>5, <1>7, <1>8
<1> QED BY <1>6, <1>9 DEF SameLayers

\* The start and the end of a movement change no layer but its checks.
LEMMA MovementIsSame ==
    ASSUME HookTypeOK, MoveStart \/ MoveEnd PROVE SameLayers(entry')
<1>1. CASE MoveStart
  <2> DEFINE c == [k \in LayerKeys |-> 0]
  <2>1. c \in [LayerKeys -> 0..1] /\ \A k \in LayerKeys : c[k] = 0
    OBVIOUS
  <2> HIDE DEF c
  <2>2. \A k \in LayerKeys : k \in Mounted =>
           entry'[k] = [entry[k] EXCEPT !.checks = c[k], !.ready = FALSE, !.timer = FALSE]
    BY <1>1, <2>1 DEF MoveStart
  <2>3. entry' = [k \in LayerKeys |-> IF k \in Mounted
             THEN [entry[k] EXCEPT !.checks = c[k], !.ready = FALSE, !.timer = FALSE]
             ELSE Unmounted]
    BY <1>1, <2>2 DEF MoveStart
  <2> QED BY <2>1, <2>3, MoveIsSame
<1>2. CASE MoveEnd
  <2> DEFINE c == [k \in LayerKeys |-> IF k \in loaded THEN 1 ELSE 0]
  <2>1. /\ c \in [LayerKeys -> 0..1]
        /\ \A k \in LayerKeys : c[k] = IF k \in loaded THEN 1 ELSE 0
    OBVIOUS
  <2> HIDE DEF c
  <2>2. \A k \in LayerKeys : k \in Mounted =>
           entry'[k] = [entry[k] EXCEPT !.checks = c[k], !.ready = FALSE, !.timer = TRUE]
    BY <1>2, <2>1 DEF MoveEnd
  <2>3. entry' = [k \in LayerKeys |-> IF k \in Mounted
             THEN [entry[k] EXCEPT !.checks = c[k], !.ready = FALSE, !.timer = TRUE]
             ELSE Unmounted]
    BY <1>2, <2>2 DEF MoveEnd
  <2> QED BY <2>1, <2>3, MoveIsSame
<1> QED BY <1>1, <1>2

\* Such a step takes nothing off the map and puts nothing on it.
LEMMA SameLayersKeep ==
    ASSUME HookTypeOK, SameLayers(entry'), seen' = seen, held' = held,
           visibleFrame' = visibleFrame, readyFrames' \subseteq readyFrames,
           loaded' \subseteq loaded
    PROVE  /\ HookTypeOK' /\ Mounted' = Mounted /\ OnMap' = OnMap
           /\ VisibleFrameInv => VisibleFrameInv'
           /\ MountedInv /\ (~effectDue' => ~effectDue) /\ switchedOff' = switchedOff
                 => MountedInv'
           /\ ShownInv /\ refreshDue' = refreshDue => ShownInv'
<1>1. Mounted' = Mounted
  BY DEF SameLayers, Mounted
<1>2. HookTypeOK'
  BY <1>1 DEF HookTypeOK, SameLayers
<1>3. \A k \in Mounted : entry'[k].visible = entry[k].visible
                         /\ entry'[k].opaque = entry[k].opaque
  BY DEF SameLayers, Mounted
<1>4. OnMap' = OnMap
  BY <1>1, <1>3 DEF OnMap
<1>5. VisibleFrameInv => VisibleFrameInv'
  BY <1>1, <1>3 DEF VisibleFrameInv
<1>6. ASSUME MountedInv, ~effectDue' => ~effectDue, switchedOff' = switchedOff
      PROVE  MountedInv'
  <2>1. SUFFICES ASSUME ~effectDue, NEW k \in LayerKeys, seen.wanted[k] # 0
                 PROVE  /\ entry'[k].token = seen.wanted[k]
                        /\ entry'[k].visible <=> k[2] \notin switchedOff
    BY <1>6 DEF MountedInv
  <2>2. /\ entry[k].token = seen.wanted[k]
        /\ entry[k].visible <=> k[2] \notin switchedOff
    BY <1>6, <2>1 DEF MountedInv
  <2>3. k \in Mounted
    BY <2>1, <2>2, MountedHasToken DEF Mounted, HookTypeOK
  <2>4. entry'[k].token = entry[k].token
    BY DEF SameLayers
  <2> QED BY <1>3, <2>2, <2>3, <2>4
<1>7. ASSUME ShownInv, refreshDue' = refreshDue PROVE ShownInv'
  BY <1>1, <1>3, <1>7 DEF ShownInv
<1> QED BY <1>1, <1>2, <1>4, <1>5, <1>6, <1>7

-----------------------------------------------------------------------------
(* The effect                                                              *)

\* What the page passes to the hook has the types of the refs of the hook.
LEMMA PassedTypes ==
    ASSUME PageTypeOK
    PROVE  /\ PassedLayers \in [LayerKeys -> 0..MaxQueryKey]
           /\ PassedActive \in Frames \cup {NoFrame}
           /\ Cardinality(stack) \in 0..MaxStack
<1>1. \A k \in LayerKeys : queryKey[k] \in 1..MaxQueryKey
  BY DEF PageTypeOK
<1>2. PassedLayers \in [LayerKeys -> 0..MaxQueryKey]
  BY <1>1 DEF PassedLayers
<1>3. Cardinality(stack) \in 0..MaxStack
  BY StackIsFinite DEF PageTypeOK
<1> QED BY <1>2, <1>3 DEF PassedActive, PageTypeOK

\* The layers the effect of this rendering replaces and drops.
ReplacedNow == Replaced(PassedLayers)
DroppedNow == Dropped(PassedLayers)

\* What the effect does to the layers, in these terms.
LEMMA EffectOnLayers ==
    ASSUME RunEffect
    PROVE  /\ entry' = [k \in LayerKeys |->
                  IF k \in DroppedNow THEN Unmounted
                  ELSE IF PassedLayers[k] = 0 THEN entry[k]
                  ELSE IF entry[k].token = PassedLayers[k]
                       THEN [entry[k] EXCEPT !.visible = k[2] \notin switchedOff]
                  ELSE Mount(k, PassedLayers[k])]
           /\ held' = held \cup {k \in ReplacedNow : k[1] = visibleFrame /\ entry[k].opaque}
           /\ loaded' = loaded \ (DroppedNow \cup ReplacedNow)
BY DEF RunEffect, DroppedNow, ReplacedNow

\* What the effect leaves of each layer.
LEMMA EffectEntries ==
    ASSUME PageTypeOK, HookTypeOK, RunEffect, NEW k \in LayerKeys
    PROVE  /\ entry'[k] \in EntryType
           /\ PassedLayers[k] # 0 =>
                 /\ entry'[k].token = PassedLayers[k]
                 /\ entry'[k].visible <=> k[2] \notin switchedOff
           /\ k \in Mounted \ (DroppedNow \cup ReplacedNow) =>
                 k \in Mounted' /\ entry'[k].opaque = entry[k].opaque
           /\ k \in Mounted' /\ k \notin Mounted \ (DroppedNow \cup ReplacedNow) =>
                 ~entry'[k].opaque
<1>1. /\ entry[k] \in EntryType
      /\ k \in Mounted => entry[k] \in BufferedLayer
      /\ k \notin Mounted => entry[k] = Unmounted
  BY MountedHasToken DEF HookTypeOK, Mounted
<1>2. PassedLayers[k] \in 0..MaxQueryKey
  BY PassedTypes
<1>3. CASE k \in DroppedNow
  <2>1. entry'[k] = Unmounted
    BY <1>3, EffectOnLayers
  <2> QED BY <1>3, <2>1 DEF DroppedNow, Dropped, EntryType, Mounted
<1>4. CASE k \notin DroppedNow /\ PassedLayers[k] = 0
  <2>1. entry'[k] = entry[k] /\ k \notin ReplacedNow
    BY <1>4, EffectOnLayers DEF ReplacedNow, Replaced
  <2> QED BY <1>1, <1>4, <2>1 DEF Mounted
<1>5. CASE k \notin DroppedNow /\ PassedLayers[k] # 0 /\ entry[k].token = PassedLayers[k]
  <2> DEFINE b == [entry[k] EXCEPT !.visible = k[2] \notin switchedOff]
  <2>1. entry'[k] = b
    BY <1>5, EffectOnLayers
  <2>2. /\ b \in BufferedLayer /\ b.token = entry[k].token
        /\ b.opaque = entry[k].opaque /\ (b.visible <=> k[2] \notin switchedOff)
    BY <1>1, <1>5, MountedHasToken DEF BufferedLayer, Mounted
  <2>3. k \notin ReplacedNow
    BY <1>5 DEF ReplacedNow, Replaced
  <2>4. b # Unmounted
    BY <2>2, MountedHasToken DEF EntryType
  <2> HIDE DEF b
  <2>5. k \in Mounted
    BY <1>1, <1>2, <1>5, MountedHasToken DEF Mounted
  <2>6. k \in Mounted'
    BY <2>1, <2>4 DEF Mounted
  <2> QED BY <1>5, <2>1, <2>2, <2>3, <2>5, <2>6 DEF EntryType
<1>6. CASE k \notin DroppedNow /\ PassedLayers[k] # 0 /\ entry[k].token # PassedLayers[k]
  <2>1. entry'[k] = Mount(k, PassedLayers[k])
    BY <1>6, EffectOnLayers
  <2>2. Mount(k, PassedLayers[k]) \in BufferedLayer
    BY <1>2, <1>6 DEF Mount, BufferedLayer
  <2>3. /\ Mount(k, PassedLayers[k]).token = PassedLayers[k]
        /\ Mount(k, PassedLayers[k]).visible <=> k[2] \notin switchedOff
        /\ ~Mount(k, PassedLayers[k]).opaque
    BY DEF Mount
  <2>4. entry'[k] \in BufferedLayer
    BY <2>1, <2>2
  <2>5. k \notin Mounted \ (DroppedNow \cup ReplacedNow)
    BY <1>6 DEF ReplacedNow, Replaced
  <2> QED BY <2>1, <2>3, <2>4, <2>5 DEF EntryType
<1> QED BY <1>3, <1>4, <1>5, <1>6

\* The effect keeps the types of the hook.
LEMMA EffectType ==
    ASSUME PageTypeOK, HookTypeOK, RunEffect PROVE HookTypeOK'
<1>1. seen' \in [active : Frames \cup {NoFrame}, expected : 0..MaxStack,
                 wanted : [LayerKeys -> 0..MaxQueryKey]]
  BY PassedTypes DEF RunEffect
<1>2. entry' \in [LayerKeys -> EntryType]
  <2>1. \A k \in LayerKeys : entry'[k] \in EntryType
    BY EffectEntries
  <2>2. entry' = [k \in LayerKeys |-> entry'[k]]
    BY EffectOnLayers
  <2> QED BY <2>1, <2>2
<1>3. held' \subseteq LayerKeys
  BY EffectOnLayers DEF HookTypeOK, ReplacedNow, Replaced, Mounted
<1>4. loaded' \subseteq Mounted'
  <2>1. \A k \in loaded' : k \in LayerKeys /\ k \in Mounted \ (DroppedNow \cup ReplacedNow)
    BY EffectOnLayers DEF HookTypeOK, Mounted
  <2> QED BY <2>1, EffectEntries
<1> QED BY <1>1, <1>2, <1>3, <1>4 DEF RunEffect, HookTypeOK

\* No effect clears the map while frames are passed: a layer of the visible
\* frame stays as it is, or is held when another run or field replaces it.
LEMMA EffectKeepsSeen ==
    ASSUME PageTypeOK, HookTypeOK, VisibleFrameInv, RunEffect,
           PassedActive # NoFrame, PassedFrames # {}, OnMap # {}
    PROVE  OnMap' # {}
<1>1. CASE held # {}
  BY <1>1, EffectOnLayers DEF OnMap
<1>2. CASE held = {}
  <2>1. PICK k \in Mounted : entry[k].opaque
    BY <1>2 DEF OnMap
  <2>2. k \in LayerKeys /\ k[1] = visibleFrame
    BY <2>1 DEF VisibleFrameInv, Mounted
  <2>3. k \notin DroppedNow
    BY <2>2 DEF DroppedNow, Dropped, Retained
  <2>4. CASE k \in ReplacedNow
    BY <2>1, <2>2, <2>4, EffectOnLayers DEF OnMap
  <2>5. CASE k \notin ReplacedNow
    <3>1. k \in Mounted' /\ entry'[k].opaque = entry[k].opaque
      BY <2>2, <2>3, <2>5, EffectEntries
    <3> QED BY <2>1, <3>1 DEF OnMap
  <2> QED BY <2>4, <2>5
<1> QED BY <1>1, <1>2

-----------------------------------------------------------------------------
(* The invariant                                                           *)

\* The page as it opens satisfies the invariant.
LEMMA InitEstablishes == LayersInit => LayersInv
<1> SUFFICES ASSUME LayersInit PROVE LayersInv
  OBVIOUS
<1> USE DEF LayersInit
<1>1. Cardinality(stack) = 1
  BY FS_Singleton
<1>2. PageTypeOK
  <2>1. stack \subseteq LayerIds /\ nextLayerId \in 1..(MaxLayerId + 1)
    BY DEF LayerIds
  <2>2. queryKey \in [LayerKeys -> 1..MaxQueryKey] /\ edits \in 0..MaxEdits
    OBVIOUS
  <2>3. validTime \in Frames
    BY DEF Frames
  <2>4. Cardinality(stack) <= MaxStack
    BY <1>1
  <2>5. /\ switchedOff \subseteq stack /\ timeline \in BOOLEAN /\ cityView \in BOOLEAN
        /\ answered \subseteq LayerKeys /\ failed \subseteq LayerKeys \ answered
    OBVIOUS
  <2> HIDE DEF LayersInit
  <2> QED BY <2>1, <2>2, <2>3, <2>4, <2>5 DEF PageTypeOK
<1>3. \A k \in LayerKeys : entry[k] = Unmounted
  OBVIOUS
<1>4. Mounted = {}
  BY <1>3 DEF Mounted
<1>5. HookTypeOK
  BY <1>1 DEF HookTypeOK, EntryType
<1>6. LayersTypeOK /\ Cardinality(stack) <= MaxStack
  BY <1>2, <1>5, TypeHalves DEF PlayTypeOK, NoTimer
<1>7. SeenInv /\ MountedInv /\ TimerInv /\ DueInv
  BY DEF SeenInv, MountedInv, TimerInv, DueInv, NoTimer
<1>8. ReadyInv /\ ShownInv /\ VisibleFrameInv
  BY <1>4 DEF ReadyInv, ShownInv, VisibleFrameInv
<1> QED BY <1>6, <1>7, <1>8 DEF LayersInv

\* A step of the page leaves an effect to run; what is mounted stays.
LEMMA PageStepKeeps ==
    ASSUME LayersInv, PageStep PROVE LayersInv'
<1>1. /\ PageTypeOK /\ PlayTypeOK /\ HookTypeOK
      /\ refreshDue \in BOOLEAN /\ mapMoving \in BOOLEAN
  BY TypeHalves DEF LayersInv
<1>2. /\ effectDue' = TRUE /\ refreshDue' = refreshDue /\ seen' = seen /\ entry' = entry
      /\ held' = held /\ visibleFrame' = visibleFrame /\ readyFrames' = readyFrames
      /\ mapMoving' = mapMoving /\ loaded' = loaded
      /\ playTimer' = playTimer \/ playTimer' = NoTimer
  BY PageStepRenders DEF hookVars, mapVars
<1>3. PageTypeOK' /\ PlayTypeOK'
  <2>1. PageTypeOK'
    BY <1>1, PageType
  <2>2. NoTimer \in [frame : Frames \cup {NoFrame}, due : BOOLEAN]
    BY DEF NoTimer
  <2> QED BY <1>1, <1>2, <2>1, <2>2 DEF PlayTypeOK
<1>4. Mounted' = Mounted /\ ReadyFrames(entry)' = ReadyFrames(entry)
  BY <1>2 DEF Mounted, ReadyFrames
<1>5. HookTypeOK'
  BY <1>1, <1>2, <1>4 DEF HookTypeOK
<1>6. LayersTypeOK' /\ Cardinality(stack') <= MaxStack
  BY <1>1, <1>2, <1>3, <1>5, TypeHalvesNext
<1>7. SeenInv' /\ MountedInv' /\ TimerInv' /\ DueInv'
  BY <1>2 DEF LayersInv, SeenInv, MountedInv, TimerInv, DueInv, NoTimer
<1>8. ReadyInv' /\ ShownInv' /\ VisibleFrameInv'
  BY <1>2, <1>4 DEF LayersInv, ReadyInv, ShownInv, VisibleFrameInv
<1> QED BY <1>6, <1>7, <1>8 DEF LayersInv

\* What the page passes changes with the page only.
LEMMA PassedKept ==
    ASSUME UNCHANGED <<stack, validTime, timeline, cityView, queryKey, answered>>
    PROVE  PassedActive' = PassedActive /\ PassedLayers' = PassedLayers
BY DEF PassedActive, PassedLayers, PassedFrames, BufferedTimes

\* So does the frame playback may leave, unless other frames are ready.
LEMMA PlayableKept ==
    ASSUME UNCHANGED <<stack, validTime, timeline, cityView, answered, readyFrames>>
    PROVE  PlayableFrame' = PlayableFrame
BY DEF PlayableFrame, DisplayedFrameReady, NextFrame, PassedActive

\* A frame playback may leave is the active one, and counts as ready.
LEMMA PlayableIsActive ==
    ASSUME PageTypeOK, HookTypeOK, PlayableFrame # NoFrame
    PROVE  /\ PlayableFrame = validTime /\ PassedActive = validTime /\ ~cityView
           /\ validTime \in readyFrames /\ DisplayedFrameReady /\ timeline
<1>1. NoFrame \notin Frames
  BY DEF Frames, NoFrame
<1> QED BY <1>1 DEF PlayableFrame, DisplayedFrameReady, PassedActive, HookTypeOK

\* The effect brings the mounted layers up to what the page passes.
LEMMA EffectKeeps ==
    ASSUME LayersInv, RunEffect PROVE LayersInv'
<1>1. PageTypeOK /\ PlayTypeOK /\ HookTypeOK /\ mapMoving \in BOOLEAN
  BY TypeHalves DEF LayersInv
<1>2. /\ UNCHANGED <<pageVars, mapMoving, visibleFrame, readyFrames>>
      /\ failed' \subseteq failed /\ effectDue' = FALSE /\ refreshDue' = TRUE
      /\ seen'.active = PassedActive /\ seen'.wanted = PassedLayers
      /\ playTimer' = IF playTimer.frame = PlayableFrame THEN playTimer
                      ELSE [frame |-> PlayableFrame, due |-> FALSE]
  BY DEF RunEffect
<1>3. PageTypeOK' /\ PlayTypeOK'
  <2>1. PageTypeOK'
    BY <1>1, <1>2 DEF PageTypeOK, pageVars
  <2>2. PlayableFrame \in Frames \cup {NoFrame}
    BY <1>1 DEF PlayableFrame, PageTypeOK
  <2> QED BY <1>1, <1>2, <2>1, <2>2 DEF PlayTypeOK
<1>4. LayersTypeOK' /\ Cardinality(stack') <= MaxStack
  BY <1>1, <1>2, <1>3, EffectType, TypeHalvesNext
<1>5. SeenInv'
  BY <1>2, PassedKept DEF SeenInv, pageVars
<1>6. MountedInv'
  BY <1>1, <1>2, EffectEntries DEF MountedInv, pageVars
<1>7. ReadyInv' /\ ShownInv'
  BY <1>2 DEF ReadyInv, ShownInv
<1>8. VisibleFrameInv'
  <2>0. \A k \in held' : k[1] = visibleFrame
    BY EffectOnLayers DEF LayersInv, VisibleFrameInv
  <2>1. SUFFICES ASSUME NEW k \in Mounted', entry'[k].opaque PROVE k[1] = visibleFrame
    BY <1>2, <2>0 DEF VisibleFrameInv
  <2>2. k \in LayerKeys
    BY DEF Mounted
  <2>3. k \in Mounted /\ entry[k].opaque
    BY <1>1, <2>1, <2>2, EffectEntries
  <2> QED BY <2>3 DEF LayersInv, VisibleFrameInv
<1>9. playTimer'.frame = PlayableFrame /\ (playTimer'.due => playTimer.due)
  BY <1>2
<1>10. TimerInv'
  BY <1>2, <1>9, PlayableKept DEF TimerInv, pageVars
<1>11. DueInv'
  <2>1. SUFFICES ASSUME playTimer'.due
                 PROVE  /\ PlayableFrame # NoFrame
                        /\ PassedActive = PlayableFrame /\ visibleFrame = PlayableFrame
    BY <1>2, <1>9 DEF DueInv
  <2>2. playTimer.frame = PlayableFrame
    BY <1>2, <2>1
  <2>3. playTimer.frame # NoFrame /\ visibleFrame = playTimer.frame
    BY <1>9, <2>1 DEF LayersInv, DueInv
  <2> QED BY <1>1, <2>2, <2>3, PlayableIsActive
<1> QED BY <1>4, <1>5, <1>6, <1>7, <1>8, <1>10, <1>11 DEF LayersInv

\* The refresh, wherever it is called from.
LEMMA RefreshKeepsInv ==
    ASSUME LayersInv, NEW e, SameLayers(e), RefreshReadyFrames(e),
           UNCHANGED <<pageVars, failed, seen, mapMoving>>, refreshDue' \in BOOLEAN,
           PlayTypeOK', playTimer'.frame = playTimer.frame,
           playTimer'.due => playTimer.due \/ (playTimer.frame # NoFrame /\ ~effectDue')
    PROVE  LayersInv'
<1>1. PageTypeOK /\ HookTypeOK /\ mapMoving \in BOOLEAN /\ effectDue \in BOOLEAN
  BY TypeHalves DEF LayersInv
<1>2. PageTypeOK'
  BY <1>1 DEF PageTypeOK, pageVars
<1>0. /\ effectDue' \in BOOLEAN /\ readyFrames' = ReadyFrames(e)
      /\ ~effectDue' => ~effectDue /\ readyFrames' = readyFrames
  BY DEF RefreshReadyFrames
<1>3. HookTypeOK' /\ VisibleFrameInv'
  BY <1>1, RefreshKeeps DEF LayersInv
<1>4. LayersTypeOK' /\ Cardinality(stack') <= MaxStack
  BY <1>0, <1>1, <1>2, <1>3, TypeHalvesNext
<1>5. SeenInv'
  BY <1>0, PassedKept DEF LayersInv, SeenInv, pageVars
<1>6. MountedInv'
  BY <1>0, <1>1, RefreshKeeps DEF LayersInv, MountedInv, pageVars
<1>7. ReadyInv' /\ ShownInv'
  BY <1>1, RefreshKeeps DEF ReadyInv, ShownInv
<1>8. TimerInv'
  BY <1>0, PlayableKept DEF LayersInv, TimerInv, pageVars
<1>9. DueInv'
  <2>1. visibleFrame' \in {visibleFrame, seen.active}
    BY <1>1, RefreshKeeps
  <2>2. CASE playTimer.due
    BY <2>1, <2>2 DEF LayersInv, DueInv
  <2>3. CASE playTimer.frame # NoFrame /\ ~effectDue'
    <3>1. playTimer.frame = PlayableFrame
      BY <1>0, <2>3 DEF LayersInv, TimerInv
    <3>2. seen.active = playTimer.frame /\ seen.active \in readyFrames
      BY <1>0, <1>1, <2>3, <3>1, PlayableIsActive DEF LayersInv, SeenInv
    <3>3. visibleFrame' = seen.active
      BY <1>0, <1>1, <2>3, <3>2, RefreshKeeps
    <3> QED BY <2>3, <3>2, <3>3 DEF DueInv
  <2> QED BY <2>2, <2>3 DEF DueInv
<1> QED BY <1>3, <1>4, <1>5, <1>6, <1>7, <1>8, <1>9 DEF LayersInv

\* Steps that change checks and tiles only.
LEMMA SameKeepsInv ==
    ASSUME LayersInv, SameLayers(entry'),
           UNCHANGED <<stack, nextLayerId, switchedOff, validTime, timeline, cityView, queryKey,
                       answered, failed, playTimer, refreshDue, seen, held, visibleFrame>>,
           edits' \in 0..MaxEdits, mapMoving' \in BOOLEAN, loaded' \subseteq loaded,
           \/ readyFrames' = {} /\ effectDue' = TRUE
           \/ /\ UNCHANGED <<readyFrames, effectDue>>
              /\ \A q \in Mounted : entry'[q].ready = entry[q].ready
    PROVE  LayersInv'
<1>1. PageTypeOK /\ PlayTypeOK /\ HookTypeOK /\ effectDue \in BOOLEAN /\ refreshDue \in BOOLEAN
  BY TypeHalves DEF LayersInv
<1>2. PageTypeOK' /\ PlayTypeOK' /\ effectDue' \in BOOLEAN
  BY <1>1 DEF PageTypeOK, PlayTypeOK
<1>3. HookTypeOK' /\ MountedInv' /\ ShownInv' /\ VisibleFrameInv'
  BY <1>1, SameLayersKeep DEF LayersInv
<1>4. LayersTypeOK' /\ Cardinality(stack') <= MaxStack
  BY <1>1, <1>2, <1>3, TypeHalvesNext
<1>5. SeenInv'
  BY PassedKept DEF LayersInv, SeenInv
<1>6. ReadyInv'
  <2>1. SUFFICES ASSUME ~refreshDue, NEW f \in readyFrames, readyFrames' = readyFrames,
                        \A q \in Mounted : entry'[q].ready = entry[q].ready
                 PROVE  f \in ReadyFrames(entry)'
    BY DEF ReadyInv
  <2>2. f \in ReadyFrames(entry) /\ entry \in [LayerKeys -> EntryType]
    BY <1>1, <2>1 DEF LayersInv, ReadyInv, HookTypeOK
  <2>3. \A s \in LayerIds : seen.wanted[<<f, s>>] # 0 =>
           /\ entry'[<<f, s>>].token = entry[<<f, s>>].token
           /\ entry[<<f, s>>].ready => entry'[<<f, s>>].ready
    BY <2>1, <2>2, ReadyLayerIsMounted DEF SameLayers, Mounted
  <2> QED BY <2>2, <2>3, ReadyStays
<1>7. TimerInv' /\ DueInv'
  BY PlayableKept DEF LayersInv, TimerInv, DueInv
<1> QED BY <1>3, <1>4, <1>5, <1>6, <1>7 DEF LayersInv

\* Every step keeps the invariant.
LEMMA NextKeeps ==
    ASSUME LayersInv, [LayersNext]_layersVars PROVE LayersInv'
<1>1. /\ PageTypeOK /\ PlayTypeOK /\ HookTypeOK
      /\ effectDue \in BOOLEAN /\ refreshDue \in BOOLEAN /\ mapMoving \in BOOLEAN
  BY TypeHalves DEF LayersInv
<1>2. CASE PageStep
  BY <1>2, PageStepKeeps
<1>3. CASE RunEffect
  BY <1>3, EffectKeeps
<1>4. CASE Refresh
  <2>1. /\ RefreshReadyFrames(entry) /\ UNCHANGED <<pageVars, failed, seen, mapMoving>>
        /\ playTimer' = [playTimer EXCEPT
               !.due = playTimer.frame # NoFrame /\ (playTimer.due \/ ~effectDue')]
        /\ refreshDue' = FALSE
    BY <1>4 DEF Refresh, PlayTypeOK
  <2>2. /\ PlayTypeOK' /\ playTimer'.frame = playTimer.frame
        /\ playTimer'.due => playTimer.due \/ (playTimer.frame # NoFrame /\ ~effectDue')
    BY <1>1, <2>1 DEF PlayTypeOK
  <2> QED BY <1>1, <2>1, <2>2, EntryIsSame, RefreshKeepsInv
<1>5. ASSUME NEW k \in LayerKeys, CheckReady(k) PROVE LayersInv'
  <2>1. k \in Mounted
    BY <1>5 DEF CheckReady
  <2>2. CASE k \in loaded /\ entry[k].checks = 1
    BY <1>1, <1>5, <2>1, <2>2, ReadyIsSame, RefreshKeepsInv DEF CheckReady, PlayTypeOK
  <2>3. CASE ~(k \in loaded /\ entry[k].checks = 1)
    <3>1. PICK c \in 0..1 : entry' = [entry EXCEPT ![k].checks = c]
      BY <1>5, <2>3 DEF CheckReady
    <3>2. SameLayers(entry') /\ \A q \in Mounted : entry'[q].ready = entry[q].ready
      BY <1>1, <2>1, <3>1, CheckIsSame DEF Mounted
    <3>3. UNCHANGED <<pageVars, failed, playTimer, effectDue, refreshDue, seen, mapMoving,
                      readyFrames, visibleFrame, held, loaded>>
      BY <1>5, <2>3 DEF CheckReady
    <3> QED BY <1>1, <3>2, <3>3, SameKeepsInv DEF pageVars, PageTypeOK
  <2> QED BY <2>2, <2>3
<1>6. CASE MoveStart
  <2>1. edits \in 0..MaxEdits
    BY <1>1 DEF PageTypeOK
  <2>2. edits' \in 0..MaxEdits
    <3>1. edits < MaxEdits /\ edits' = edits + 1
      BY <1>6 DEF MoveStart, Counted
    <3> QED BY <2>1, <3>1
  <2>3. mapMoving' \in BOOLEAN /\ loaded' \subseteq loaded /\ readyFrames' = {}
    BY <1>6 DEF MoveStart
  <2>4. SameLayers(entry')
    BY <1>1, <1>6, MovementIsSame
  <2> QED BY <1>6, <2>2, <2>3, <2>4, SameKeepsInv DEF MoveStart
<1>7. CASE MoveEnd
  <2>1. edits' \in 0..MaxEdits
    BY <1>1, <1>7 DEF MoveEnd, PageTypeOK, pageVars
  <2>2. mapMoving' \in BOOLEAN /\ loaded' \subseteq loaded /\ readyFrames' = {}
    BY <1>7 DEF MoveEnd
  <2>3. SameLayers(entry')
    BY <1>1, <1>7, MovementIsSame
  <2> QED BY <1>7, <2>1, <2>2, <2>3, SameKeepsInv DEF MoveEnd, pageVars
<1>8. ASSUME NEW k \in LayerKeys, TilesArrive(k) PROVE LayersInv'
  <2>1. /\ UNCHANGED <<pageVars, failed, effectDue, playTimer, hookVars, mapMoving>>
        /\ loaded' \subseteq Mounted
    BY <1>1, <1>8 DEF TilesArrive, HookTypeOK
  <2>2. Mounted' = Mounted /\ ReadyFrames(entry)' = ReadyFrames(entry)
    BY <2>1 DEF Mounted, ReadyFrames, hookVars
  <2>3. PageTypeOK' /\ PlayTypeOK' /\ HookTypeOK'
    BY <1>1, <2>1, <2>2 DEF PageTypeOK, PlayTypeOK, HookTypeOK, pageVars, hookVars
  <2>4. LayersTypeOK' /\ Cardinality(stack') <= MaxStack
    BY <1>1, <2>1, <2>3, TypeHalvesNext DEF hookVars
  <2>5. SeenInv'
    BY <2>1, PassedKept DEF LayersInv, SeenInv, pageVars, hookVars
  <2>6. MountedInv' /\ ReadyInv' /\ ShownInv' /\ VisibleFrameInv'
    BY <2>1, <2>2 DEF LayersInv, MountedInv, ReadyInv, ShownInv, VisibleFrameInv,
       pageVars, hookVars
  <2>7. TimerInv' /\ DueInv'
    BY <2>1, PlayableKept DEF LayersInv, TimerInv, DueInv, pageVars, hookVars
  <2> QED BY <2>4, <2>5, <2>6, <2>7 DEF LayersInv
<1>9. CASE UNCHANGED layersVars
  <2>1. UNCHANGED <<pageVars, failed, effectDue, playTimer, hookVars, mapVars>>
    BY <1>9 DEF layersVars
  <2>2. SameLayers(entry')
    BY <1>1, <2>1, EntryIsSame DEF hookVars
  <2>3. edits' \in 0..MaxEdits /\ mapMoving' \in BOOLEAN /\ loaded' \subseteq loaded
    BY <1>1, <2>1 DEF PageTypeOK, pageVars, mapVars
  <2> QED BY <2>1, <2>2, <2>3, SameKeepsInv DEF pageVars, hookVars, mapVars
<1> QED BY <1>2, <1>3, <1>4, <1>5, <1>6, <1>7, <1>8, <1>9, NextIsPageOrHook

\* The variables have their types, the refs of useWeatherLayers among them:
\* only a layer that is mounted has tiles, and a mounted layer has a token.
THEOREM LayersTypeCorrect == LayersSpec => []LayersTypeOK
<1>1. LayersInv => LayersTypeOK
  BY DEF LayersInv
<1> QED BY <1>1, InitEstablishes, NextKeeps, PTL DEF LayersSpec

\* The frame playback leaves (the timeout in App.tsx) is the one on the map, with
\* nothing of another frame; and where the timeout has not overtaken an effect or
\* a refresh, every layer of it is seen, of the field and run selected now.
THEOREM PlayedWhole == LayersSpec => PlayedIsShown
<1> DEFINE Left ==
       /\ visibleFrame = playTimer.frame
       /\ \A k \in OnMap : k[1] = playTimer.frame
       Whole ==
       ~effectDue /\ ~refreshDue => validTime = playTimer.frame /\ SelectedIsOnMap
<1>0. ASSUME LayersInv, PlayNext PROVE Left
  BY <1>0 DEF LayersInv, PlayNext, DueInv, VisibleFrameInv, OnMap
<1>1. ASSUME LayersInv, PlayNext, ~effectDue, ~refreshDue
      PROVE  validTime = playTimer.frame /\ SelectedIsOnMap
  <2>2. PageTypeOK /\ HookTypeOK
    BY <1>1, TypeHalves DEF LayersInv
  <2>0. playTimer.frame # NoFrame /\ playTimer.frame = PlayableFrame
    BY <1>1 DEF LayersInv, PlayNext, DueInv, TimerInv
  <2>12. validTime = playTimer.frame /\ PassedActive = validTime
    BY <2>0, <2>2, PlayableIsActive
  <2>1. /\ timeline /\ {validTime} \X stack \subseteq answered
        /\ validTime \in readyFrames /\ ~effectDue /\ ~refreshDue
    BY <1>1, <2>0, <2>2, PlayableIsActive DEF DisplayedFrameReady
  <2>3. validTime \in Frames /\ validTime # NoFrame /\ FrameCount \in Nat \ {0}
    BY <2>1, <2>2 DEF HookTypeOK, Frames, NoFrame
  <2>5. seen.active = PassedActive /\ seen.wanted = PassedLayers
    BY <1>1, <2>1 DEF LayersInv, SeenInv
  <2>6. ~cityView
    BY <2>0, <2>2, PlayableIsActive
  <2>7. seen.active = validTime
    BY <2>5, <2>12
  <2>8. /\ held = {}
        /\ \A k \in Mounted : entry[k].opaque <=> k[1] = validTime /\ entry[k].visible
    BY <1>1, <2>1, <2>7 DEF LayersInv, ShownInv
  <2>10. validTime \in PassedFrames
    <3>1. (validTime - validTime) % FrameCount = 0
      BY <2>3 DEF Frames
    <3> QED BY <2>1, <2>3, <2>6, <3>1 DEF PassedFrames, BufferedTimes
  <2>11. ASSUME NEW s \in stack \ switchedOff
         PROVE  /\ <<validTime, s>> \in OnMap
                /\ entry[<<validTime, s>>].token = queryKey[<<validTime, s>>]
    <3> DEFINE k == <<validTime, s>>
    <3>1. s \in LayerIds /\ k \in LayerKeys /\ k[1] = validTime /\ k[2] = s
      BY <2>2, <2>3 DEF PageTypeOK, LayerKeys
    <3>2. k \in answered
      BY <2>1
    <3>3. PassedLayers[k] = queryKey[k] /\ queryKey[k] \in 1..MaxQueryKey
      BY <2>2, <2>10, <3>1, <3>2 DEF PassedLayers, PageTypeOK
    <3>4. entry[k].token = queryKey[k] /\ entry[k].visible
      BY <1>1, <2>1, <2>5, <3>1, <3>3 DEF LayersInv, MountedInv
    <3>5. k \in Mounted
      <4>1. entry[k] \in EntryType /\ entry[k].token # 0
        BY <2>2, <3>1, <3>3, <3>4 DEF HookTypeOK
      <4> QED BY <3>1, <4>1, MountedHasToken DEF Mounted
    <3>6. entry[k].opaque
      BY <2>8, <3>1, <3>4, <3>5
    <3> QED BY <3>4, <3>5, <3>6 DEF OnMap
  <2> QED BY <2>11, <2>12 DEF SelectedIsOnMap
<1>2. LayersInv => [PlayNext => Left /\ Whole]_layersVars
  BY <1>0, <1>1
<1> QED BY <1>2, InitEstablishes, NextKeeps, PTL DEF LayersSpec, PlayedIsShown

\* While a time is selected and the timeline known, no effect, refresh or check
\* of useWeatherLayers takes the last visible layer off the map, unless the
\* frame that is ready has only layers the user has switched off.
THEOREM NoBlank == LayersSpec => NoBlankFlash
<1> DEFINE Excused ==
       \/ PassedActive = NoFrame \/ PassedFrames = {}
       \/ /\ seen.active \in readyFrames'
          /\ \A k \in LayerKeys : k[1] = seen.active /\ seen.wanted[k] # 0
                => entry'[k] # Unmounted /\ ~entry'[k].visible
<1>1. ASSUME LayersInv, [LayersNext]_layersVars, OnMap # {}, OnMap' = {} PROVE Excused
  <2>1. PageTypeOK /\ HookTypeOK
    BY <1>1, TypeHalves DEF LayersInv
  <2>2. ASSUME NEW e, SameLayers(e), RefreshReadyFrames(e), seen' = seen PROVE Excused
    <3>1. CASE seen.active \notin ReadyFrames(e)
      <4>1. entry' = e /\ held' = held
        BY <2>2, <3>1 DEF RefreshReadyFrames
      <4>2. Mounted' = Mounted /\ \A k \in Mounted : entry'[k].opaque = entry[k].opaque
        BY <2>2, <4>1 DEF SameLayers, Mounted
      <4> QED BY <1>1, <4>1, <4>2 DEF OnMap
    <3>2. CASE seen.active \in ReadyFrames(e)
      <4>1. e \in [LayerKeys -> EntryType] /\ readyFrames' = ReadyFrames(e)
        BY <2>2 DEF SameLayers, RefreshReadyFrames
      <4>2. HookTypeOK' /\ \A k \in Mounted' :
                 entry'[k].opaque <=> k[1] = seen.active /\ entry'[k].visible
        BY <2>1, <2>2, <3>2, <4>1, RefreshKeeps
      <4>3. ASSUME NEW k \in LayerKeys, k[1] = seen.active, seen.wanted[k] # 0
            PROVE  entry'[k] # Unmounted /\ ~entry'[k].visible
        <5>1. k[2] \in LayerIds /\ k = <<seen.active, k[2]>>
          BY <4>3 DEF LayerKeys
        <5>2. e[k].token = seen.wanted[k]
          BY <3>2, <4>1, <4>3, <5>1, ReadyLayerIsMounted
        <5>3. entry[k].token = seen.wanted[k]
          BY <2>2, <5>2 DEF SameLayers
        <5>4. entry'[k].token # 0
          BY <2>1, <2>2, <4>3, <5>3, RefreshKeeps
        <5>5. k \in Mounted'
          BY <4>2, <5>4, MountedHasToken DEF Mounted, HookTypeOK
        <5>6. ~entry'[k].opaque
          BY <1>1, <5>5 DEF OnMap
        <5> QED BY <4>2, <4>3, <5>5, <5>6 DEF Mounted
      <4> QED BY <3>2, <4>1, <4>3
    <3> QED BY <3>1, <3>2
  <2>3. ASSUME SameLayers(entry'), held' = held PROVE FALSE
    BY <1>1, <2>3 DEF SameLayers, OnMap, Mounted
  <2>4. ASSUME entry' = entry, held' = held PROVE FALSE
    BY <1>1, <2>4 DEF OnMap, Mounted
  <2>5. CASE PageStep
    BY <2>4, <2>5, PageStepRenders DEF hookVars
  <2>6. CASE RunEffect
    BY <1>1, <2>1, <2>6, EffectKeepsSeen DEF LayersInv
  <2>7. CASE Refresh
    BY <2>1, <2>2, <2>7, EntryIsSame DEF Refresh
  <2>8. ASSUME NEW k \in LayerKeys, CheckReady(k) PROVE Excused
    <3>1. k \in Mounted /\ seen' = seen
      BY <2>8 DEF CheckReady
    <3>2. CASE k \in loaded /\ entry[k].checks = 1
      BY <2>1, <2>2, <2>8, <3>1, <3>2, ReadyIsSame DEF CheckReady
    <3>3. CASE ~(k \in loaded /\ entry[k].checks = 1)
      <4>1. PICK c \in 0..1 : entry' = [entry EXCEPT ![k].checks = c]
        BY <2>8, <3>3 DEF CheckReady
      <4>2. held' = held
        BY <2>8, <3>3 DEF CheckReady
      <4> QED BY <2>1, <2>3, <3>1, <4>1, <4>2, CheckIsSame
    <3> QED BY <3>2, <3>3
  <2>9. CASE MoveStart \/ MoveEnd
    BY <2>1, <2>3, <2>9, MovementIsSame DEF MoveStart, MoveEnd
  <2>10. ASSUME NEW k \in LayerKeys, TilesArrive(k) PROVE Excused
    BY <2>4, <2>10 DEF TilesArrive, hookVars
  <2>11. CASE UNCHANGED layersVars
    BY <2>4, <2>11 DEF layersVars, hookVars
  <2> QED
    BY <1>1, <2>5, <2>6, <2>7, <2>8, <2>9, <2>10, <2>11, NextIsPageOrHook
<1>2. LayersInv /\ [LayersNext]_layersVars
        => [OnMap # {} /\ OnMap' = {} => Excused]_layersVars
  BY <1>1
<1> QED BY <1>2, InitEstablishes, NextKeeps, PTL DEF LayersSpec, NoBlankFlash

=============================================================================
