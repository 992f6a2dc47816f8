------------------------------ MODULE GfsProofs ------------------------------
(***************************************************************************)
(* Proofs about GfsCollection, for every set of cycles and hours, every    *)
(* limit, and every sequence of broken transfers and killed processes.     *)
(***************************************************************************)
EXTENDS GfsCollection, ExtremaLemmas

USE GfsAssumption

\* The DAG has max_active_runs=1; beside it one backfill is run by hand.
TwoCollectors == \A i, j, k \in Collectors : i = j \/ j = k \/ i = k

-----------------------------------------------------------------------------
(* The inductive invariant.                                                *)

Writing == {"write", "written", "move"}
Settled(s) == s[1] \in cycleManifest \/ \E k \in Collectors : fetch[k][s] = "valid"

\* A path that names an open file names that of an attempt that is writing.
OwnersWrite(s) ==
    \A k \in Collectors : gridFile[s] = k \/ gridPart[s] = k => fetch[k][s] \in Writing

\* Once an attempt has found its destination free, only the other collector can
\* have filled it, and has nothing left to move there.
LateMoveIsEmpty(s) ==
    \A c \in Collectors : fetch[c][s] = "move" /\ gridFile[s] # "none" =>
        /\ gridPart[s] = "none"
        /\ \A d \in Collectors \ {c} : fetch[d][s] \notin Writing \cup {"get"}

\* What was found valid or listed in a manifest stays whole.
SettledIsWhole(s) == Settled(s) => IsWhole(gridFile[s], s) /\ s \notin unfit

SlotInv(s) == OwnersWrite(s) /\ LateMoveIsEmpty(s) /\ SettledIsWhole(s)

\* How far a collector is with its plan.
StageInv(k) ==
    /\ gfsStage[k] # "idle" => gfsPlan[k] # {}
    /\ \A s \in Slots : s[1] \notin gfsPlan[k] => fetch[k][s] = "idle"
    /\ gfsStage[k] # "download" => \A s \in Slots : fetch[k][s] \in {"idle", "valid"}
    /\ gfsStage[k] = "manifest" =>
        \A c \in gfsPlan[k] :
            \/ \A h \in Hours : fetch[k][<<c, h>>] = "valid"
            \/ c \in cycleManifest /\ \A h \in Hours : fetch[k][<<c, h>>] = "idle"
    /\ gfsStage[k] = "point" => gfsPlan[k] \subseteq cycleManifest

LatestInv == latestCycle # 0 => latestCycle \in cycleManifest

GfsInv ==
    /\ GfsTypeOK
    /\ \A s \in Slots : SlotInv(s)
    /\ \A k \in Collectors : StageInv(k)
    /\ LatestInv

-----------------------------------------------------------------------------
(* Facts about one object.                                                 *)

\* An attempt moves on alone.
LEMMA AdvanceEffect ==
    ASSUME GfsTypeOK, NEW k \in Collectors, NEW s \in Slots, NEW to \in FetchState,
           Advance(k, s, to)
    PROVE  /\ fetch' \in [Collectors -> [Slots -> FetchState]]
           /\ fetch'[k][s] = to
           /\ \A j \in Collectors : \A t \in Slots :
                j # k \/ t # s => fetch'[j][t] = fetch[j][t]
BY DEF GfsTypeOK, Advance

\* A path that names nothing names no whole file.
LEMMA NothingIsNotWhole == \A s : ~IsWhole("none", s)
BY DEF IsWhole

\* Closing a file leaves a name with a file, which is not that of the collector.
LEMMA ClosedEffect ==
    ASSUME NEW i \in Inode, NEW k \in Collectors, NEW s
    PROVE  /\ Closed(i, k, s) \in Inode
           /\ Closed(i, k, s) # k
           /\ Closed(i, k, s) = "none" <=> i = "none"
           /\ \A j \in Collectors : Closed(i, k, s) = j => i = j
           /\ IsWhole(i, s) => Closed(i, k, s) = "whole" \/ Closed(i, k, s) = i
BY DEF Closed, Inode, IsWhole

\* The types of what an attempt changes.
FileTypes ==
    /\ fetch \in [Collectors -> [Slots -> FetchState]]
    /\ gridFile \in [Slots -> Inode]
    /\ gridPart \in [Slots -> Inode]

\* What a step must leave alone at an object for its invariant to survive.
SlotKept(s) ==
    /\ gridFile'[s] = gridFile[s] /\ gridPart'[s] = gridPart[s]
    /\ unfit' = unfit
    /\ s[1] \in cycleManifest' => s[1] \in cycleManifest
    /\ \A k \in Collectors :
        \/ fetch'[k][s] = fetch[k][s]
        \/ fetch[k][s] \in {"idle", "valid", "failed"} /\ fetch'[k][s] \in {"idle", "todo"}

\* The invariant of an object survives a step that leaves it alone.
LEMMA SlotKeptInv ==
    ASSUME GfsTypeOK, NEW s \in Slots, SlotInv(s), SlotKept(s)
    PROVE  SlotInv(s)'
<1>1. gridFile[s] \in Inode /\ \A k \in Collectors : fetch[k][s] \in FetchState
  BY DEF GfsTypeOK
<1>2. OwnersWrite(s)'
  BY DEF SlotInv, SlotKept, OwnersWrite, Writing
<1>3. LateMoveIsEmpty(s)'
  BY DEF SlotInv, SlotKept, LateMoveIsEmpty, Writing
<1>4. SettledIsWhole(s)'
  BY <1>1 DEF SlotInv, SlotKept, SettledIsWhole, Settled, IsWhole
<1> QED BY <1>2, <1>3, <1>4 DEF SlotInv

\* It survives the end of an attempt, which closes its file.
LEMMA AttemptFailsInv ==
    ASSUME GfsTypeOK, NEW k \in Collectors, NEW s \in Slots, SlotInv(s),
           AttemptFails(k, s), UNCHANGED <<unfit, cycleManifest>>
    PROVE  FileTypes' /\ SlotInv(s)'
<1>1. PICK to \in {"todo", "failed"} : Advance(k, s, to)
  BY DEF AttemptFails
<1>2. /\ fetch' \in [Collectors -> [Slots -> FetchState]]
      /\ fetch'[k][s] = to
      /\ \A j \in Collectors : j # k => fetch'[j][s] = fetch[j][s]
  BY <1>1, AdvanceEffect DEF FetchState
<1>3. gridFile[s] \in Inode
  BY DEF GfsTypeOK
<1>4. /\ gridFile' = [gridFile EXCEPT ![s] = Closed(gridFile[s], k, s)]
      /\ gridPart' = [gridPart EXCEPT ![s] = "none"]
  BY DEF AttemptFails
<1>5. gridFile' \in [Slots -> Inode] /\ gridPart' \in [Slots -> Inode]
  BY <1>3, <1>4, ClosedEffect DEF GfsTypeOK, Inode
<1>6. gridFile'[s] = Closed(gridFile[s], k, s) /\ gridPart'[s] = "none"
  BY <1>4 DEF GfsTypeOK
<1>7. /\ gridFile'[s] # k /\ (gridFile'[s] = "none" <=> gridFile[s] = "none")
      /\ \A j \in Collectors : gridFile'[s] = j => gridFile[s] = j
      /\ IsWhole(gridFile[s], s) => gridFile'[s] = "whole" \/ gridFile'[s] = gridFile[s]
  BY <1>3, <1>6, ClosedEffect
<1>8. OwnersWrite(s)'
  BY <1>2, <1>6, <1>7 DEF SlotInv, OwnersWrite
<1>9. LateMoveIsEmpty(s)'
  BY <1>2, <1>6, <1>7 DEF SlotInv, LateMoveIsEmpty, Writing
<1>10. SettledIsWhole(s)'
  BY <1>2, <1>7 DEF SlotInv, SettledIsWhole, Settled, IsWhole
<1> QED BY <1>2, <1>5, <1>8, <1>9, <1>10 DEF SlotInv, FileTypes

\* It survives the failure of an attempt that has no file open.
LEMMA AttemptRaisesInv ==
    ASSUME GfsTypeOK, NEW k \in Collectors, NEW s \in Slots, SlotInv(s),
           fetch[k][s] \in {"todo", "placed"},
           AttemptRaises(k, s), UNCHANGED <<unfit, cycleManifest>>
    PROVE  FileTypes' /\ SlotInv(s)'
<1>1. PICK to \in {"todo", "failed"} : Advance(k, s, to)
  BY DEF AttemptRaises
<1>2. /\ fetch' \in [Collectors -> [Slots -> FetchState]]
      /\ fetch'[k][s] = to
      /\ \A j \in Collectors : j # k => fetch'[j][s] = fetch[j][s]
  BY <1>1, AdvanceEffect DEF FetchState
<1>3. gridFile' = gridFile /\ gridPart' = gridPart
  BY DEF AttemptRaises
<1>4. OwnersWrite(s)'
  BY <1>2, <1>3 DEF SlotInv, OwnersWrite, Writing
<1>5. LateMoveIsEmpty(s)'
  BY <1>2, <1>3 DEF SlotInv, LateMoveIsEmpty, Writing
<1>6. SettledIsWhole(s)'
  BY <1>2, <1>3 DEF SlotInv, SettledIsWhole, Settled, IsWhole
<1> QED BY <1>2, <1>3, <1>4, <1>5, <1>6 DEF SlotInv, GfsTypeOK, FileTypes

-----------------------------------------------------------------------------
(* The steps of an attempt, one object each.                               *)

\* An attempt starts only where nothing is.
LEMMA StartFetchInv ==
    ASSUME GfsTypeOK, NEW k \in Collectors, NEW s \in Slots, SlotInv(s), StartFetch(k, s)
    PROVE  FileTypes' /\ SlotInv(s)'
<1>1. fetch[k][s] = "todo" /\ UNCHANGED <<unfit, cycleManifest>>
  BY DEF StartFetch, Downloading, LeavesRest
<1>2. CASE gridFile[s] = "none"
  <2>1. /\ Advance(k, s, "get") /\ gridFile' = gridFile
        /\ gridPart' = [gridPart EXCEPT ![s] = "none"]
    BY <1>2, NothingIsNotWhole, Zenon DEF StartFetch
  <2>2. /\ fetch' \in [Collectors -> [Slots -> FetchState]]
        /\ fetch'[k][s] = "get"
        /\ \A j \in Collectors : j # k => fetch'[j][s] = fetch[j][s]
    BY <2>1, AdvanceEffect DEF FetchState
  <2>3. FileTypes' /\ gridPart'[s] = "none"
    BY <2>1, <2>2 DEF GfsTypeOK, FileTypes, Inode
  <2>4. OwnersWrite(s)' /\ LateMoveIsEmpty(s)'
    BY <1>2, <2>1, <2>2, <2>3 DEF OwnersWrite, LateMoveIsEmpty, Inode
  <2>5. SettledIsWhole(s)'
    BY <1>1, <1>2, <2>1, <2>2 DEF SlotInv, SettledIsWhole, Settled, IsWhole
  <2> QED BY <2>3, <2>4, <2>5 DEF SlotInv
<1>3. CASE gridFile[s] # "none" /\ IsWhole(gridFile[s], s)
  <2>1. Advance(k, s, "placed") /\ gridFile' = gridFile /\ gridPart' = gridPart
    BY <1>3, Zenon DEF StartFetch
  <2>2. /\ fetch' \in [Collectors -> [Slots -> FetchState]]
        /\ fetch'[k][s] = "placed"
        /\ \A j \in Collectors : j # k => fetch'[j][s] = fetch[j][s]
    BY <2>1, AdvanceEffect DEF FetchState
  <2>3. OwnersWrite(s)' /\ LateMoveIsEmpty(s)'
    BY <1>1, <2>1, <2>2 DEF SlotInv, OwnersWrite, LateMoveIsEmpty, Writing
  <2>4. SettledIsWhole(s)'
    BY <1>1, <2>1, <2>2 DEF SlotInv, SettledIsWhole, Settled, IsWhole
  <2> QED BY <2>1, <2>2, <2>3, <2>4 DEF SlotInv, FileTypes, GfsTypeOK
<1>4. CASE gridFile[s] # "none" /\ ~IsWhole(gridFile[s], s)
  <2>1. AttemptRaises(k, s)
    BY <1>4, Zenon DEF StartFetch
  <2> QED BY <1>1, <2>1, AttemptRaisesInv
<1> QED BY <1>2, <1>3, <1>4

\* It opens a file of its own, or fails because one is there.
LEMMA OpenPartInv ==
    ASSUME GfsTypeOK, NEW k \in Collectors, NEW s \in Slots, SlotInv(s), OpenPart(k, s)
    PROVE  FileTypes' /\ SlotInv(s)'
<1>1. fetch[k][s] = "get" /\ UNCHANGED <<unfit, cycleManifest>>
  BY DEF OpenPart, Downloading, LeavesRest
<1>2. CASE gridPart[s] = "none"
  <2>1. Advance(k, s, "write") /\ gridFile' = gridFile
        /\ gridPart' = [gridPart EXCEPT ![s] = k]
    BY <1>2 DEF OpenPart
  <2>2. /\ fetch' \in [Collectors -> [Slots -> FetchState]]
        /\ fetch'[k][s] = "write"
        /\ \A j \in Collectors : j # k => fetch'[j][s] = fetch[j][s]
    BY <2>1, AdvanceEffect DEF FetchState
  <2>3. FileTypes' /\ gridPart'[s] = k
    BY <2>1, <2>2 DEF GfsTypeOK, FileTypes, Inode
  <2>4. OwnersWrite(s)'
    BY <2>1, <2>2, <2>3 DEF SlotInv, OwnersWrite, Writing
  <2>5. LateMoveIsEmpty(s)'
    BY <1>1, <2>1, <2>2 DEF SlotInv, LateMoveIsEmpty, Writing
  <2>6. SettledIsWhole(s)'
    BY <1>1, <2>1, <2>2 DEF SlotInv, SettledIsWhole, Settled, IsWhole
  <2> QED BY <2>3, <2>4, <2>5, <2>6 DEF SlotInv
<1>3. CASE gridPart[s] # "none"
  BY <1>1, <1>3, AttemptFailsInv DEF OpenPart
<1> QED BY <1>2, <1>3

\* Its file becomes whole under every name it has.
LEMMA ReceiveAllInv ==
    ASSUME GfsTypeOK, NEW k \in Collectors, NEW s \in Slots, SlotInv(s), ReceiveAll(k, s)
    PROVE  FileTypes' /\ SlotInv(s)'
<1>1. /\ fetch[k][s] = "write" /\ Advance(k, s, "written")
      /\ UNCHANGED <<unfit, cycleManifest, gridFile, gridPart>>
  BY DEF ReceiveAll, Downloading, LeavesRest
<1>2. /\ fetch' \in [Collectors -> [Slots -> FetchState]]
      /\ fetch'[k][s] = "written"
      /\ \A j \in Collectors : j # k => fetch'[j][s] = fetch[j][s]
  BY <1>1, AdvanceEffect DEF FetchState
<1>3. OwnersWrite(s)' /\ LateMoveIsEmpty(s)'
  BY <1>1, <1>2 DEF SlotInv, OwnersWrite, LateMoveIsEmpty, Writing
<1>4. SettledIsWhole(s)'
  BY <1>1, <1>2 DEF SlotInv, SettledIsWhole, Settled, IsWhole
<1> QED BY <1>1, <1>2, <1>3, <1>4 DEF SlotInv, FileTypes, GfsTypeOK

\* It finds its destination free, or takes what is there.
LEMMA CheckPlaceInv ==
    ASSUME GfsTypeOK, NEW k \in Collectors, NEW s \in Slots, SlotInv(s), CheckPlace(k, s)
    PROVE  FileTypes' /\ SlotInv(s)'
<1>1. fetch[k][s] = "written" /\ UNCHANGED <<unfit, cycleManifest>>
  BY DEF CheckPlace, Downloading, LeavesRest
<1>2. CASE gridFile[s] = "none"
  <2>1. Advance(k, s, "move") /\ gridFile' = gridFile /\ gridPart' = gridPart
    BY <1>2, NothingIsNotWhole, Zenon DEF CheckPlace
  <2>2. /\ fetch' \in [Collectors -> [Slots -> FetchState]]
        /\ fetch'[k][s] = "move"
        /\ \A j \in Collectors : j # k => fetch'[j][s] = fetch[j][s]
    BY <2>1, AdvanceEffect DEF FetchState
  <2>3. OwnersWrite(s)' /\ LateMoveIsEmpty(s)'
    BY <1>1, <1>2, <2>1, <2>2 DEF SlotInv, OwnersWrite, LateMoveIsEmpty, Writing
  <2>4. SettledIsWhole(s)'
    BY <1>1, <2>1, <2>2 DEF SlotInv, SettledIsWhole, Settled, IsWhole
  <2> QED BY <2>1, <2>2, <2>3, <2>4 DEF SlotInv, FileTypes, GfsTypeOK
<1>3. CASE gridFile[s] # "none" /\ IsWhole(gridFile[s], s) /\ gridPart[s] # "none"
  <2>1. /\ Advance(k, s, "placed")
        /\ gridPart' = [gridPart EXCEPT ![s] = "none"]
        /\ gridFile' = [gridFile EXCEPT ![s] = Closed(gridFile[s], k, s)]
    BY <1>3, Zenon DEF CheckPlace
  <2>2. /\ fetch' \in [Collectors -> [Slots -> FetchState]]
        /\ fetch'[k][s] = "placed"
        /\ \A j \in Collectors : j # k => fetch'[j][s] = fetch[j][s]
    BY <2>1, AdvanceEffect DEF FetchState
  <2>3. gridFile[s] \in Inode
    BY DEF GfsTypeOK
  <2>4. /\ FileTypes' /\ gridPart'[s] = "none"
        /\ gridFile'[s] = Closed(gridFile[s], k, s)
    BY <2>1, <2>2, <2>3, ClosedEffect DEF GfsTypeOK, FileTypes, Inode
  <2>5. /\ gridFile'[s] # k /\ gridFile'[s] # "none"
        /\ \A j \in Collectors : gridFile'[s] = j => gridFile[s] = j
        /\ IsWhole(gridFile[s], s) => gridFile'[s] = "whole" \/ gridFile'[s] = gridFile[s]
    BY <1>3, <2>3, <2>4, ClosedEffect
  <2>6. OwnersWrite(s)' /\ LateMoveIsEmpty(s)'
    BY <2>2, <2>4, <2>5, <1>3 DEF SlotInv, OwnersWrite, LateMoveIsEmpty, Writing, Inode
  <2>7. SettledIsWhole(s)'
    BY <1>1, <2>2, <2>5 DEF SlotInv, SettledIsWhole, Settled, IsWhole
  <2> QED BY <2>4, <2>6, <2>7 DEF SlotInv
<1>4. CASE gridFile[s] # "none" /\ ~(IsWhole(gridFile[s], s) /\ gridPart[s] # "none")
  <2>1. AttemptFails(k, s)
    BY <1>4, Zenon DEF CheckPlace
  <2> QED BY <1>1, <2>1, AttemptFailsInv
<1> QED BY <1>2, <1>3, <1>4

\* It moves what the .part path names by now.  Nothing settled is overwritten:
\* if the destination has been filled meanwhile, there is nothing to move.
LEMMA MovePartInv ==
    ASSUME TwoCollectors, GfsTypeOK, NEW k \in Collectors, NEW s \in Slots, SlotInv(s),
           MovePart(k, s)
    PROVE  FileTypes' /\ SlotInv(s)'
<1>1. fetch[k][s] = "move" /\ UNCHANGED <<unfit, cycleManifest>>
  BY DEF MovePart, Downloading, LeavesRest
<1>2. CASE gridPart[s] = "none"
  BY <1>1, <1>2, AttemptFailsInv DEF MovePart
<1>3. CASE gridPart[s] # "none"
  <2>1. /\ Advance(k, s, "placed")
        /\ gridPart' = [gridPart EXCEPT ![s] = "none"]
        /\ gridFile' = [gridFile EXCEPT ![s] = Closed(gridPart[s], k, s)]
    BY <1>3 DEF MovePart
  <2>2. /\ fetch' \in [Collectors -> [Slots -> FetchState]]
        /\ fetch'[k][s] = "placed"
        /\ \A j \in Collectors : j # k => fetch'[j][s] = fetch[j][s]
    BY <2>1, AdvanceEffect DEF FetchState
  <2>3. gridPart[s] \in Inode
    BY DEF GfsTypeOK
  <2>4. /\ FileTypes' /\ gridPart'[s] = "none"
        /\ gridFile'[s] = Closed(gridPart[s], k, s)
    BY <2>1, <2>2, <2>3, ClosedEffect DEF GfsTypeOK, FileTypes, Inode
  <2>5. /\ gridFile'[s] # k
        /\ \A j \in Collectors : gridFile'[s] = j => gridPart[s] = j
    BY <2>3, <2>4, ClosedEffect
  <2>6. OwnersWrite(s)'
    BY <2>2, <2>4, <2>5 DEF SlotInv, OwnersWrite, Inode
  <2>7. LateMoveIsEmpty(s)'
    BY <2>2, <2>4 DEF LateMoveIsEmpty, TwoCollectors, Writing
  <2>8. gridFile[s] = "none"
    BY <1>1, <1>3 DEF SlotInv, LateMoveIsEmpty
  <2>9. ~Settled(s)
    BY <2>8 DEF SlotInv, SettledIsWhole, IsWhole
  <2>10. SettledIsWhole(s)'
    BY <1>1, <2>2, <2>9 DEF SettledIsWhole, Settled
  <2> QED BY <2>4, <2>6, <2>7, <2>10 DEF SlotInv
<1> QED BY <1>2, <1>3

\* It finds a whole and fitting file.
LEMMA ValidateGridInv ==
    ASSUME GfsTypeOK, NEW k \in Collectors, NEW s \in Slots, SlotInv(s), ValidateGrid(k, s)
    PROVE  FileTypes' /\ SlotInv(s)'
<1>1. fetch[k][s] = "placed" /\ UNCHANGED <<unfit, cycleManifest>>
  BY DEF ValidateGrid, Downloading, LeavesRest
<1>2. CASE IsWhole(gridFile[s], s) /\ s \notin unfit
  <2>1. Advance(k, s, "valid") /\ gridFile' = gridFile /\ gridPart' = gridPart
    BY <1>2 DEF ValidateGrid
  <2>2. /\ fetch' \in [Collectors -> [Slots -> FetchState]]
        /\ fetch'[k][s] = "valid"
        /\ \A j \in Collectors : j # k => fetch'[j][s] = fetch[j][s]
    BY <2>1, AdvanceEffect DEF FetchState
  <2>3. OwnersWrite(s)' /\ LateMoveIsEmpty(s)'
    BY <1>1, <2>1, <2>2 DEF SlotInv, OwnersWrite, LateMoveIsEmpty, Writing
  <2>4. SettledIsWhole(s)'
    BY <1>1, <1>2, <2>1, <2>2 DEF SettledIsWhole, IsWhole
  <2> QED BY <2>1, <2>2, <2>3, <2>4 DEF SlotInv, FileTypes, GfsTypeOK
<1>3. CASE ~(IsWhole(gridFile[s], s) /\ s \notin unfit)
  <2>1. AttemptRaises(k, s)
    BY <1>3 DEF ValidateGrid
  <2> QED BY <1>1, <2>1, AttemptRaisesInv
<1> QED BY <1>2, <1>3

\* A broken transfer ends an attempt.
LEMMA BreakTransferInv ==
    ASSUME GfsTypeOK, NEW k \in Collectors, NEW s \in Slots, SlotInv(s), BreakTransfer(k, s)
    PROVE  FileTypes' /\ SlotInv(s)'
BY AttemptFailsInv DEF BreakTransfer, LeavesRest

\* A killed process leaves its files as they are.
LEMMA KillAttemptInv ==
    ASSUME GfsTypeOK, NEW k \in Collectors, NEW s \in Slots, SlotInv(s), KillAttempt(k, s)
    PROVE  FileTypes' /\ SlotInv(s)'
<1>1. /\ fetch[k][s] \in Writing \cup {"get", "placed"}
      /\ UNCHANGED <<unfit, cycleManifest>>
  BY DEF KillAttempt, Downloading, LeavesRest, Writing
<1>2. PICK to \in {"todo", "failed"} : Advance(k, s, to)
  BY DEF KillAttempt
<1>3. /\ fetch' \in [Collectors -> [Slots -> FetchState]]
      /\ fetch'[k][s] = to
      /\ \A j \in Collectors : j # k => fetch'[j][s] = fetch[j][s]
  BY <1>2, AdvanceEffect DEF FetchState
<1>4. gridFile[s] \in Inode /\ gridPart[s] \in Inode
  BY DEF GfsTypeOK
<1>5. /\ gridFile' = [gridFile EXCEPT ![s] = Closed(gridFile[s], k, s)]
      /\ gridPart' = [gridPart EXCEPT ![s] = Closed(gridPart[s], k, s)]
  BY DEF KillAttempt
<1>6. /\ FileTypes'
      /\ gridFile'[s] = Closed(gridFile[s], k, s)
      /\ gridPart'[s] = Closed(gridPart[s], k, s)
  BY <1>3, <1>4, <1>5, ClosedEffect DEF GfsTypeOK, FileTypes
<1>7. /\ gridFile'[s] # k /\ (gridFile'[s] = "none" <=> gridFile[s] = "none")
      /\ \A j \in Collectors : gridFile'[s] = j => gridFile[s] = j
      /\ IsWhole(gridFile[s], s) => gridFile'[s] = "whole" \/ gridFile'[s] = gridFile[s]
  BY <1>4, <1>6, ClosedEffect
<1>8. /\ gridPart'[s] # k /\ (gridPart'[s] = "none" <=> gridPart[s] = "none")
      /\ \A j \in Collectors : gridPart'[s] = j => gridPart[s] = j
  BY <1>4, <1>6, ClosedEffect
<1>9. OwnersWrite(s)' /\ LateMoveIsEmpty(s)'
  BY <1>3, <1>7, <1>8 DEF SlotInv, OwnersWrite, LateMoveIsEmpty, Writing
<1>10. SettledIsWhole(s)'
  BY <1>1, <1>3, <1>7 DEF SlotInv, SettledIsWhole, Settled, IsWhole
<1> QED BY <1>6, <1>9, <1>10 DEF SlotInv

\* An attempt touches one object, of a collector that downloads.
LEMMA FetchFrame ==
    ASSUME GfsTypeOK, NEW k \in Collectors, NEW s \in Slots, FetchStep(k, s)
    PROVE  /\ gfsStage[k] = "download" /\ fetch[k][s] # "idle"
           /\ \E to \in FetchState : Advance(k, s, to)
           /\ \A t \in Slots : t # s =>
                gridFile'[t] = gridFile[t] /\ gridPart'[t] = gridPart[t]
           /\ LeavesRest
           /\ gfsFaults' \in 0..MaxGfsFaults
<1> USE DEF GfsTypeOK, Downloading
<1>1. CASE StartFetch(k, s)
  <2>1. Advance(k, s, "get") \/ Advance(k, s, "placed") \/ AttemptRaises(k, s)
    BY <1>1, Zenon DEF StartFetch
  <2>2. \E to \in FetchState : Advance(k, s, to)
    BY <2>1 DEF AttemptRaises, FetchState
  <2>3. gridFile' = gridFile /\ (gridPart' = gridPart \/ gridPart' = [gridPart EXCEPT ![s] = "none"])
    BY <1>1, Zenon DEF StartFetch, AttemptRaises
  <2> QED BY <1>1, <2>2, <2>3 DEF StartFetch
<1>2. CASE OpenPart(k, s)
  <2>1. \E to \in FetchState : Advance(k, s, to)
    BY <1>2 DEF OpenPart, AttemptFails, FetchState
  <2> QED BY <1>2, <2>1 DEF OpenPart, AttemptFails
<1>3. CASE ReceiveAll(k, s)
  BY <1>3 DEF ReceiveAll, FetchState
<1>4. CASE CheckPlace(k, s)
  <2>1. Advance(k, s, "move") \/ Advance(k, s, "placed") \/ AttemptFails(k, s)
    BY <1>4, Zenon DEF CheckPlace
  <2>2. \E to \in FetchState : Advance(k, s, to)
    BY <2>1 DEF AttemptFails, FetchState
  <2>3. \/ gridFile' = gridFile /\ gridPart' = gridPart
        \/ \E x : /\ gridFile' = [gridFile EXCEPT ![s] = x]
                  /\ gridPart' = [gridPart EXCEPT ![s] = "none"]
    <3>1. \/ gridFile' = gridFile /\ gridPart' = gridPart
          \/ /\ gridFile' = [gridFile EXCEPT ![s] = Closed(gridFile[s], k, s)]
             /\ gridPart' = [gridPart EXCEPT ![s] = "none"]
      BY <1>4, Zenon DEF CheckPlace, AttemptFails
    <3> QED BY <3>1
  <2> QED BY <1>4, <2>2, <2>3 DEF CheckPlace
<1>5. CASE MovePart(k, s)
  <2>1. \E to \in FetchState : Advance(k, s, to)
    BY <1>5 DEF MovePart, AttemptFails, FetchState
  <2> QED BY <1>5, <2>1 DEF MovePart, AttemptFails
<1>6. CASE ValidateGrid(k, s)
  <2>1. \E to \in FetchState : Advance(k, s, to)
    BY <1>6 DEF ValidateGrid, AttemptRaises, FetchState
  <2> QED BY <1>6, <2>1 DEF ValidateGrid, AttemptRaises
<1>7. CASE BreakTransfer(k, s)
  <2>1. \E to \in FetchState : Advance(k, s, to)
    BY <1>7 DEF BreakTransfer, AttemptFails, FetchState
  <2>2. gfsStage[k] = "download" /\ fetch[k][s] # "idle"
    BY <1>7 DEF BreakTransfer
  <2>3. gfsFaults' \in 0..MaxGfsFaults
    BY <1>7 DEF BreakTransfer
  <2>4. \A t \in Slots : t # s =>
            gridFile'[t] = gridFile[t] /\ gridPart'[t] = gridPart[t]
    BY <1>7 DEF BreakTransfer, AttemptFails
  <2> QED BY <1>7, <2>1, <2>2, <2>3, <2>4 DEF BreakTransfer
<1>8. CASE KillAttempt(k, s)
  <2>1. \E to \in FetchState : Advance(k, s, to)
    BY <1>8 DEF KillAttempt, FetchState
  <2>2. gfsStage[k] = "download" /\ fetch[k][s] # "idle"
    BY <1>8 DEF KillAttempt
  <2>3. gfsFaults' \in 0..MaxGfsFaults
    BY <1>8 DEF KillAttempt
  <2>4. \A t \in Slots : t # s =>
            gridFile'[t] = gridFile[t] /\ gridPart'[t] = gridPart[t]
    BY <1>8 DEF KillAttempt
  <2> QED BY <1>8, <2>1, <2>2, <2>3, <2>4 DEF KillAttempt
<1> QED BY <1>1, <1>2, <1>3, <1>4, <1>5, <1>6, <1>7, <1>8 DEF FetchStep

\* The invariant of its object survives each of these steps.
LEMMA FetchSlotInv ==
    ASSUME TwoCollectors, GfsTypeOK, NEW k \in Collectors, NEW s \in Slots, SlotInv(s),
           FetchStep(k, s)
    PROVE  FileTypes' /\ SlotInv(s)'
BY StartFetchInv, OpenPartInv, ReceiveAllInv, CheckPlaceInv, MovePartInv,
   ValidateGridInv, BreakTransferInv, KillAttemptInv DEF FetchStep

-----------------------------------------------------------------------------
(* The steps of a collector.                                               *)

\* A collector that does not move stays where it is with its plan.
LEMMA StageKeptInv ==
    ASSUME GfsTypeOK, NEW k \in Collectors, StageInv(k),
           gfsStage'[k] = gfsStage[k], gfsPlan'[k] = gfsPlan[k],
           \A s \in Slots : fetch'[k][s] = fetch[k][s],
           cycleManifest \subseteq cycleManifest'
    PROVE  StageInv(k)'
<1>1. \A c \in gfsPlan[k] : \A h \in Hours : <<c, h>> \in Slots
  BY DEF GfsTypeOK, Slots
<1> QED BY <1>1 DEF StageInv

\* The end of a run resets the collector alone.
LEMMA RestEffect ==
    ASSUME GfsTypeOK, NEW k \in Collectors, Rest(k)
    PROVE  /\ fetch' \in [Collectors -> [Slots -> FetchState]]
           /\ gfsStage' \in [Collectors -> GfsStage]
           /\ gfsPlan' \in [Collectors -> SUBSET Cycles]
           /\ seenCycle' \in [Collectors -> Cycles \cup {0}]
           /\ StageInv(k)'
           /\ \A s \in Slots : fetch'[k][s] = "idle"
           /\ \A j \in Collectors : j # k =>
                /\ gfsStage'[j] = gfsStage[j] /\ gfsPlan'[j] = gfsPlan[j]
                /\ \A s \in Slots : fetch'[j][s] = fetch[j][s]
<1>1. /\ fetch' \in [Collectors -> [Slots -> FetchState]]
      /\ gfsStage' \in [Collectors -> GfsStage]
      /\ gfsPlan' \in [Collectors -> SUBSET Cycles]
      /\ seenCycle' \in [Collectors -> Cycles \cup {0}]
  BY DEF Rest, GfsTypeOK, FetchState, GfsStage
<1>2. gfsStage'[k] = "idle" /\ \A s \in Slots : fetch'[k][s] = "idle"
  BY DEF Rest, GfsTypeOK
<1>3. \A j \in Collectors : j # k =>
        /\ gfsStage'[j] = gfsStage[j] /\ gfsPlan'[j] = gfsPlan[j]
        /\ \A s \in Slots : fetch'[j][s] = fetch[j][s]
  BY DEF Rest, GfsTypeOK
<1>4. StageInv(k)'
  BY <1>2 DEF StageInv
<1> QED BY <1>1, <1>2, <1>3, <1>4

\* A run that ends without another effect keeps the invariant.
LEMMA RestInv ==
    ASSUME GfsInv, NEW k \in Collectors, Rest(k), LeavesFiles,
           \A s \in Slots : fetch[k][s] \in {"idle", "valid", "failed"},
           cycleManifest' = cycleManifest,
           latestCycle' = latestCycle \/ latestCycle' \in cycleManifest,
           torn' \in BOOLEAN, gfsFaults' \in 0..MaxGfsFaults
    PROVE  GfsInv'
<1> USE DEF GfsInv
<1>1. latestCycle' \in Cycles \cup {0} /\ LatestInv'
  BY DEF GfsTypeOK, LatestInv
<1>2. GfsTypeOK'
  BY <1>1, RestEffect DEF GfsTypeOK, LeavesFiles
<1>3. ASSUME NEW s \in Slots PROVE SlotInv(s)'
  <2>1. SlotKept(s)
    BY RestEffect DEF SlotKept, LeavesFiles
  <2> QED BY <2>1, SlotKeptInv
<1>4. ASSUME NEW j \in Collectors PROVE StageInv(j)'
  BY RestEffect, StageKeptInv
<1> QED BY <1>1, <1>2, <1>3, <1>4

\* A new plan keeps it.
LEMMA BeginInv ==
    ASSUME GfsInv, NEW k \in Collectors, NEW P \in SUBSET Cycles, P # {},
           gfsStage[k] = "idle", Begin(k, P)
    PROVE  GfsInv'
<1> USE DEF GfsInv
<1>1. /\ fetch' \in [Collectors -> [Slots -> FetchState]]
      /\ gfsStage' \in [Collectors -> GfsStage]
      /\ gfsPlan' \in [Collectors -> SUBSET Cycles]
  BY DEF Begin, GfsTypeOK, FetchState, GfsStage
<1>2. /\ gfsStage'[k] = "download" /\ gfsPlan'[k] = P
      /\ \A s \in Slots : fetch'[k][s] = IF s[1] \in P THEN "todo" ELSE "idle"
  BY DEF Begin, GfsTypeOK
<1>3. \A j \in Collectors : j # k =>
        /\ gfsStage'[j] = gfsStage[j] /\ gfsPlan'[j] = gfsPlan[j]
        /\ \A s \in Slots : fetch'[j][s] = fetch[j][s]
  BY DEF Begin, GfsTypeOK
<1>4. UNCHANGED <<offered, unfit, gridFile, gridPart, cycleManifest, latestCycle,
                 seenCycle, torn, gfsFaults>>
  BY DEF Begin
<1>5. GfsTypeOK' /\ LatestInv'
  BY <1>1, <1>4 DEF GfsTypeOK, LatestInv
<1>6. ASSUME NEW s \in Slots PROVE SlotInv(s)'
  <2>1. fetch[k][s] \in {"idle", "valid"}
    BY DEF StageInv
  <2>2. SlotKept(s)
    BY <1>2, <1>3, <1>4, <2>1 DEF SlotKept
  <2> QED BY <2>2, SlotKeptInv
<1>7. ASSUME NEW j \in Collectors PROVE StageInv(j)'
  <2>1. CASE j = k
    BY <1>2, <2>1 DEF StageInv
  <2>2. CASE j # k
    BY <1>3, <1>4, <2>2, StageKeptInv
  <2> QED BY <2>1, <2>2
<1> QED BY <1>5, <1>6, <1>7

\* What the DAG plans is a set of cycles.
LEMMA DiscoverCyclesInv == ASSUME GfsInv, DiscoverCycles PROVE GfsInv'
<1>1. PICK oldest \in Cycles :
        LET wanted == {c \in Cycles : c >= oldest /\ Wanted(c)}
            newest == {c \in wanted :
                        Cardinality({d \in wanted : d > c}) < CyclesPerRun}
        IN  IF newest = {} THEN UNCHANGED gfsVars ELSE Begin(Dag, newest)
  BY DEF DiscoverCycles
<1> DEFINE wanted == {c \in Cycles : c >= oldest /\ Wanted(c)}
           newest == {c \in wanted : Cardinality({d \in wanted : d > c}) < CyclesPerRun}
<1>2. newest \in SUBSET Cycles
  OBVIOUS
<1>3. CASE newest = {}
  <2>1. UNCHANGED gfsVars
    BY <1>1, <1>3
  <2>2. GfsTypeOK' /\ LatestInv'
    BY <2>1 DEF GfsInv, GfsTypeOK, LatestInv, gfsVars
  <2>3. \A s \in Slots : SlotInv(s)'
    BY <2>1, SlotKeptInv DEF GfsInv, SlotKept, gfsVars
  <2>4. \A k \in Collectors : StageInv(k)'
    BY <2>1, StageKeptInv DEF GfsInv, gfsVars
  <2> QED BY <2>2, <2>3, <2>4 DEF GfsInv
<1>4. CASE newest # {}
  <2>1. Begin(Dag, newest) /\ gfsStage[Dag] = "idle"
    BY <1>1, <1>4 DEF DiscoverCycles
  <2> HIDE DEF newest
  <2> QED BY <1>2, <1>4, <2>1, BeginInv
<1> QED BY <1>3, <1>4

\* The end of the downloads turns a plan into one to be published.
LEMMA EndDownloadsInv == ASSUME GfsInv, NEW k \in Collectors, EndDownloads(k) PROVE GfsInv'
<1> USE DEF GfsInv
<1>1. /\ gfsStage[k] = "download" /\ LeavesFiles
      /\ UNCHANGED <<cycleManifest, latestCycle, torn, gfsFaults>>
      /\ \A s \in PlannedSlots(k) : fetch[k][s] \in {"valid", "failed"}
  BY DEF EndDownloads
<1>2. \A s \in Slots : s \notin PlannedSlots(k) => fetch[k][s] = "idle"
  BY DEF StageInv, PlannedSlots, Slots
<1>3. CASE \E s \in PlannedSlots(k) : fetch[k][s] = "failed"
  <2>1. Rest(k)
    BY <1>3 DEF EndDownloads
  <2>2. \A s \in Slots : fetch[k][s] \in {"idle", "valid", "failed"}
    BY <1>1, <1>2
  <2>3. torn' \in BOOLEAN /\ gfsFaults' \in 0..MaxGfsFaults
    BY <1>1 DEF GfsTypeOK
  <2> QED BY <1>1, <2>1, <2>2, <2>3, RestInv
<1>4. CASE ~\E s \in PlannedSlots(k) : fetch[k][s] = "failed"
  <2>1. /\ gfsStage' = [gfsStage EXCEPT ![k] = "manifest"]
        /\ UNCHANGED <<gfsPlan, seenCycle, fetch>>
    BY <1>4 DEF EndDownloads
  <2>2. GfsTypeOK' /\ LatestInv'
    BY <1>1, <2>1 DEF GfsTypeOK, LatestInv, LeavesFiles, GfsStage
  <2>3. ASSUME NEW s \in Slots PROVE SlotInv(s)'
    BY <1>1, <2>1, SlotKeptInv DEF SlotKept, LeavesFiles
  <2>4. ASSUME NEW j \in Collectors, j # k PROVE StageInv(j)'
    BY <1>1, <2>1, <2>4, StageKeptInv DEF GfsTypeOK
  <2>5. StageInv(k)'
    <3>1. gfsStage'[k] = "manifest" /\ gfsPlan'[k] # {}
      BY <1>1, <2>1 DEF GfsTypeOK, StageInv
    <3>2. \A c \in gfsPlan[k] : \A h \in Hours : <<c, h>> \in PlannedSlots(k)
      BY DEF PlannedSlots
    <3>3. \A s \in PlannedSlots(k) : fetch[k][s] = "valid"
      BY <1>1, <1>4
    <3>4. \A s \in Slots : fetch[k][s] \in {"idle", "valid"}
      BY <1>2, <3>3
    <3>5. \A s \in Slots : s[1] \notin gfsPlan[k] => fetch[k][s] = "idle"
      BY DEF StageInv
    <3> QED BY <2>1, <3>1, <3>2, <3>3, <3>4, <3>5 DEF StageInv
  <2> QED BY <2>2, <2>3, <2>4, <2>5
<1> QED BY <1>3, <1>4

\* A manifest lists the files of a cycle that were found valid, if they still
\* are whole.
LEMMA WriteManifestInv == ASSUME GfsInv, NEW k \in Collectors, WriteManifest(k) PROVE GfsInv'
<1> USE DEF GfsInv
<1> DEFINE c == Min(Unlisted(k))
<1>1. /\ gfsStage[k] = "manifest" /\ LeavesFiles
      /\ UNCHANGED <<latestCycle, torn, gfsFaults>>
  BY DEF WriteManifest
<1>2. c \in Unlisted(k)
  <2>1. Unlisted(k) \in SUBSET Cycles /\ Unlisted(k) # {}
    BY DEF WriteManifest, Unlisted, GfsTypeOK
  <2>2. Unlisted(k) \in SUBSET Nat /\ IsFiniteSet(Unlisted(k))
    BY <2>1, FS_Subset
  <2> QED BY <2>1, <2>2, FiniteHasLeast
<1>3. c \in gfsPlan[k] /\ c \in Cycles
  BY <1>2 DEF Unlisted, GfsTypeOK
<1>4. \A h \in Hours : fetch[k][<<c, h>>] = "valid"
  <2> HIDE DEF c
  <2> QED BY <1>1, <1>2, <1>3 DEF Unlisted, StageInv
<1> HIDE DEF c
<1>5. CASE \A h \in Hours : IsWhole(gridFile[<<c, h>>], <<c, h>>)
  <2>1. /\ cycleManifest' = cycleManifest \cup {c}
        /\ fetch' = [fetch EXCEPT ![k] = [s \in Slots |-> IF s[1] = c THEN "idle"
                                                        ELSE fetch[k][s]]]
        /\ UNCHANGED <<gfsStage, gfsPlan, seenCycle>>
    BY <1>5 DEF WriteManifest, c
  <2>2. /\ fetch' \in [Collectors -> [Slots -> FetchState]]
        /\ \A s \in Slots : fetch'[k][s] = IF s[1] = c THEN "idle" ELSE fetch[k][s]
        /\ \A j \in Collectors : j # k => fetch'[j] = fetch[j]
    <3> DEFINE g == [s \in Slots |-> IF s[1] = c THEN "idle" ELSE fetch[k][s]]
    <3>1. g \in [Slots -> FetchState] /\ \A s \in Slots : g[s] = IF s[1] = c THEN "idle"
                                                               ELSE fetch[k][s]
      BY DEF GfsTypeOK, FetchState
    <3>2. fetch' = [fetch EXCEPT ![k] = g]
      BY <2>1
    <3> HIDE DEF g
    <3> QED BY <3>1, <3>2 DEF GfsTypeOK
  <2>3. GfsTypeOK' /\ LatestInv'
    BY <1>1, <1>3, <2>1, <2>2 DEF GfsTypeOK, LatestInv, LeavesFiles
  <2>4. ASSUME NEW s \in Slots, s[1] # c PROVE SlotInv(s)'
    <3>1. SlotKept(s)
      BY <1>1, <2>1, <2>2, <2>4 DEF SlotKept, LeavesFiles
    <3> QED BY <3>1, SlotKeptInv
  <2>5. ASSUME NEW s \in Slots, s[1] = c PROVE SlotInv(s)'
    <3>1. PICK h \in Hours : s = <<c, h>>
      BY <2>5 DEF Slots
    <3>2. fetch[k][s] = "valid" /\ IsWhole(gridFile[s], s)
      BY <1>4, <1>5, <3>1
    <3>3. s \notin unfit
      BY <3>2 DEF SlotInv, SettledIsWhole, Settled
    <3>4. /\ fetch'[k][s] = "idle"
          /\ \A j \in Collectors : j # k => fetch'[j][s] = fetch[j][s]
      BY <2>2, <2>5
    <3>5. UNCHANGED <<gridFile, gridPart, unfit>>
      BY <1>1 DEF LeavesFiles
    <3>6. OwnersWrite(s)' /\ LateMoveIsEmpty(s)'
      BY <3>2, <3>4, <3>5 DEF SlotInv, OwnersWrite, LateMoveIsEmpty, Writing
    <3>7. SettledIsWhole(s)'
      BY <3>2, <3>3, <3>4, <3>5 DEF SettledIsWhole, IsWhole
    <3> QED BY <3>6, <3>7 DEF SlotInv
  <2>6. ASSUME NEW j \in Collectors, j # k PROVE StageInv(j)'
    BY <2>1, <2>2, <2>6, StageKeptInv
  <2>7. StageInv(k)'
    <3>1. \A b \in gfsPlan[k] : \A h \in Hours : <<b, h>> \in Slots /\ <<b, h>>[1] = b
      BY DEF GfsTypeOK, Slots
    <3>2. \A b \in gfsPlan[k] \ {c} : \A h \in Hours : fetch'[k][<<b, h>>] = fetch[k][<<b, h>>]
      BY <2>2, <3>1
    <3>3. \A h \in Hours : fetch'[k][<<c, h>>] = "idle"
      BY <1>3, <2>2, <3>1
    <3>4. \A b \in gfsPlan[k] :
            \/ \A h \in Hours : fetch'[k][<<b, h>>] = "valid"
            \/ b \in cycleManifest' /\ \A h \in Hours : fetch'[k][<<b, h>>] = "idle"
      BY <1>1, <2>1, <3>2, <3>3 DEF StageInv
    <3>5. \A s \in Slots : fetch'[k][s] \in {"idle", "valid"}
                /\ (s[1] \notin gfsPlan[k] => fetch'[k][s] = "idle")
      BY <1>1, <2>2 DEF StageInv
    <3>6. gfsStage'[k] = "manifest" /\ gfsPlan'[k] = gfsPlan[k] /\ gfsPlan[k] # {}
      BY <1>1, <1>3, <2>1
    <3> QED BY <3>4, <3>5, <3>6 DEF StageInv
  <2> QED BY <2>3, <2>4, <2>5, <2>6, <2>7
<1>6. CASE ~\A h \in Hours : IsWhole(gridFile[<<c, h>>], <<c, h>>)
  <2>1. Rest(k) /\ UNCHANGED cycleManifest
    BY <1>6 DEF WriteManifest, c
  <2>2. \A s \in Slots : fetch[k][s] \in {"idle", "valid", "failed"}
    BY <1>1 DEF StageInv
  <2>3. torn' \in BOOLEAN /\ gfsFaults' \in 0..MaxGfsFaults
    BY <1>1 DEF GfsTypeOK
  <2> QED BY <1>1, <2>1, <2>2, <2>3, RestInv
<1> QED BY <1>5, <1>6

\* When every manifest is written, all of the plan is listed.
LEMMA ReadLatestInv == ASSUME GfsInv, NEW k \in Collectors, ReadLatest(k) PROVE GfsInv'
<1> USE DEF GfsInv
<1>1. /\ gfsStage[k] = "manifest" /\ Unlisted(k) = {}
      /\ seenCycle' = [seenCycle EXCEPT ![k] = latestCycle]
      /\ gfsStage' = [gfsStage EXCEPT ![k] = "point"]
      /\ torn' = (torn \/ \E j \in Collectors : gfsStage[j] = "point")
      /\ UNCHANGED <<fetch, gfsPlan, cycleManifest, latestCycle, gfsFaults>>
      /\ LeavesFiles
  BY DEF ReadLatest
<1>2. GfsTypeOK' /\ LatestInv'
  BY <1>1 DEF GfsTypeOK, LatestInv, LeavesFiles, GfsStage
<1>3. ASSUME NEW s \in Slots PROVE SlotInv(s)'
  BY <1>1, SlotKeptInv DEF SlotKept, LeavesFiles
<1>4. ASSUME NEW j \in Collectors, j # k PROVE StageInv(j)'
  BY <1>1, <1>4, StageKeptInv DEF GfsTypeOK
<1>5. StageInv(k)'
  <2>1. gfsStage'[k] = "point" /\ gfsPlan[k] # {}
    BY <1>1 DEF GfsTypeOK, StageInv
  <2>2. gfsPlan[k] \subseteq cycleManifest
    <3> SUFFICES ASSUME NEW c \in gfsPlan[k] PROVE c \in cycleManifest
      OBVIOUS
    <3>1. ~\E h \in Hours : fetch[k][<<c, h>>] = "valid"
      BY <1>1 DEF Unlisted
    <3>2. ~\A h \in Hours : fetch[k][<<c, h>>] = "valid"
      BY <3>1
    <3> QED BY <1>1, <3>2 DEF StageInv
  <2>3. \A s \in Slots : fetch[k][s] \in {"idle", "valid"}
                /\ (s[1] \notin gfsPlan[k] => fetch[k][s] = "idle")
    BY <1>1 DEF StageInv
  <2> QED BY <1>1, <2>1, <2>2, <2>3 DEF StageInv
<1> QED BY <1>2, <1>3, <1>4, <1>5

\* latest.json comes to name a cycle of the plan, or stays.
LEMMA WriteLatestInv == ASSUME GfsInv, NEW k \in Collectors, WriteLatest(k) PROVE GfsInv'
<1> USE DEF GfsInv
<1>1. /\ gfsStage[k] = "point" /\ Rest(k) /\ LeavesFiles
      /\ cycleManifest' = cycleManifest
      /\ latestCycle' = latestCycle \/ latestCycle' = Max(gfsPlan[k])
  BY DEF WriteLatest
<1>2. Max(gfsPlan[k]) \in cycleManifest
  <2>1. gfsPlan[k] \in SUBSET Cycles /\ gfsPlan[k] # {} /\ gfsPlan[k] \subseteq cycleManifest
    BY <1>1 DEF GfsTypeOK, StageInv
  <2>2. gfsPlan[k] \in SUBSET Nat /\ IsFiniteSet(gfsPlan[k])
    BY <2>1, FS_Subset
  <2> QED BY <2>1, <2>2, FiniteHasGreatest
<1>3. \A s \in Slots : fetch[k][s] \in {"idle", "valid", "failed"}
  BY <1>1 DEF StageInv
<1>4. torn' \in BOOLEAN /\ gfsFaults' \in 0..MaxGfsFaults
  BY DEF WriteLatest, GfsTypeOK
<1> QED BY <1>1, <1>2, <1>3, <1>4, RestInv

\* A killed publisher starts over.
LEMMA KillPublisherInv == ASSUME GfsInv, NEW k \in Collectors, KillPublisher(k) PROVE GfsInv'
<1> USE DEF GfsInv
<1>1. /\ gfsStage[k] \in {"manifest", "point"} /\ Rest(k) /\ LeavesFiles
      /\ UNCHANGED <<cycleManifest, latestCycle>>
  BY DEF KillPublisher
<1>2. \A s \in Slots : fetch[k][s] \in {"idle", "valid", "failed"}
  BY <1>1 DEF StageInv
<1>3. torn' \in BOOLEAN /\ gfsFaults' \in 0..MaxGfsFaults
  BY DEF KillPublisher, GfsTypeOK
<1> QED BY <1>1, <1>2, <1>3, RestInv

-----------------------------------------------------------------------------
(* The invariant.                                                          *)

\* It holds before anything is collected.
LEMMA GfsInitInv == GfsInit => GfsInv
<1> SUFFICES ASSUME GfsInit PROVE GfsInv
  OBVIOUS
<1> USE DEF GfsInit
<1>1. GfsTypeOK
  <2>1. torn \in BOOLEAN /\ offered \subseteq Slots /\ unfit \subseteq MayBeUnfit
    OBVIOUS
  <2>2. gridFile \in [Slots -> Inode] /\ gridPart \in [Slots -> Inode]
    BY DEF Inode
  <2>3. /\ fetch \in [Collectors -> [Slots -> FetchState]]
        /\ gfsStage \in [Collectors -> GfsStage]
    BY DEF FetchState, GfsStage
  <2> QED BY <2>1, <2>2, <2>3 DEF GfsTypeOK
<1>2. \A s \in Slots : SlotInv(s)
  BY DEF SlotInv, OwnersWrite, LateMoveIsEmpty, SettledIsWhole, Settled
<1>3. \A k \in Collectors : StageInv(k)
  BY DEF StageInv
<1> QED BY <1>1, <1>2, <1>3 DEF GfsInv, LatestInv

\* Every step keeps it, if there are no more than two collectors.
LEMMA GfsStepInv == ASSUME TwoCollectors, GfsInv, [GfsNext]_gfsVars PROVE GfsInv'
<1> USE DEF GfsInv
<1>1. ASSUME NEW s \in Slots, Offer(s) PROVE GfsInv'
  <2>1. GfsTypeOK' /\ LatestInv'
    BY <1>1 DEF Offer, GfsTypeOK, LatestInv
  <2>2. \A t \in Slots : SlotInv(t)'
    BY <1>1, SlotKeptInv DEF Offer, SlotKept
  <2>3. \A k \in Collectors : StageInv(k)'
    BY <1>1, StageKeptInv DEF Offer
  <2> QED BY <2>1, <2>2, <2>3
<1>2. CASE DiscoverCycles
  BY <1>2, DiscoverCyclesInv
<1>3. ASSUME NEW k \in Collectors, NEW c \in Cycles, Backfill(k, c) PROVE GfsInv'
  <2>1. Begin(k, {c}) /\ gfsStage[k] = "idle" /\ {c} \in SUBSET Cycles /\ {c} # {}
    BY <1>3 DEF Backfill
  <2> QED BY <2>1, BeginInv
<1>4. ASSUME NEW k \in Collectors, NEW s \in Slots, FetchStep(k, s) PROVE GfsInv'
  <2>1. /\ gfsStage[k] = "download" /\ fetch[k][s] # "idle"
        /\ \A t \in Slots : t # s =>
                gridFile'[t] = gridFile[t] /\ gridPart'[t] = gridPart[t]
        /\ LeavesRest
        /\ gfsFaults' \in 0..MaxGfsFaults
    BY <1>4, FetchFrame
  <2>2. PICK to \in FetchState : Advance(k, s, to)
    BY <1>4, FetchFrame
  <2>3. \A j \in Collectors : \A t \in Slots :
            j # k \/ t # s => fetch'[j][t] = fetch[j][t]
    BY <2>2, AdvanceEffect
  <2>4. FileTypes' /\ SlotInv(s)'
    BY <1>4, FetchSlotInv
  <2>5. GfsTypeOK' /\ LatestInv'
    BY <2>1, <2>4 DEF GfsTypeOK, FileTypes, LeavesRest, LatestInv
  <2>6. ASSUME NEW t \in Slots, t # s PROVE SlotInv(t)'
    <3>1. SlotKept(t)
      BY <2>1, <2>3, <2>6 DEF SlotKept, LeavesRest
    <3> QED BY <3>1, SlotKeptInv
  <2>7. ASSUME NEW j \in Collectors, j # k PROVE StageInv(j)'
    BY <2>1, <2>3, <2>7, StageKeptInv DEF LeavesRest
  <2>8. StageInv(k)'
    <3>1. s[1] \in gfsPlan[k] /\ gfsPlan[k] # {}
      BY <2>1 DEF StageInv
    <3>2. \A t \in Slots : t[1] \notin gfsPlan[k] => fetch'[k][t] = "idle"
      BY <2>3, <3>1 DEF StageInv
    <3> QED BY <2>1, <3>1, <3>2 DEF StageInv, LeavesRest
  <2> QED BY <2>4, <2>5, <2>6, <2>7, <2>8
<1>5. ASSUME NEW k \in Collectors, PublishStep(k) PROVE GfsInv'
  BY <1>5, EndDownloadsInv, WriteManifestInv, ReadLatestInv, WriteLatestInv, KillPublisherInv
  DEF PublishStep
<1>6. CASE UNCHANGED gfsVars
  <2>1. GfsTypeOK' /\ LatestInv'
    BY <1>6 DEF GfsTypeOK, LatestInv, gfsVars
  <2>2. \A s \in Slots : SlotInv(s)'
    BY <1>6, SlotKeptInv DEF SlotKept, gfsVars
  <2>3. \A k \in Collectors : StageInv(k)'
    BY <1>6, StageKeptInv DEF gfsVars
  <2> QED BY <2>1, <2>2, <2>3
<1> QED BY <1>1, <1>2, <1>3, <1>4, <1>5, <1>6 DEF GfsNext

-----------------------------------------------------------------------------
(* latest.json.                                                            *)

\* Unless a publication was torn, one collector at a time has read latest.json
\* and not yet replaced it, and a cycle newer than latest.json is about to be
\* named by whoever published it.
PointerInv ==
    ~torn =>
        /\ \A j, k \in Collectors : gfsStage[j] = "point" /\ gfsStage[k] = "point" => j = k
        /\ \A k \in Collectors : gfsStage[k] = "point" => seenCycle[k] = latestCycle
        /\ \A c \in cycleManifest :
            \/ c <= latestCycle
            \/ \E k \in Collectors : gfsStage[k] \in {"manifest", "point"} /\ c \in gfsPlan[k]

\* A step that neither publishes nor ends a publication.
PointerKept ==
    /\ UNCHANGED <<torn, latestCycle, cycleManifest, seenCycle>>
    /\ \A k \in Collectors :
        \/ gfsStage'[k] = gfsStage[k] /\ gfsPlan'[k] = gfsPlan[k]
        \/ /\ gfsStage[k] \in {"idle", "download"}
           /\ gfsStage'[k] \in {"idle", "download", "manifest"}

\* Such a step leaves latest.json as right as it was.
LEMMA PointerKeptInv == ASSUME PointerInv, PointerKept PROVE PointerInv'
BY DEF PointerInv, PointerKept

\* The end of a run of downloads is such a step, whatever failed.
LEMMA EndDownloadsKept ==
    ASSUME GfsInv, NEW k \in Collectors, EndDownloads(k) PROVE PointerInv => PointerInv'
<1>1. /\ gfsStage[k] = "download" /\ UNCHANGED <<torn, latestCycle, cycleManifest>>
      /\ \/ Rest(k)
         \/ gfsStage' = [gfsStage EXCEPT ![k] = "manifest"] /\ UNCHANGED <<gfsPlan, seenCycle>>
  BY DEF EndDownloads
<1>2. /\ gfsStage'[k] \in {"idle", "manifest"}
      /\ \A j \in Collectors : j # k => /\ gfsStage'[j] = gfsStage[j]
                                       /\ gfsPlan'[j] = gfsPlan[j]
                                       /\ seenCycle'[j] = seenCycle[j]
  BY <1>1 DEF Rest, GfsInv, GfsTypeOK
<1> QED BY <1>1, <1>2 DEF PointerInv

\* A manifest is written while its cycle is in the plan; its files are whole, so
\* the publication goes on.
LEMMA WriteManifestKept ==
    ASSUME GfsInv, NEW k \in Collectors, WriteManifest(k) PROVE PointerInv => PointerInv'
<1> DEFINE c == Min(Unlisted(k))
<1>1. gfsStage[k] = "manifest" /\ UNCHANGED <<latestCycle, torn>>
  BY DEF WriteManifest
<1>2. c \in Unlisted(k)
  <2>1. Unlisted(k) \in SUBSET Cycles /\ Unlisted(k) # {}
    BY DEF WriteManifest, Unlisted, GfsInv, GfsTypeOK
  <2>2. Unlisted(k) \in SUBSET Nat /\ IsFiniteSet(Unlisted(k))
    BY <2>1, FS_Subset
  <2> QED BY <2>1, <2>2, FiniteHasLeast
<1> HIDE DEF c
<1>3. c \in gfsPlan[k] /\ c \in Cycles
  BY <1>2 DEF Unlisted, GfsInv, GfsTypeOK
<1>4. \A h \in Hours : fetch[k][<<c, h>>] = "valid" /\ <<c, h>> \in Slots
  BY <1>1, <1>2, <1>3 DEF Unlisted, GfsInv, StageInv, Slots
<1>5. \A h \in Hours : IsWhole(gridFile[<<c, h>>], <<c, h>>)
  BY <1>4 DEF GfsInv, SlotInv, SettledIsWhole, Settled
<1>6. cycleManifest' = cycleManifest \cup {c} /\ UNCHANGED <<gfsStage, gfsPlan, seenCycle>>
  BY <1>5 DEF WriteManifest, c
<1> QED BY <1>1, <1>3, <1>6 DEF PointerInv

\* What is read is what stands, unless another has read it too.
LEMMA ReadLatestKept ==
    ASSUME GfsInv, NEW k \in Collectors, ReadLatest(k) PROVE PointerInv => PointerInv'
<1>1. /\ gfsStage[k] = "manifest"
      /\ torn' = (torn \/ \E j \in Collectors : gfsStage[j] = "point")
      /\ UNCHANGED <<gfsPlan, cycleManifest, latestCycle>>
  BY DEF ReadLatest
<1>2. /\ gfsStage'[k] = "point" /\ seenCycle'[k] = latestCycle
      /\ \A j \in Collectors : j # k =>
            gfsStage'[j] = gfsStage[j] /\ seenCycle'[j] = seenCycle[j]
  BY DEF ReadLatest, GfsInv, GfsTypeOK
<1> QED BY <1>1, <1>2 DEF PointerInv

\* The newest of the plan and of what was read is the newest there is.
LEMMA WriteLatestKept ==
    ASSUME GfsInv, NEW k \in Collectors, WriteLatest(k) PROVE PointerInv => PointerInv'
<1> DEFINE top == Max(gfsPlan[k])
<1>1. /\ gfsStage[k] = "point" /\ Rest(k) /\ UNCHANGED <<cycleManifest, torn>>
      /\ latestCycle' = IF top >= seenCycle[k] THEN top ELSE latestCycle
  BY DEF WriteLatest
<1>2. /\ gfsStage'[k] = "idle"
      /\ \A j \in Collectors : j # k => /\ gfsStage'[j] = gfsStage[j]
                                       /\ gfsPlan'[j] = gfsPlan[j]
                                       /\ seenCycle'[j] = seenCycle[j]
  BY <1>1 DEF Rest, GfsInv, GfsTypeOK
<1>3. gfsPlan[k] \in SUBSET Nat /\ IsFiniteSet(gfsPlan[k]) /\ gfsPlan[k] # {}
  <2>1. gfsPlan[k] \in SUBSET Cycles /\ gfsPlan[k] # {}
    BY <1>1 DEF GfsInv, StageInv, GfsTypeOK
  <2> QED BY <2>1, FS_Subset
<1>4. top \in Nat /\ \A c \in gfsPlan[k] : c <= top
  BY <1>3, FiniteHasGreatest
<1>5. latestCycle \in Nat /\ \A c \in cycleManifest : c \in Nat
  <2>1. Cycles \cup {0} \subseteq Nat
    OBVIOUS
  <2> QED BY <2>1 DEF GfsInv, GfsTypeOK
<1> HIDE DEF top
<1> SUFFICES ASSUME PointerInv, ~torn PROVE PointerInv'
  BY <1>1 DEF PointerInv
<1>6. seenCycle[k] = latestCycle
  BY <1>1 DEF PointerInv
<1>7. top <= latestCycle' /\ latestCycle <= latestCycle' /\ latestCycle' \in Nat
  BY <1>1, <1>4, <1>5, <1>6
<1>8. \A j \in Collectors : gfsStage'[j] # "point"
  BY <1>1, <1>2 DEF PointerInv
<1>9. ASSUME NEW c \in cycleManifest
      PROVE  \/ c <= latestCycle'
             \/ \E j \in Collectors : gfsStage'[j] \in {"manifest", "point"} /\ c \in gfsPlan'[j]
  <2>1. CASE c <= latestCycle
    BY <1>5, <1>7, <2>1
  <2>2. CASE c \in gfsPlan[k]
    BY <1>3, <1>4, <1>5, <1>7, <2>2
  <2>3. CASE \E j \in Collectors \ {k} : gfsStage[j] \in {"manifest", "point"} /\ c \in gfsPlan[j]
    BY <1>2, <2>3
  <2> QED BY <2>1, <2>2, <2>3 DEF PointerInv
<1> QED BY <1>1, <1>8, <1>9 DEF PointerInv

\* Every step keeps it.
LEMMA PointerStepInv ==
    ASSUME GfsInv, PointerInv, [GfsNext]_gfsVars PROVE PointerInv'
<1>1. \A k \in Collectors, P \in SUBSET Cycles :
        gfsStage[k] = "idle" /\ Begin(k, P) => PointerInv'
  <2> SUFFICES ASSUME NEW k \in Collectors, NEW P \in SUBSET Cycles,
                      gfsStage[k] = "idle", Begin(k, P)
               PROVE  PointerInv'
    OBVIOUS
  <2>1. PointerKept
    BY DEF Begin, PointerKept, GfsInv, GfsTypeOK
  <2> QED BY <2>1, PointerKeptInv
<1>2. UNCHANGED gfsVars => PointerInv'
  BY DEF gfsVars, PointerInv
<1>3. CASE DiscoverCycles
  <2>1. UNCHANGED gfsVars \/ \E P \in SUBSET Cycles : Begin(Dag, P)
    <3>1. PICK oldest \in Cycles :
        LET wanted == {c \in Cycles : c >= oldest /\ Wanted(c)}
            newest == {c \in wanted :
                        Cardinality({d \in wanted : d > c}) < CyclesPerRun}
        IN  IF newest = {} THEN UNCHANGED gfsVars ELSE Begin(Dag, newest)
      BY <1>3 DEF DiscoverCycles
    <3> DEFINE wanted == {c \in Cycles : c >= oldest /\ Wanted(c)}
               newest == {c \in wanted : Cardinality({d \in wanted : d > c}) < CyclesPerRun}
    <3>2. newest \in SUBSET Cycles
      OBVIOUS
    <3>3. UNCHANGED gfsVars \/ Begin(Dag, newest)
      BY <3>1
    <3> HIDE DEF newest
    <3> QED BY <3>2, <3>3
  <2>2. gfsStage[Dag] = "idle"
    BY <1>3 DEF DiscoverCycles
  <2> QED BY <1>1, <1>2, <2>1, <2>2
<1>4. ASSUME NEW k \in Collectors, NEW c \in Cycles, Backfill(k, c) PROVE PointerInv'
  <2>1. Begin(k, {c}) /\ gfsStage[k] = "idle" /\ {c} \in SUBSET Cycles
    BY <1>4 DEF Backfill
  <2> QED BY <1>1, <2>1
<1>5. ASSUME NEW k \in Collectors, NEW s \in Slots, FetchStep(k, s) PROVE PointerInv'
  <2>1. LeavesRest
    BY <1>5, FetchFrame DEF GfsInv
  <2> QED BY <2>1, PointerKeptInv DEF LeavesRest, PointerKept
<1>6. ASSUME NEW k \in Collectors, PublishStep(k) PROVE PointerInv'
  <2>1. KillPublisher(k) => PointerInv'
    BY DEF KillPublisher, PointerInv
  <2> QED BY <1>6, <2>1, EndDownloadsKept, WriteManifestKept, ReadLatestKept, WriteLatestKept
      DEF PublishStep
<1>7. ASSUME NEW s \in Slots, Offer(s) PROVE PointerInv'
  BY <1>7, PointerKeptInv DEF Offer, PointerKept
<1> QED BY <1>2, <1>3, <1>4, <1>5, <1>6, <1>7 DEF GfsNext

-----------------------------------------------------------------------------
(* Theorems.                                                               *)

\* The invariant of the GFS archive holds in every reachable state.
THEOREM GfsInvariant == ASSUME TwoCollectors PROVE GfsSpec => []GfsInv
BY GfsInitInv, GfsStepInv, PTL DEF GfsSpec

\* And so does what is known of latest.json.
LEMMA PointerInvariant == ASSUME TwoCollectors PROVE GfsSpec => []PointerInv
<1>1. GfsInit => PointerInv
  BY DEF GfsInit, PointerInv
<1> QED BY <1>1, PointerStepInv, GfsInvariant, PTL DEF GfsSpec

\* The files, attempts and manifests of the GFS archive keep their types.
THEOREM GfsTypeCorrect == ASSUME TwoCollectors PROVE GfsSpec => []GfsTypeOK
<1>1. GfsInv => GfsTypeOK
  BY DEF GfsInv
<1> QED BY <1>1, GfsInvariant, PTL

\* However the DAG and one backfill interleave on the .part and the final path
\* of a file, and whatever breaks or is killed: a cycle with a manifest has
\* every file whole and valid, and latest.json names a cycle with a manifest.
THEOREM PublishedIsWhole == ASSUME TwoCollectors PROVE GfsSpec => []PublishedCyclesAreWhole
<1>1. GfsInv => PublishedCyclesAreWhole
  BY DEF GfsInv, LatestInv, SlotInv, SettledIsWhole, Settled, PublishedCyclesAreWhole
<1> QED BY <1>1, GfsInvariant, PTL

\* latest.json names the newest completed cycle whenever nobody publishes, unless
\* a publication was cut short or overlapped between its read and its write.
THEOREM LatestStaysNewest == ASSUME TwoCollectors PROVE GfsSpec => []LatestIsNewest
<1>1. ASSUME GfsInv, PointerInv PROVE LatestIsNewest
  BY <1>1 DEF GfsInv, LatestInv, PointerInv, LatestIsNewest
<1> QED BY <1>1, GfsInvariant, PointerInvariant, PTL
=============================================================================
