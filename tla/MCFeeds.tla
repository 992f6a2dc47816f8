------------------------------ MODULE MCFeeds ------------------------------
(***************************************************************************)
(* The feeds beside the raster ingestion, on small instances.  They share  *)
(* no state in the code, so a behaviour takes the steps of one of them,    *)
(* chosen at the start.                                                    *)
(***************************************************************************)
EXTENDS GfsCollection, HotspotFeed, FireDanger, FireEvents, Bulletins, Imagery,
        EvidenceArchive

VARIABLE feed

feedsVars == <<feed, gfsVars, hotspotVars, dangerVars, eventVars, bulletinVars,
               imageryVars, evidenceVars>>

\* Revision 2 is longer than the others.
Sizes == [v \in 1..3 |-> IF v = 2 THEN 2 ELSE 1]
\* All detections of one fuel, or one of another.
OneOddFuel == {[i \in 1..4 |-> "C"], [i \in 1..4 |-> IF i = 2 THEN "D" ELSE "C"]}
OneRegion == [s \in {1, 2} |-> "hfx"]
\* Site 2 has the newest document of the region and then none; or it has the
\* oldest, which becomes a month old, beside one of site 1 that cannot be read.
TwoSupplies == {[documents |-> {<<1, 1>>, <<2, 2>>, <<2, 3>>}, months |-> 0],
                [documents |-> {<<2, 1>>, <<1, 2>>}, months |-> 1]}
SecondOfOne == {<<1, 2>>}
LastOfTwo == {<<2, 3>>}
LastHour == {<<1, 0>>}

FeedsTypeOK ==
    /\ GfsTypeOK /\ HotspotTypeOK /\ DangerTypeOK
    /\ EventTypeOK /\ BulletinsTypeOK /\ ImageryTypeOK /\ EvidenceTypeOK

\* A feed that does not run starts with one state, where its Init leaves a choice.
FeedsInit ==
    /\ feed \in {"gfs", "hotspots", "danger", "events", "bulletins", "imagery",
                "evidence"}
    /\ GfsInit /\ (feed # "gfs" => unfit = {})
    /\ HotspotInit /\ DangerInit /\ ImageryInit
    /\ BulletinsInit /\ (feed # "bulletins" => supply = CHOOSE S \in Supplies : TRUE)
    /\ EvidenceInit /\ (feed # "evidence" => /\ script = CHOOSE s \in Scripts : TRUE
                                             /\ \A o \in Objects : legacy[o] = Missing)
    /\ EventInit /\ (feed # "events" => /\ \A i \in Detections : place[i] = 0 /\ time[i] = 0
                                        /\ fuel = CHOOSE f \in FuelChoices : TRUE)

Gfs(A) == /\ feed = "gfs" /\ A
          /\ UNCHANGED <<feed, hotspotVars, dangerVars, eventVars,
                        bulletinVars, imageryVars, evidenceVars>>
Hot(A) == /\ feed = "hotspots" /\ A
          /\ UNCHANGED <<feed, gfsVars, dangerVars, eventVars,
                        bulletinVars, imageryVars, evidenceVars>>
Cff(A) == /\ feed = "danger" /\ A
          /\ UNCHANGED <<feed, gfsVars, hotspotVars, eventVars,
                        bulletinVars, imageryVars, evidenceVars>>
Evt(A) == /\ feed = "events" /\ A
          /\ UNCHANGED <<feed, gfsVars, hotspotVars, dangerVars,
                        bulletinVars, imageryVars, evidenceVars>>
Bul(A) == /\ feed = "bulletins" /\ A
          /\ UNCHANGED <<feed, gfsVars, hotspotVars, dangerVars,
                        eventVars, imageryVars, evidenceVars>>
Img(A) == /\ feed = "imagery" /\ A
          /\ UNCHANGED <<feed, gfsVars, hotspotVars, dangerVars,
                        eventVars, bulletinVars, evidenceVars>>
Evi(A) == /\ feed = "evidence" /\ A
          /\ UNCHANGED <<feed, gfsVars, hotspotVars, dangerVars,
                        eventVars, bulletinVars, imageryVars>>

GfsOffer == \E s \in Slots : Gfs(Offer(s))
GfsDiscoverCycles == Gfs(DiscoverCycles)
GfsBackfill == \E k \in Collectors, c \in Cycles : Gfs(Backfill(k, c))
GfsStartFetch == \E k \in Collectors, s \in Slots : Gfs(StartFetch(k, s))
GfsOpenPart == \E k \in Collectors, s \in Slots : Gfs(OpenPart(k, s))
GfsReceiveAll == \E k \in Collectors, s \in Slots : Gfs(ReceiveAll(k, s))
GfsCheckPlace == \E k \in Collectors, s \in Slots : Gfs(CheckPlace(k, s))
GfsMovePart == \E k \in Collectors, s \in Slots : Gfs(MovePart(k, s))
GfsValidateGrid == \E k \in Collectors, s \in Slots : Gfs(ValidateGrid(k, s))
GfsBreakTransfer == \E k \in Collectors, s \in Slots : Gfs(BreakTransfer(k, s))
GfsKillAttempt == \E k \in Collectors, s \in Slots : Gfs(KillAttempt(k, s))
GfsEndDownloads == \E k \in Collectors : Gfs(EndDownloads(k))
GfsWriteManifest == \E k \in Collectors : Gfs(WriteManifest(k))
GfsReadLatest == \E k \in Collectors : Gfs(ReadLatest(k))
GfsWriteLatest == \E k \in Collectors : Gfs(WriteLatest(k))
GfsKillPublisher == \E k \in Collectors : Gfs(KillPublisher(k))

HotRevise == \E d \in Days, v \in Versions : Hot(Revise(d, v))
HotDiscoverDays == Hot(DiscoverDays)
HotFetchDay == \E d \in Days : Hot(FetchDay(d))
HotNormalizeDay == \E d \in Days : Hot(NormalizeDay(d))
HotWriteDayManifest == \E d \in Days : Hot(WriteDayManifest(d))
HotBreakIngest == \E d \in Days : Hot(BreakIngest(d))
HotEndIngest == Hot(EndIngest)
HotCopyLatest == Hot(CopyLatest)
HotPointLatest == Hot(PointLatest)
HotKillPublish == Hot(KillPublish)

CffServe == \E d \in DangerDates, a \in Analyses : Cff(Serve(d, a))
CffCollectRecent == Cff(CollectRecent)
CffBackfillGrids == \E k \in GridCollectors : Cff(BackfillGrids(k))
CffStartDate == \E k \in GridCollectors : Cff(StartDate(k))
CffClearPart == \E k \in GridCollectors : Cff(ClearPart(k))
CffOpenGridPart == \E k \in GridCollectors : Cff(OpenGridPart(k))
CffReceiveGrid == \E k \in GridCollectors : Cff(ReceiveGrid(k))
CffValidatePart == \E k \in GridCollectors : Cff(ValidatePart(k))
CffReplaceGrid == \E k \in GridCollectors : Cff(ReplaceGrid(k))
CffCleanPart == \E k \in GridCollectors : Cff(CleanPart(k))
CffWriteTriplet == \E k \in GridCollectors : Cff(WriteTriplet(k))
CffBreakGrid == \E k \in GridCollectors : Cff(BreakGrid(k))
CffKillCollector == \E k \in GridCollectors : Cff(KillCollector(k))

EvtCluster == \E i \in Detections : Evt(Cluster(i))

BulIssueBulletin == \E s \in Sites, i \in Issues : Bul(IssueBulletin(s, i))
BulLeaveListing == \E s \in Sites : Bul(LeaveListing(s))
BulMonthPasses == Bul(MonthPasses)
BulDiscoverSites == Bul(DiscoverSites)
BulDownloadSite == \E s \in Sites : Bul(DownloadSite(s))
BulMakeSnapshot == Bul(MakeSnapshot)
BulArchiveSnapshots == Bul(ArchiveSnapshots)
BulWriteSnapshot == Bul(WriteSnapshot)
BulWriteSites == Bul(WriteSites)
BulReadSnapshot == Bul(ReadSnapshot)
BulListArchives == Bul(ListArchives)
BulImportArchives == Bul(ImportArchives)
BulPublishRegion == \E a \in Regions : Bul(PublishRegion(a))
BulFinishPrepare == Bul(FinishPrepare)
BulListExpired == Bul(ListExpired)
BulDeleteRows == Bul(DeleteRows)
BulUnlinkExpired == Bul(UnlinkExpired)
BulKillCity == Bul(KillCity)
BulKillPrepare == Bul(KillPrepare)
BulKillRetention == Bul(KillRetention)

ImgObserve == \E p \in Products, t \in ValidTimes : Img(Observe(p, t))
ImgStartCollect == Img(StartCollect)
ImgAskTimes == Img(AskTimes)
ImgPickFrame == Img(PickFrame)
ImgKeepLegend == Img(KeepLegend)
ImgMakeCog == Img(MakeCog)
ImgKeepRaw == Img(KeepRaw)
ImgRegisterFrame == Img(RegisterFrame)
ImgFinishCollect == Img(FinishCollect)
ImgFailProduct == Img(FailProduct)
ImgKillCollect == Img(KillCollect)

EviReviseObject == \E o \in Objects : Evi(ReviseObject(o))
EviListCatalogue == Evi(ListCatalogue)
EviStartRun == Evi(StartRun)
EviAskSize == \E o \in Objects : Evi(AskSize(o))
EviSizesKnown == Evi(SizesKnown)
EviMoveLegacy == \E o \in Objects : Evi(MoveLegacy(o))
EviLookAt == \E o \in Objects : Evi(LookAt(o))
EviFilesSelected == Evi(FilesSelected)
EviOpenEvidence == \E o \in Objects : Evi(OpenEvidence(o))
EviReceive == \E o \in Objects : Evi(Receive(o))
EviBreakReceive == \E o \in Objects : Evi(BreakReceive(o))
EviPlaceEvidence == \E o \in Objects : Evi(PlaceEvidence(o))
EviValidate == \E o \in Objects : Evi(Validate(o))
EviEndFailedRun == Evi(EndFailedRun)
EviWriteEvidence == \E o \in Objects : Evi(WriteEvidence(o))
EviEndRun == Evi(EndRun)
EviKillRun == Evi(KillRun)

FeedsNext ==
    \/ GfsOffer \/ GfsDiscoverCycles \/ GfsBackfill \/ GfsStartFetch
    \/ GfsOpenPart \/ GfsReceiveAll \/ GfsCheckPlace \/ GfsMovePart
    \/ GfsValidateGrid \/ GfsBreakTransfer \/ GfsKillAttempt \/ GfsEndDownloads
    \/ GfsWriteManifest \/ GfsReadLatest \/ GfsWriteLatest \/ GfsKillPublisher
    \/ HotRevise \/ HotDiscoverDays \/ HotFetchDay \/ HotNormalizeDay
    \/ HotWriteDayManifest \/ HotBreakIngest \/ HotEndIngest \/ HotCopyLatest
    \/ HotPointLatest \/ HotKillPublish
    \/ CffServe \/ CffCollectRecent \/ CffBackfillGrids \/ CffStartDate
    \/ CffClearPart \/ CffOpenGridPart \/ CffReceiveGrid \/ CffValidatePart
    \/ CffReplaceGrid \/ CffCleanPart \/ CffWriteTriplet \/ CffBreakGrid
    \/ CffKillCollector
    \/ EvtCluster
    \/ BulIssueBulletin \/ BulLeaveListing \/ BulMonthPasses \/ BulDiscoverSites
    \/ BulDownloadSite \/ BulMakeSnapshot \/ BulArchiveSnapshots \/ BulWriteSnapshot \/ BulWriteSites
    \/ BulReadSnapshot \/ BulListArchives \/ BulImportArchives \/ BulPublishRegion
    \/ BulFinishPrepare \/ BulListExpired \/ BulDeleteRows \/ BulUnlinkExpired
    \/ BulKillCity \/ BulKillPrepare \/ BulKillRetention
    \/ ImgObserve \/ ImgStartCollect \/ ImgAskTimes \/ ImgPickFrame
    \/ ImgKeepLegend \/ ImgMakeCog \/ ImgKeepRaw \/ ImgRegisterFrame
    \/ ImgFinishCollect \/ ImgFailProduct \/ ImgKillCollect
    \/ EviReviseObject \/ EviListCatalogue \/ EviStartRun \/ EviAskSize
    \/ EviSizesKnown \/ EviMoveLegacy \/ EviLookAt \/ EviFilesSelected
    \/ EviOpenEvidence \/ EviReceive \/ EviBreakReceive \/ EviPlaceEvidence
    \/ EviValidate \/ EviEndFailedRun \/ EviWriteEvidence \/ EviEndRun
    \/ EviKillRun

\* The fairness of each feed, see its module.
FeedsSpec ==
    /\ FeedsInit /\ [][FeedsNext]_feedsVars
    /\ WF_hotspotVars(feed = "hotspots" /\ HotspotDagStep)
    /\ WF_dangerVars(feed = "danger" /\ CollectRecent)
    /\ \A k \in GridCollectors : WF_dangerVars(feed = "danger" /\ CollectorStep(k))
    /\ WF_bulletinVars(feed = "bulletins" /\ CityStep)
    /\ WF_bulletinVars(feed = "bulletins" /\ PrepareStep)
============================================================================
