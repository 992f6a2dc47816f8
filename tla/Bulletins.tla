------------------------------ MODULE Bulletins ------------------------------
(***************************************************************************)
(* City forecasts and their history: three DAGs share files and rows.      *)
(*                                                                         *)
(*   eccc_city_forecasts_ingest    the newest issue of every site becomes  *)
(*                                 latest.json (ingest_city_forecasts)     *)
(*   weather_forecast_prepare      latest.json and the archive become rows *)
(*                                 and prepared records (prepare_forecasts)*)
(*   weather_insights_retention    files and rows of 30 days go            *)
(*                                 (maintain_insights)                     *)
(*                                                                         *)
(* max_active_runs=1 for each, so each is one process; they run side by    *)
(* side, and an attempt of each may end anywhere.                          *)
(***************************************************************************)
EXTENDS Naturals, FiniteSets, FiniteSetsExt

CONSTANTS
    Sites,
    RegionOf,           \* RegionOf[s]: the forecast region of site s
    MaxIssue,           \* bound: issues, numbered in the order of their times
    Supplies,           \* bound: the documents a behaviour may see issued, and up
                        \* to which issue they become 30 days old
    Unavailable,        \* <<site, issue>>: no active forecast in the document
    Garbled,            \* <<site, issue>>: parse_citypage_xml refuses it
    MaxBulletinFaults   \* bound: attempts that end in a fault

Issues == 1..MaxIssue
MaybeIssue == 0..MaxIssue
Documents == Sites \X Issues
Regions == {RegionOf[s] : s \in Sites}

ASSUME BulletinsAssumption ==
    /\ Sites \subseteq Nat /\ IsFiniteSet(Sites)
    /\ DOMAIN RegionOf = Sites
    /\ MaxIssue \in Nat
    /\ Supplies \subseteq [documents : SUBSET Documents, months : MaybeIssue]
    /\ Unavailable \subseteq Documents
    /\ Garbled \subseteq Documents \ Unavailable
    /\ MaxBulletinFaults \in Nat

VARIABLES
    supply,         \* what ECCC issues in the end
    issued,         \* the newest document issued for a site, 0: none
    listed,         \* the same, while it is in the listings that are read
    month,          \* issues up to this one are more than 30 days old
    \* files
    siteFile,       \* the issue raw/.../latest/{site}.xml holds
    siteManifest,   \* the issue the manifest has for a site
    latest,         \* the issues latest.json was made of
    history,        \* the archived bulletins: 0, or the month of writing + 1
    \* the database
    revisions,      \* catalogue.forecast_revision, source bulletin
    changes,        \* catalogue.forecast_prepared, kind changes: the newest issue
                    \* it compares
    widget,         \* kind widget: the issue it presents
    \* the three processes
    city, requested, download, snapshot,
    prepare, prepared, archives,
    retention, expired,
    bulletinFaults

cityVars == <<city, requested, download, snapshot>>
prepareVars == <<prepare, prepared, archives>>
retentionVars == <<retention, expired>>
cityFiles == <<siteFile, siteManifest, latest>>
tables == <<revisions, changes, widget>>
outside == <<supply, issued, listed, month>>
bulletinVars == <<outside, cityFiles, history, tables, cityVars, prepareVars,
                  retentionVars, bulletinFaults>>

Empty == [s \in Sites |-> 0]
Nowhere == [a \in Regions |-> 0]

BulletinsTypeOK ==
    /\ supply \in Supplies
    /\ issued \in [Sites -> MaybeIssue] /\ listed \in [Sites -> MaybeIssue]
    /\ month \in MaybeIssue
    /\ siteFile \in [Sites -> MaybeIssue]
    /\ siteManifest \in [Sites -> MaybeIssue]
    /\ latest \in [Sites -> MaybeIssue]
    /\ history \in [Documents -> 0..MaxIssue + 1]
    /\ revisions \subseteq Documents
    /\ changes \in [Regions -> MaybeIssue] /\ widget \in [Regions -> MaybeIssue]
    /\ city \in {"idle", "download", "archive", "latest", "manifest"}
    /\ requested \in [Sites -> MaybeIssue]
    /\ download \in [Sites -> {"none", "todo", "kept", "unavailable", "failed"}]
    /\ snapshot \in [Sites -> MaybeIssue]
    /\ prepare \in {"idle", "list", "read", "publish"}
    /\ prepared \in [Regions -> MaybeIssue]
    /\ archives \subseteq Documents
    /\ retention \in {"idle", "rows", "unlink"}
    /\ expired \subseteq Documents
    /\ bulletinFaults \in 0..MaxBulletinFaults

BulletinsInit ==
    /\ supply \in Supplies
    /\ issued = Empty /\ listed = Empty /\ month = 0
    /\ siteFile = Empty /\ siteManifest = Empty /\ latest = Empty
    /\ history = [b \in Documents |-> 0]
    /\ revisions = {}
    /\ changes = Nowhere /\ widget = Nowhere
    /\ city = "idle" /\ requested = Empty /\ snapshot = Empty
    /\ download = [s \in Sites |-> "none"]
    /\ prepare = "idle" /\ prepared = Nowhere /\ archives = {}
    /\ retention = "idle" /\ expired = {}
    /\ bulletinFaults = 0

Region(b) == RegionOf[b[1]]
Issue(b) == b[2]
IsOld(b) == Issue(b) <= month

-----------------------------------------------------------------------------
(* ECCC issues a document, which leaves the listings three hours later, and *)
(* is 30 days old some day.                                                 *)

IssueBulletin(s, i) ==
    /\ <<s, i>> \in supply.documents
    /\ i > issued[s]
    /\ i > month
    /\ issued' = [issued EXCEPT ![s] = i]
    /\ listed' = [listed EXCEPT ![s] = i]
    /\ UNCHANGED <<supply, month, cityFiles, history, tables, cityVars, prepareVars,
                   retentionVars, bulletinFaults>>

LeaveListing(s) ==
    /\ listed[s] # 0
    /\ listed' = [listed EXCEPT ![s] = 0]
    /\ UNCHANGED <<supply, issued, month, cityFiles, history, tables, cityVars, prepareVars,
                   retentionVars, bulletinFaults>>

MonthPasses ==
    /\ month < supply.months
    /\ \A s \in Sites : listed[s] # month + 1
    /\ month' = month + 1
    /\ UNCHANGED <<supply, issued, listed, cityFiles, history, tables, cityVars, prepareVars,
                   retentionVars, bulletinFaults>>

-----------------------------------------------------------------------------
(* normalize_citypage_documents and archive_bulletins.                     *)

Newer(s, r, snap) == snap[s] > snap[r] \/ (snap[s] = snap[r] /\ s >= r)

\* The sites of a region share the bulletin of the newest issue.
Represents(s, snap) ==
    /\ snap[s] # 0
    /\ \A r \in Sites : RegionOf[r] = RegionOf[s] /\ snap[r] # 0 => Newer(s, r, snap)

BulletinsOf(snap) == {<<s, snap[s]>> : s \in {r \in Sites : Represents(r, snap)}}

\* A bulletin that is there is not written again.
Archived(bulletins) ==
    [b \in Documents |-> IF b \in bulletins /\ history[b] = 0 THEN month + 1
                                                             ELSE history[b]]

-----------------------------------------------------------------------------
(* ingest_city_forecasts.                                                  *)

CityEnds ==
    /\ city' = "idle"
    /\ requested' = Empty
    /\ download' = [s \in Sites |-> "none"]
    /\ snapshot' = Empty

\* discover_latest_sources reads the listings of the last three hours; what they
\* hold and the manifest or the files do not has to be downloaded.
DiscoverSites ==
    /\ city = "idle"
    /\ requested' = listed
    /\ download' = [s \in Sites |->
            IF listed[s] # 0 /\ (siteManifest[s] # listed[s] \/ siteFile[s] = 0)
            THEN "todo" ELSE "none"]
    /\ city' = "download"
    /\ UNCHANGED <<outside, cityFiles, history, tables, snapshot, prepareVars,
                   retentionVars, bulletinFaults>>

\* _download_source
DownloadSite(s) ==
    /\ download[s] = "todo"
    /\ LET d == <<s, requested[s]>>
       IN  /\ download' = [download EXCEPT ![s] =
                    IF d \in Garbled THEN "failed"
                    ELSE IF d \in Unavailable THEN "unavailable" ELSE "kept"]
           /\ siteFile' = [siteFile EXCEPT ![s] =
                    IF d \in Garbled \cup Unavailable THEN @ ELSE requested[s]]
    /\ UNCHANGED <<outside, siteManifest, latest, history, tables, city, requested,
                   snapshot, prepareVars, retentionVars, bulletinFaults>>

\* The sources that have a file: those of the manifest, updated.
HasSource(s) ==
    \/ download[s] = "kept"
    \/ download[s] = "none" /\ siteManifest[s] # 0

\* Mutant: what was downloaded is the snapshot.
SnapshotOfBatch ==
    /\ city = "download"
    /\ \A s \in Sites : download[s] # "todo"
    /\ IF \E s \in Sites : download[s] = "failed"
       THEN CityEnds
       ELSE /\ snapshot' = [s \in Sites |-> IF download[s] = "kept" THEN siteFile[s] ELSE 0]
            /\ city' = "archive" /\ UNCHANGED <<requested, download>>
    /\ UNCHANGED <<outside, cityFiles, history, tables, prepareVars, retentionVars,
                   bulletinFaults>>

\* The downloads have ended; an exception in one ends the attempt.  The files
\* are read again; without any, there is no snapshot.
MakeSnapshot ==
    /\ city = "download"
    /\ \A s \in Sites : download[s] # "todo"
    /\ IF \/ \E s \in Sites : download[s] = "failed"
          \/ \A s \in Sites : ~HasSource(s) \/ siteFile[s] = 0
       THEN CityEnds
       ELSE /\ snapshot' = [s \in Sites |-> IF HasSource(s) THEN siteFile[s] ELSE 0]
            /\ city' = "archive" /\ UNCHANGED <<requested, download>>
    /\ UNCHANGED <<outside, cityFiles, history, tables, prepareVars, retentionVars,
                   bulletinFaults>>

\* Mutant: the bulletins are archived by the preparation alone.
ArchiveLater ==
    /\ city = "archive"
    /\ city' = "latest"
    /\ UNCHANGED <<outside, cityFiles, history, tables, requested, download, snapshot,
                   prepareVars, retentionVars, bulletinFaults>>

\* The bulletins of the latest.json that is there, and of the new one.
ArchiveSnapshots ==
    /\ city = "archive"
    /\ history' = Archived(BulletinsOf(latest) \cup BulletinsOf(snapshot))
    /\ city' = "latest"
    /\ UNCHANGED <<outside, cityFiles, tables, requested, download, snapshot,
                   prepareVars, retentionVars, bulletinFaults>>

WriteSnapshot ==
    /\ city = "latest"
    /\ latest' = snapshot
    /\ city' = "manifest"
    /\ UNCHANGED <<outside, siteFile, siteManifest, history, tables, requested,
                   download, snapshot, prepareVars, retentionVars, bulletinFaults>>

\* Only sources with a document stay in the manifest.
WriteSites ==
    /\ city = "manifest"
    /\ siteManifest' = [s \in Sites |->
            IF ~HasSource(s) THEN 0
            ELSE IF download[s] = "kept" THEN requested[s] ELSE siteManifest[s]]
    /\ CityEnds
    /\ UNCHANGED <<outside, siteFile, latest, history, tables, prepareVars,
                   retentionVars, bulletinFaults>>

-----------------------------------------------------------------------------
(* prepare_forecasts: bulletins, comparisons and widgets.                  *)

PrepareEnds == prepare' = "idle" /\ prepared' = Nowhere /\ archives' = {}

\* The issue a snapshot has for each region, 0 for none.
IssueOf(snap) ==
    [a \in Regions |-> LET here == {Issue(b) : b \in {c \in BulletinsOf(snap) : Region(c) = a}}
                       IN  IF here = {} THEN 0 ELSE Max(here)]

\* latest.json is read, its bulletins are archived.
ReadSnapshot ==
    /\ prepare = "idle"
    /\ latest # Empty
    /\ history' = Archived(BulletinsOf(latest))
    /\ prepared' = IssueOf(latest)
    /\ prepare' = "list"
    /\ UNCHANGED <<outside, cityFiles, tables, cityVars, archives, retentionVars,
                   bulletinFaults>>

ListArchives ==
    /\ prepare = "list"
    /\ archives' = {b \in Documents : prepared[Region(b)] # 0 /\ history[b] # 0}
    /\ prepare' = "read"
    /\ UNCHANGED <<outside, cityFiles, history, tables, cityVars, prepared,
                   retentionVars, bulletinFaults>>

\* A file that has gone since then raises; old issues are not imported.
ImportArchives ==
    /\ prepare = "read"
    /\ IF \E b \in archives : history[b] = 0
       THEN PrepareEnds /\ UNCHANGED revisions
       ELSE /\ revisions' = revisions \cup {b \in archives : ~IsOld(b)}
            /\ prepare' = "publish" /\ archives' = {} /\ UNCHANGED prepared
    /\ UNCHANGED <<outside, cityFiles, history, changes, widget, cityVars,
                   retentionVars, bulletinFaults>>

RevisionsOf(a) == {b \in revisions : Region(b) = a}
Current(a) == IF RevisionsOf(a) = {} THEN 0 ELSE Max({Issue(b) : b \in RevisionsOf(a)})

\* Mutant: the comparison starts from the document of the snapshot.
PublishSnapshot(a) ==
    /\ prepare = "publish"
    /\ prepared[a] # 0
    /\ changes' = [changes EXCEPT ![a] = prepared[a]]
    /\ widget' = [widget EXCEPT ![a] = prepared[a]]
    /\ prepared' = [prepared EXCEPT ![a] = 0]
    /\ UNCHANGED <<outside, cityFiles, history, revisions, cityVars, prepare,
                   archives, retentionVars, bulletinFaults>>

\* One transaction per region: `changes` is made of the newest revision,
\* `widget` of the document in the snapshot.
PublishRegion(a) ==
    /\ prepare = "publish"
    /\ prepared[a] # 0
    /\ changes' = [changes EXCEPT ![a] = Current(a)]
    /\ widget' = [widget EXCEPT ![a] = prepared[a]]
    /\ prepared' = [prepared EXCEPT ![a] = 0]
    /\ UNCHANGED <<outside, cityFiles, history, revisions, cityVars, prepare,
                   archives, retentionVars, bulletinFaults>>

FinishPrepare ==
    /\ prepare = "publish"
    /\ prepared = Nowhere
    /\ PrepareEnds
    /\ UNCHANGED <<outside, cityFiles, history, tables, cityVars, retentionVars,
                   bulletinFaults>>

-----------------------------------------------------------------------------
(* maintain_insights.                                                      *)

\* A file may be 30 days old when its bulletin is, and the month in which it
\* was written has passed; at most 5000 files are listed.
MayBeOld == {b \in Documents : history[b] # 0 /\ IsOld(b) /\ history[b] <= month}

ListExpired ==
    /\ retention = "idle"
    /\ \E S \in SUBSET MayBeOld : S # {} /\ expired' = S
    /\ retention' = "rows"
    /\ UNCHANGED <<outside, cityFiles, history, tables, cityVars, prepareVars,
                   bulletinFaults>>

\* Mutant: a row of 30 days goes whatever is left.
DeleteOldRows ==
    /\ retention = "rows"
    /\ revisions' = {b \in revisions : ~IsOld(b)}
    /\ retention' = "unlink"
    /\ UNCHANGED <<outside, cityFiles, history, changes, widget, cityVars,
                   prepareVars, expired, bulletinFaults>>

\* retention.sql: the newest revision stays.
DeleteRows ==
    /\ retention = "rows"
    /\ revisions' = {b \in revisions :
            ~IsOld(b) \/ \A n \in RevisionsOf(Region(b)) : Issue(n) <= Issue(b)}
    /\ retention' = "unlink"
    /\ UNCHANGED <<outside, cityFiles, history, changes, widget, cityVars,
                   prepareVars, expired, bulletinFaults>>

UnlinkExpired ==
    /\ retention = "unlink"
    /\ IF expired = {}
       THEN retention' = "idle" /\ UNCHANGED <<expired, history>>
       ELSE \E b \in expired :
              /\ history' = [history EXCEPT ![b] = 0]
              /\ expired' = expired \ {b}
              /\ UNCHANGED retention
    /\ UNCHANGED <<outside, cityFiles, tables, cityVars, prepareVars, bulletinFaults>>

-----------------------------------------------------------------------------
(* An exception nothing above causes, or a killed process.                 *)

BulletinFault ==
    bulletinFaults < MaxBulletinFaults /\ bulletinFaults' = bulletinFaults + 1

KillCity ==
    /\ BulletinFault
    /\ city # "idle"
    /\ CityEnds
    /\ UNCHANGED <<outside, cityFiles, history, tables, prepareVars, retentionVars>>

KillPrepare ==
    /\ BulletinFault
    /\ prepare # "idle"
    /\ PrepareEnds
    /\ UNCHANGED <<outside, cityFiles, history, tables, cityVars, retentionVars>>

KillRetention ==
    /\ BulletinFault
    /\ retention # "idle"
    /\ retention' = "idle" /\ expired' = {}
    /\ UNCHANGED <<outside, cityFiles, history, tables, cityVars, prepareVars>>

-----------------------------------------------------------------------------
CityStep ==
    \/ DiscoverSites \/ (\E s \in Sites : DownloadSite(s)) \/ MakeSnapshot
    \/ ArchiveSnapshots \/ WriteSnapshot \/ WriteSites

PrepareStep ==
    \/ ReadSnapshot \/ ListArchives \/ ImportArchives
    \/ (\E a \in Regions : PublishRegion(a)) \/ FinishPrepare

RetentionStep == ListExpired \/ DeleteRows \/ UnlinkExpired

BulletinsNext ==
    \/ \E s \in Sites, i \in Issues : IssueBulletin(s, i)
    \/ \E s \in Sites : LeaveListing(s)
    \/ MonthPasses
    \/ CityStep \/ PrepareStep \/ RetentionStep
    \/ KillCity \/ KillPrepare \/ KillRetention

BulletinsSpec == BulletinsInit /\ [][BulletinsNext]_bulletinVars

\* The city DAG and the preparation are due every quarter of an hour.
BulletinsFairness ==
    WF_bulletinVars(CityStep) /\ WF_bulletinVars(PrepareStep)

BulletinsFairSpec == BulletinsSpec /\ BulletinsFairness

-----------------------------------------------------------------------------
(* Properties.                                                             *)

\* A bulletin the feed has shown, or archived, or imported stays somewhere,
\* wherever the three processes are and whichever of them dies, until it is 30
\* days old: no revision is lost between two comparisons.
Known == BulletinsOf(latest) \cup {b \in Documents : history[b] # 0} \cup revisions
BulletinKept == [][\A b \in Known \ Known' : IsOld(b)']_bulletinVars

\* "preserving the latest database revision of a stopped source/station"
\* (docs/forecast-insights-implementation.md): the comparison clients see of a
\* region never falls back to an older issue, or to none, whatever retention
\* deletes, whatever is re-imported, and whatever latest.json is made of.  The
\* widget follows latest.json, which does fall back when the site of the newest
\* document has no forecast any more; but it is never ahead of the comparison
\* published with it, unless its document is 30 days old.
ChangesNeverBack ==
    [][\A a \in Regions :
        /\ changes'[a] >= changes[a]
        /\ widget'[a] <= changes'[a] \/ widget'[a] <= month']_bulletinVars

\* The listings come to rest, as finite Supplies make them.  Then, if no garbled
\* document stays in them, latest.json comes to hold every document that stays
\* and has a forecast, although an attempt needs all its downloads and may leave
\* newer files than its manifest; and the comparison clients see of a region is
\* no older than the bulletin in latest.json, until that is 30 days old.  A
\* document that leaves the listings before an attempt ends well is never asked
\* for again.
GarbledListed == \E s \in Sites : <<s, listed[s]>> \in Garbled
ListedIsShown(s) ==
    listed[s] # 0 /\ <<s, listed[s]>> \notin Unavailable => latest[s] = listed[s]

CityCatchesUp ==
    <>[](\/ GarbledListed
         \/ /\ \A s \in Sites : ListedIsShown(s)
            /\ \A b \in BulletinsOf(latest) : changes[Region(b)] >= Issue(b) \/ IsOld(b))
=============================================================================
