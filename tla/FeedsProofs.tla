----------------------------- MODULE FeedsProofs -----------------------------
(***************************************************************************)
(* Proofs about the remaining feeds: Bulletins, for every set of sites and *)
(* regions, every number of issues, whichever documents are unavailable or *)
(* garbled; Imagery, for every set of products, times and images, and      *)
(* every budget; EvidenceArchive, for every set of objects and revisions   *)
(* and any choice of the scripts.  At the end, about all the feeds of      *)
(* MCFeeds together.                                                       *)
(***************************************************************************)
EXTENDS MCFeeds, GfsProofs, FireProofs

-----------------------------------------------------------------------------
(***************************************************************************)
(* Bulletins                                                               *)
(***************************************************************************)

USE BulletinsAssumption

-----------------------------------------------------------------------------
(* The inductive invariant.                                                *)

\* Once the bulletins are archived, those of the old latest.json stay archived
\* while they are young, so that it may be overwritten.
OverwriteIsSafe ==
    city = "latest" => \A b \in BulletinsOf(latest) : history[b] # 0 \/ IsOld(b)

\* Only files of old bulletins are listed for deletion.
ExpiredIsOld == \A b \in expired : IsOld(b)

\* Every comparison is of a revision that is in the table, or older than one
\* that is.
ChangesHaveRevision ==
    \A a \in Regions : changes[a] # 0 =>
        \E b \in RevisionsOf(a) : Issue(b) >= changes[a]

\* A widget is no newer than the comparison beside it, unless it is a month old.
WidgetFollows ==
    \A a \in Regions : widget[a] <= changes[a] \/ widget[a] <= month

\* The bulletin the preparation has for a region is on its way into the table:
\* archived, then listed, then imported; or it is a month old.
BulletinOf(a) == {b \in Documents : Region(b) = a /\ Issue(b) = prepared[a]}
PreparedIsKnown ==
    \A a \in Regions : prepared[a] # 0 =>
        /\ prepare = "list" => \E b \in BulletinOf(a) : history[b] # 0 \/ IsOld(b)
        /\ prepare = "read" => \E b \in BulletinOf(a) : b \in archives \/ IsOld(b)
        /\ prepare = "publish" => \/ prepared[a] <= month
                                 \/ \E b \in RevisionsOf(a) : Issue(b) >= prepared[a]

PreparedNow ==
    /\ ChangesHaveRevision /\ WidgetFollows /\ PreparedIsKnown
    /\ prepare = "idle" => prepared = Nowhere

BulletinsInv == BulletinsTypeOK /\ OverwriteIsSafe /\ ExpiredIsOld /\ PreparedNow

-----------------------------------------------------------------------------
(* Facts about the data.                                                   *)

\* The bulletins of a snapshot are documents.
LEMMA BulletinsOfType ==
    ASSUME NEW snap \in [Sites -> MaybeIssue]
    PROVE  BulletinsOf(snap) \subseteq Documents
<1> SUFFICES ASSUME NEW b \in BulletinsOf(snap) PROVE b \in Documents
  OBVIOUS
<1>1. PICK s \in Sites : Represents(s, snap) /\ b = <<s, snap[s]>>
  BY DEF BulletinsOf
<1>2. snap[s] \in Issues
  BY <1>1 DEF Represents, MaybeIssue, Issues
<1> QED BY <1>1, <1>2 DEF Documents

\* The issue of a document is a positive number.
LEMMA IssueType == \A b \in Documents : Issue(b) \in Issues /\ Issue(b) \in Nat
BY DEF Documents, Issues, Issue

\* Archiving keeps the types and loses nothing.
LEMMA ArchivedEffect ==
    ASSUME BulletinsTypeOK, NEW B \in SUBSET Documents, history' = Archived(B)
    PROVE  /\ history' \in [Documents -> 0..MaxIssue + 1]
           /\ \A b \in B : history'[b] # 0
           /\ \A b \in Documents : history[b] # 0 => history'[b] # 0
<1>0. MaxIssue \in Nat /\ month \in 0..MaxIssue /\ history \in [Documents -> 0..MaxIssue + 1]
  BY DEF BulletinsTypeOK, MaybeIssue
<1>1. month + 1 \in 0..MaxIssue + 1 /\ month + 1 # 0
      /\ \A b \in Documents : history[b] \in 0..MaxIssue + 1
  BY <1>0
<1>2. \A b \in Documents : history'[b] = IF b \in B /\ history[b] = 0 THEN month + 1
                                                                   ELSE history[b]
  BY DEF Archived
<1>3. history' \in [Documents -> 0..MaxIssue + 1]
  BY <1>1 DEF Archived
<1> QED BY <1>1, <1>2, <1>3

\* A set of documents has a newest issue.
LEMMA NewestIssue ==
    ASSUME NEW B \in SUBSET Documents, B # {}
    PROVE  LET newest == Max({Issue(b) : b \in B})
           IN  /\ newest \in Issues /\ newest \in MaybeIssue
               /\ \E b \in B : Issue(b) = newest
               /\ \A b \in B : Issue(b) <= newest
<1> DEFINE S == {Issue(b) : b \in B}
<1>1. S \subseteq Issues /\ S # {}
  BY IssueType
<1>2. S \in SUBSET Nat /\ IsFiniteSet(S)
  <2>1. Issues \subseteq Nat /\ IsFiniteSet(Issues)
    <3>1. 1 \in Int /\ MaxIssue \in Int
      OBVIOUS
    <3> QED BY <3>1, FS_Interval DEF Issues
  <2> HIDE DEF S
  <2> QED BY <1>1, <2>1, FS_Subset
<1>3. Max(S) \in S /\ \A y \in S : Max(S) >= y
  BY <1>1, <1>2, FiniteHasGreatest
<1>4. \A b \in B : Issue(b) \in S /\ Issue(b) \in Nat
  BY IssueType
<1>5. \E b \in B : Issue(b) = Max(S)
  BY <1>3
<1>6. Max(S) \in Issues /\ Max(S) \in MaybeIssue
  BY <1>1, <1>3 DEF Issues, MaybeIssue
<1>7. \A b \in B : Issue(b) <= Max(S)
  <2> HIDE DEF S
  <2> QED BY <1>2, <1>3, <1>4
<1> QED BY <1>5, <1>6, <1>7

\* The current revision of a region is its newest.
LEMMA CurrentIsNewest ==
    ASSUME revisions \subseteq Documents, NEW a
    PROVE  /\ Current(a) \in MaybeIssue
           /\ RevisionsOf(a) # {} => \E b \in RevisionsOf(a) : Issue(b) = Current(a)
           /\ \A b \in RevisionsOf(a) : Issue(b) <= Current(a)
<1>1. CASE RevisionsOf(a) = {}
  BY <1>1 DEF Current, MaybeIssue
<1>2. CASE RevisionsOf(a) # {}
  <2>1. RevisionsOf(a) \in SUBSET Documents
    BY DEF RevisionsOf
  <2>2. Current(a) = Max({Issue(b) : b \in RevisionsOf(a)})
    BY <1>2 DEF Current
  <2> QED BY <1>2, <2>1, <2>2, NewestIssue
<1> QED BY <1>1, <1>2

\* The issue a snapshot has for a region is that of one of its bulletins.
LEMMA IssueOfBulletin ==
    ASSUME NEW snap \in [Sites -> MaybeIssue]
    PROVE  /\ IssueOf(snap) \in [Regions -> MaybeIssue]
           /\ \A a \in Regions : IssueOf(snap)[a] # 0 =>
                \E b \in BulletinsOf(snap) : Region(b) = a /\ Issue(b) = IssueOf(snap)[a]
<1> DEFINE Here(a) == {c \in BulletinsOf(snap) : Region(c) = a}
           NewestHere(a) == IF {Issue(b) : b \in Here(a)} = {} THEN 0
                            ELSE Max({Issue(b) : b \in Here(a)})
<1>1. IssueOf(snap) = [a \in Regions |-> NewestHere(a)]
  BY DEF IssueOf
<1>2. ASSUME NEW a \in Regions
      PROVE  NewestHere(a) \in MaybeIssue
             /\ (NewestHere(a) # 0 => \E b \in Here(a) : Issue(b) = NewestHere(a))
  <2>1. CASE Here(a) = {}
    BY <2>1 DEF MaybeIssue
  <2>2. CASE Here(a) # {}
    <3>1. Here(a) \in SUBSET Documents
      BY BulletinsOfType
    <3>2. NewestHere(a) = Max({Issue(b) : b \in Here(a)})
      BY <2>2
    <3> HIDE DEF Here
    <3> QED BY <2>2, <3>1, <3>2, NewestIssue
  <2> QED BY <2>1, <2>2
<1> HIDE DEF NewestHere
<1> QED BY <1>1, <1>2

-----------------------------------------------------------------------------
(* Type correctness.                                                       *)

\* The end of an attempt of the city DAG keeps the types of its variables.
LEMMA CityEndsTypes ==
    ASSUME CityEnds
    PROVE  /\ city' \in {"idle", "download", "archive", "latest", "manifest"}
           /\ requested' \in [Sites -> MaybeIssue]
           /\ download' \in [Sites -> {"none", "todo", "kept", "unavailable", "failed"}]
           /\ snapshot' \in [Sites -> MaybeIssue]
BY DEF CityEnds, Empty, MaybeIssue

\* A fault is counted within its bound.
LEMMA FaultTypes ==
    ASSUME BulletinsTypeOK, BulletinFault PROVE bulletinFaults' \in 0..MaxBulletinFaults
BY DEF BulletinsTypeOK, BulletinFault

\* The first state has the declared types.
LEMMA BulletinsInitTypes == BulletinsInit => BulletinsTypeOK
BY DEF BulletinsInit, BulletinsTypeOK, Empty, Nowhere, MaybeIssue

\* The steps of the provider, the clock and the city DAG keep the types.
LEMMA CityTypes ==
    ASSUME BulletinsTypeOK,
           \/ \E s \in Sites, i \in Issues : IssueBulletin(s, i)
           \/ \E s \in Sites : LeaveListing(s)
           \/ MonthPasses \/ CityStep
    PROVE  BulletinsTypeOK'
<1> USE DEF BulletinsTypeOK, outside, cityFiles, tables, cityVars, prepareVars, retentionVars
<1>1. ASSUME NEW s \in Sites, NEW i \in Issues, IssueBulletin(s, i) PROVE BulletinsTypeOK'
  BY <1>1 DEF IssueBulletin, Issues, MaybeIssue
<1>2. CASE MonthPasses
  <2>1. supply.months \in 0..MaxIssue
    BY DEF MaybeIssue
  <2> QED BY <1>2, <2>1 DEF MonthPasses, MaybeIssue
<1>3. CASE DiscoverSites
  BY <1>3 DEF DiscoverSites
<1>4. ASSUME NEW s \in Sites, DownloadSite(s) PROVE BulletinsTypeOK'
  <2>1. requested[s] \in MaybeIssue
    OBVIOUS
  <2>2. siteFile' \in [Sites -> MaybeIssue]
    BY <1>4, <2>1 DEF DownloadSite
  <2>3. download' \in [Sites -> {"none", "todo", "kept", "unavailable", "failed"}]
    BY <1>4 DEF DownloadSite
  <2> QED BY <1>4, <2>2, <2>3 DEF DownloadSite
<1>5. CASE MakeSnapshot
  <2>1. CASE CityEnds
    BY <1>5, <2>1, CityEndsTypes DEF MakeSnapshot
  <2>2. CASE /\ snapshot' = [s \in Sites |-> IF HasSource(s) THEN siteFile[s] ELSE 0]
             /\ city' = "archive" /\ UNCHANGED <<requested, download>>
    <3>1. snapshot' \in [Sites -> MaybeIssue]
      BY <2>2 DEF MaybeIssue
    <3> QED BY <1>5, <2>2, <3>1 DEF MakeSnapshot
  <2> QED BY <1>5, <2>1, <2>2 DEF MakeSnapshot
<1>6. CASE ArchiveSnapshots
  <2>1. BulletinsOf(latest) \cup BulletinsOf(snapshot) \in SUBSET Documents
    BY BulletinsOfType
  <2>2. history' \in [Documents -> 0..MaxIssue + 1]
    BY <1>6, <2>1, ArchivedEffect DEF ArchiveSnapshots
  <2> QED BY <1>6, <2>2 DEF ArchiveSnapshots
<1>7. CASE WriteSnapshot
  BY <1>7 DEF WriteSnapshot
<1>8. CASE WriteSites
  <2>1. siteManifest' \in [Sites -> MaybeIssue]
    BY <1>8 DEF WriteSites, MaybeIssue
  <2> QED BY <1>8, <2>1, CityEndsTypes DEF WriteSites
<1>9. ASSUME NEW s \in Sites, LeaveListing(s) PROVE BulletinsTypeOK'
  BY <1>9 DEF LeaveListing, MaybeIssue
<1> QED BY <1>1, <1>2, <1>3, <1>4, <1>5, <1>6, <1>7, <1>8, <1>9 DEF CityStep

\* So do the steps of the preparation.
LEMMA PrepareTypes == ASSUME BulletinsTypeOK, PrepareStep PROVE BulletinsTypeOK'
<1> USE DEF BulletinsTypeOK, outside, cityFiles, tables, cityVars, prepareVars, retentionVars
<1>1. CASE ReadSnapshot
  <2>1. BulletinsOf(latest) \in SUBSET Documents
    BY BulletinsOfType
  <2>2. history' \in [Documents -> 0..MaxIssue + 1]
    BY <1>1, <2>1, ArchivedEffect DEF ReadSnapshot
  <2>4. prepared' \in [Regions -> MaybeIssue]
    BY <1>1, IssueOfBulletin DEF ReadSnapshot
  <2> QED BY <1>1, <2>2, <2>4 DEF ReadSnapshot
<1>2. CASE ListArchives
  BY <1>2 DEF ListArchives
<1>3. CASE ImportArchives
  BY <1>3 DEF ImportArchives, PrepareEnds, Nowhere, MaybeIssue
<1>4. ASSUME NEW a \in Regions, PublishRegion(a) PROVE BulletinsTypeOK'
  <2>1. Current(a) \in MaybeIssue
    BY CurrentIsNewest
  <2> QED BY <1>4, <2>1 DEF PublishRegion, MaybeIssue
<1>5. CASE FinishPrepare
  BY <1>5 DEF FinishPrepare, PrepareEnds, Nowhere, MaybeIssue
<1> QED BY <1>1, <1>2, <1>3, <1>4, <1>5 DEF PrepareStep

\* So do those of retention, and the faults.
LEMMA OtherTypes ==
    ASSUME BulletinsTypeOK,
           RetentionStep \/ KillCity \/ KillPrepare \/ KillRetention
    PROVE  BulletinsTypeOK'
<1> USE DEF BulletinsTypeOK, outside, cityFiles, tables, cityVars, prepareVars, retentionVars
<1>1. CASE ListExpired
  BY <1>1 DEF ListExpired, MayBeOld
<1>2. CASE DeleteRows
  BY <1>2 DEF DeleteRows
<1>3. CASE UnlinkExpired
  BY <1>3 DEF UnlinkExpired
<1>4. CASE KillCity
  BY <1>4, CityEndsTypes, FaultTypes DEF KillCity
<1>5. CASE KillPrepare
  BY <1>5, FaultTypes DEF KillPrepare, PrepareEnds, Nowhere, MaybeIssue
<1>6. CASE KillRetention
  BY <1>6, FaultTypes DEF KillRetention
<1> QED BY <1>1, <1>2, <1>3, <1>4, <1>5, <1>6 DEF RetentionStep

\* Every step keeps the types.
LEMMA BulletinsStepTypes == BulletinsTypeOK /\ [BulletinsNext]_bulletinVars => BulletinsTypeOK'
<1> SUFFICES ASSUME BulletinsTypeOK, [BulletinsNext]_bulletinVars PROVE BulletinsTypeOK'
  OBVIOUS
<1>1. CASE UNCHANGED bulletinVars
  BY <1>1 DEF BulletinsTypeOK, bulletinVars, outside, cityFiles, tables, cityVars,
              prepareVars, retentionVars
<1> QED BY <1>1, CityTypes, PrepareTypes, OtherTypes DEF BulletinsNext

-----------------------------------------------------------------------------
(* What the steps may not lose.                                            *)

\* A bulletin in the archive stays there until it is old, and what is old
\* stays old.
HistoryKept ==
    /\ \A b \in Documents : history[b] # 0 => history'[b] # 0 \/ IsOld(b)'
    /\ \A b \in Documents : IsOld(b) => IsOld(b)'

\* No step breaks this: only retention deletes files, and only old ones.
LEMMA HistoryIsKept ==
    ASSUME BulletinsTypeOK, ExpiredIsOld, [BulletinsNext]_bulletinVars
    PROVE  HistoryKept
<1> USE DEF bulletinVars, outside, cityFiles, tables, cityVars, prepareVars, retentionVars
<1>1. CASE MonthPasses
  BY <1>1, IssueType DEF MonthPasses, HistoryKept, IsOld, BulletinsTypeOK, MaybeIssue
<1>2. CASE ArchiveSnapshots
  <2>1. BulletinsOf(latest) \cup BulletinsOf(snapshot) \in SUBSET Documents
    BY BulletinsOfType DEF BulletinsTypeOK
  <2> QED BY <1>2, <2>1, ArchivedEffect DEF ArchiveSnapshots, HistoryKept, IsOld
<1>3. CASE ReadSnapshot
  <2>1. BulletinsOf(latest) \in SUBSET Documents
    BY BulletinsOfType DEF BulletinsTypeOK
  <2> QED BY <1>3, <2>1, ArchivedEffect DEF ReadSnapshot, HistoryKept, IsOld
<1>4. CASE UnlinkExpired
  BY <1>4 DEF UnlinkExpired, HistoryKept, ExpiredIsOld, IsOld, BulletinsTypeOK
<1>5. CASE UNCHANGED <<history, month>>
  BY <1>5 DEF HistoryKept, IsOld
<1> QED BY <1>1, <1>2, <1>3, <1>4, <1>5
        DEF BulletinsNext, CityStep, PrepareStep, RetentionStep, IssueBulletin, LeaveListing,
            DiscoverSites, DownloadSite, MakeSnapshot, WriteSnapshot, WriteSites, ListArchives,
            ImportArchives, PublishRegion, FinishPrepare, ListExpired, DeleteRows, KillCity,
            KillPrepare, KillRetention

\* latest.json may be overwritten whenever it is about to be.
LEMMA OverwriteStaysSafe ==
    ASSUME BulletinsTypeOK, OverwriteIsSafe, ExpiredIsOld, [BulletinsNext]_bulletinVars
    PROVE  OverwriteIsSafe'
<1> USE DEF bulletinVars, outside, cityFiles, tables, cityVars, prepareVars, retentionVars
<1>1. HistoryKept /\ BulletinsOf(latest) \subseteq Documents
  BY HistoryIsKept, BulletinsOfType DEF BulletinsTypeOK
<1>2. CASE ArchiveSnapshots
  <2>1. BulletinsOf(latest) \cup BulletinsOf(snapshot) \in SUBSET Documents
    BY BulletinsOfType DEF BulletinsTypeOK
  <2>2. \A b \in BulletinsOf(latest) : history'[b] # 0
    BY <1>2, <2>1, ArchivedEffect DEF ArchiveSnapshots
  <2>3. BulletinsOf(latest)' = BulletinsOf(latest)
    BY <1>2 DEF ArchiveSnapshots, BulletinsOf, Represents, Newer
  <2> QED BY <2>2, <2>3 DEF OverwriteIsSafe
<1>3. CASE WriteSnapshot
  BY <1>3 DEF WriteSnapshot, OverwriteIsSafe
<1>4. CASE latest' = latest /\ (city' = "latest" => city = "latest")
  <2>1. BulletinsOf(latest)' = BulletinsOf(latest)
    BY <1>4 DEF BulletinsOf, Represents, Newer
  <2> QED BY <1>1, <1>4, <2>1 DEF OverwriteIsSafe, HistoryKept
<1> QED BY <1>2, <1>3, <1>4
        DEF BulletinsNext, CityStep, PrepareStep, RetentionStep, IssueBulletin, LeaveListing, MonthPasses,
            DiscoverSites, DownloadSite, MakeSnapshot, WriteSites, CityEnds, ReadSnapshot,
            ListArchives, ImportArchives, PublishRegion, FinishPrepare, ListExpired,
            DeleteRows, UnlinkExpired, KillCity, KillPrepare, KillRetention

\* What is listed for deletion stays old.
LEMMA ExpiredStaysOld ==
    ASSUME BulletinsTypeOK, ExpiredIsOld, [BulletinsNext]_bulletinVars
    PROVE  ExpiredIsOld'
<1> USE DEF bulletinVars, outside, cityFiles, tables, cityVars, prepareVars, retentionVars
<1>1. HistoryKept /\ expired \subseteq Documents
  BY HistoryIsKept DEF BulletinsTypeOK
<1>2. CASE ListExpired
  BY <1>2 DEF ListExpired, MayBeOld, ExpiredIsOld, IsOld
<1>3. CASE expired' \subseteq expired
  BY <1>1, <1>3 DEF ExpiredIsOld, HistoryKept
<1> QED BY <1>2, <1>3
        DEF BulletinsNext, CityStep, PrepareStep, RetentionStep, IssueBulletin, LeaveListing, MonthPasses,
            DiscoverSites, DownloadSite, MakeSnapshot, ArchiveSnapshots, WriteSnapshot,
            WriteSites, ReadSnapshot, ListArchives, ImportArchives, PublishRegion,
            FinishPrepare, DeleteRows, UnlinkExpired, KillCity, KillPrepare, KillRetention

\* Retention keeps the newest revision of every region.
LEMMA NewestRevisionStays ==
    ASSUME BulletinsTypeOK, DeleteRows, NEW a, NEW b \in RevisionsOf(a)
    PROVE  \E n \in RevisionsOf(a)' : Issue(n) >= Issue(b)
<1>1. revisions \subseteq Documents
  BY DEF BulletinsTypeOK
<1>2. PICK n \in RevisionsOf(a) : Issue(n) = Current(a)
  BY <1>1, CurrentIsNewest
<1>3. \A m \in RevisionsOf(a) : Issue(m) <= Issue(n)
  BY <1>1, <1>2, CurrentIsNewest
<1>4. n \in revisions /\ Region(n) = a
  BY DEF RevisionsOf
<1>5. n \in revisions'
  BY <1>3, <1>4 DEF DeleteRows
<1>6. n \in RevisionsOf(a)'
  BY <1>4, <1>5 DEF RevisionsOf
<1>7. Issue(n) \in Nat /\ Issue(b) \in Nat /\ Issue(b) <= Issue(n)
  BY <1>1, <1>3, <1>4, IssueType DEF RevisionsOf
<1> QED BY <1>6, <1>7

\* The comparisons keep their revisions, and only move forward.
LEMMA ChangesKeepRevision ==
    ASSUME BulletinsTypeOK, ChangesHaveRevision, [BulletinsNext]_bulletinVars
    PROVE  /\ ChangesHaveRevision'
           /\ \A a \in Regions : changes'[a] >= changes[a]
<1> USE DEF bulletinVars, outside, cityFiles, tables, cityVars, prepareVars, retentionVars
<1>1. revisions \subseteq Documents /\ \A a \in Regions : changes[a] \in Nat
  BY DEF BulletinsTypeOK, MaybeIssue
<1>2. CASE DeleteRows
  <2>1. changes' = changes
    BY <1>2 DEF DeleteRows
  <2>2. ASSUME NEW a \in Regions, changes[a] # 0
        PROVE  \E n \in RevisionsOf(a)' : Issue(n) >= changes[a]
    <3>1. PICK b \in RevisionsOf(a) : Issue(b) >= changes[a]
      BY <2>2 DEF ChangesHaveRevision
    <3>2. PICK n \in RevisionsOf(a)' : Issue(n) >= Issue(b)
      BY <1>2, NewestRevisionStays
    <3>3. n \in Documents /\ b \in Documents
      BY <1>1, <1>2 DEF DeleteRows, RevisionsOf
    <3> QED BY <1>1, <3>1, <3>2, <3>3, IssueType
  <2> QED BY <1>1, <2>1, <2>2 DEF ChangesHaveRevision
<1>3. ASSUME NEW r \in Regions, PublishRegion(r)
      PROVE  ChangesHaveRevision' /\ \A a \in Regions : changes'[a] >= changes[a]
  <2>1. /\ Current(r) \in Nat
        /\ RevisionsOf(r) # {} => \E b \in RevisionsOf(r) : Issue(b) = Current(r)
        /\ \A b \in RevisionsOf(r) : Issue(b) <= Current(r)
    BY <1>1, CurrentIsNewest DEF MaybeIssue
  <2>2. /\ \A a \in Regions : changes'[a] = IF a = r THEN Current(r) ELSE changes[a]
        /\ \A a : RevisionsOf(a)' = RevisionsOf(a)
    BY <1>3 DEF PublishRegion, BulletinsTypeOK, RevisionsOf
  <2>3. Current(r) >= changes[r]
    <3>1. CASE changes[r] = 0
      BY <2>1, <3>1
    <3>2. CASE changes[r] # 0
      <4>1. PICK b \in RevisionsOf(r) : Issue(b) >= changes[r]
        BY <3>2 DEF ChangesHaveRevision
      <4>2. Issue(b) \in Nat
        BY <1>1, IssueType DEF RevisionsOf
      <4> QED BY <1>1, <2>1, <4>1, <4>2
    <3> QED BY <3>1, <3>2
  <2>4. Current(r) # 0 => RevisionsOf(r) # {}
    BY DEF Current
  <2>5. ChangesHaveRevision'
    <3> SUFFICES ASSUME NEW a \in Regions, changes'[a] # 0
                 PROVE  \E b \in RevisionsOf(a)' : Issue(b) >= changes'[a]
      BY DEF ChangesHaveRevision
    <3>1. CASE a = r
      BY <2>1, <2>2, <2>4, <3>1
    <3>2. CASE a # r
      BY <2>2, <3>2 DEF ChangesHaveRevision
    <3> QED BY <3>1, <3>2
  <2> QED BY <1>1, <2>2, <2>3, <2>5
<1>4. CASE changes' = changes /\ revisions \subseteq revisions'
  <2>1. \A a : RevisionsOf(a) \subseteq RevisionsOf(a)'
    BY <1>4 DEF RevisionsOf
  <2> QED BY <1>1, <1>4, <2>1 DEF ChangesHaveRevision
<1> QED BY <1>2, <1>3, <1>4
        DEF BulletinsNext, CityStep, PrepareStep, RetentionStep, IssueBulletin, LeaveListing, MonthPasses,
            DiscoverSites, DownloadSite, MakeSnapshot, ArchiveSnapshots, WriteSnapshot,
            WriteSites, ReadSnapshot, ListArchives, ImportArchives, FinishPrepare,
            ListExpired, UnlinkExpired, KillCity, KillPrepare, KillRetention

\* Time does not go back.
LEMMA MonthMovesOn ==
    ASSUME BulletinsTypeOK, [BulletinsNext]_bulletinVars
    PROVE  month' \in Nat /\ month' >= month
<1> USE DEF bulletinVars, outside, cityFiles, tables, cityVars, prepareVars, retentionVars
<1>1. month \in Nat
  BY DEF BulletinsTypeOK, MaybeIssue
<1>2. CASE MonthPasses
  BY <1>1, <1>2 DEF MonthPasses
<1>3. CASE month' = month
  BY <1>1, <1>3
<1> QED BY <1>2, <1>3
        DEF BulletinsNext, CityStep, PrepareStep, RetentionStep, IssueBulletin, LeaveListing,
            DiscoverSites, DownloadSite, MakeSnapshot, ArchiveSnapshots, WriteSnapshot,
            WriteSites, ReadSnapshot, ListArchives, ImportArchives, PublishRegion,
            FinishPrepare, ListExpired, DeleteRows, UnlinkExpired, KillCity, KillPrepare,
            KillRetention

\* A bulletin the preparation has read is not lost on its way into the table.
LEMMA PreparedStaysKnown ==
    ASSUME BulletinsTypeOK, ExpiredIsOld, PreparedIsKnown,
           prepare = "idle" => prepared = Nowhere, [BulletinsNext]_bulletinVars
    PROVE  PreparedIsKnown' /\ (prepare' = "idle" => prepared' = Nowhere)
<1> USE DEF bulletinVars, outside, cityFiles, tables, cityVars, prepareVars, retentionVars
<1>1. /\ HistoryKept /\ revisions \subseteq Documents
      /\ month \in Nat /\ \A a \in Regions : prepared[a] \in Nat
      /\ month' \in Nat /\ month' >= month
  BY HistoryIsKept, MonthMovesOn DEF BulletinsTypeOK, MaybeIssue
<1>2. CASE ReadSnapshot
  <2>1. BulletinsOf(latest) \in SUBSET Documents
    BY BulletinsOfType DEF BulletinsTypeOK
  <2>2. \A b \in BulletinsOf(latest) : history'[b] # 0
    BY <1>2, <2>1, ArchivedEffect DEF ReadSnapshot
  <2>3. prepare' = "list" /\ prepared' = IssueOf(latest)
    BY <1>2 DEF ReadSnapshot
  <2>4. ASSUME NEW a \in Regions, prepared'[a] # 0
        PROVE  \E b \in BulletinOf(a)' : history'[b] # 0
    <3>1. PICK b \in BulletinsOf(latest) : Region(b) = a /\ Issue(b) = prepared'[a]
      BY <2>3, <2>4, IssueOfBulletin DEF BulletinsTypeOK
    <3> QED BY <2>1, <2>2, <3>1 DEF BulletinOf
  <2> QED BY <2>3, <2>4 DEF PreparedIsKnown
<1>3. CASE ListArchives
  <2>1. /\ prepare = "list" /\ prepare' = "read" /\ prepared' = prepared
        /\ archives' = {b \in Documents : prepared[Region(b)] # 0 /\ history[b] # 0}
        /\ month' = month
    BY <1>3 DEF ListArchives
  <2>2. ASSUME NEW a \in Regions, prepared[a] # 0
        PROVE  \E b \in BulletinOf(a)' : b \in archives' \/ IsOld(b)'
    <3>1. PICK b \in BulletinOf(a) : history[b] # 0 \/ IsOld(b)
      BY <2>1, <2>2 DEF PreparedIsKnown
    <3> QED BY <2>1, <2>2, <3>1 DEF BulletinOf, IsOld
  <2> QED BY <2>1, <2>2 DEF PreparedIsKnown
<1>4. CASE ImportArchives
  <2>1. CASE PrepareEnds
    BY <2>1 DEF PrepareEnds, Nowhere, PreparedIsKnown
  <2>2. CASE /\ revisions' = revisions \cup {b \in archives : ~IsOld(b)}
             /\ prepare' = "publish" /\ archives' = {} /\ UNCHANGED prepared
    <3>1. prepare = "read" /\ month' = month
      BY <1>4 DEF ImportArchives
    <3>2. ASSUME NEW a \in Regions, prepared[a] # 0
          PROVE  \/ prepared[a] <= month
                 \/ \E b \in RevisionsOf(a)' : Issue(b) >= prepared[a]
      <4>1. PICK b \in BulletinOf(a) : b \in archives \/ IsOld(b)
        BY <3>1, <3>2 DEF PreparedIsKnown
      <4>2. b \in Documents /\ Region(b) = a /\ Issue(b) = prepared[a]
        BY DEF BulletinOf
      <4>3. CASE IsOld(b)
        BY <4>2, <4>3 DEF IsOld
      <4>4. CASE b \in archives /\ ~IsOld(b)
        <5>1. b \in RevisionsOf(a)'
          BY <2>2, <4>2, <4>4 DEF RevisionsOf
        <5> QED BY <1>1, <4>2, <5>1
      <4> QED BY <4>1, <4>3, <4>4
    <3> QED BY <2>2, <3>1, <3>2 DEF PreparedIsKnown
  <2> QED BY <1>4, <2>1, <2>2 DEF ImportArchives
<1>5. ASSUME NEW r \in Regions, PublishRegion(r)
      PROVE  PreparedIsKnown' /\ (prepare' = "idle" => prepared' = Nowhere)
  <2>1. /\ prepare = "publish" /\ prepare' = "publish" /\ month' = month
        /\ \A a \in Regions : prepared'[a] = IF a = r THEN 0 ELSE prepared[a]
        /\ \A a : RevisionsOf(a)' = RevisionsOf(a)
    BY <1>5 DEF PublishRegion, BulletinsTypeOK, RevisionsOf
  <2> QED BY <2>1 DEF PreparedIsKnown
<1>6. CASE FinishPrepare \/ KillPrepare
  BY <1>6 DEF FinishPrepare, KillPrepare, PrepareEnds, Nowhere, PreparedIsKnown
<1>7. CASE DeleteRows
  <2>1. UNCHANGED <<prepare, prepared, archives, history, month>>
    BY <1>7 DEF DeleteRows
  <2>2. ASSUME NEW a \in Regions, NEW b \in RevisionsOf(a), Issue(b) >= prepared[a]
        PROVE  \E n \in RevisionsOf(a)' : Issue(n) >= prepared[a]
    <3>1. PICK n \in RevisionsOf(a)' : Issue(n) >= Issue(b)
      BY <1>7, NewestRevisionStays
    <3>2. n \in Documents /\ b \in Documents
      BY <1>1, <1>7 DEF DeleteRows, RevisionsOf
    <3> QED BY <1>1, <2>2, <3>1, <3>2, IssueType
  <2> QED BY <2>1, <2>2 DEF PreparedIsKnown, BulletinOf, IsOld
<1>8. CASE UNCHANGED <<prepare, prepared, archives, revisions>>
  <2>1. \A a : RevisionsOf(a)' = RevisionsOf(a) /\ BulletinOf(a)' = BulletinOf(a)
    BY <1>8 DEF RevisionsOf, BulletinOf
  <2>2. \A b \in Documents : history[b] # 0 \/ IsOld(b) => history'[b] # 0 \/ IsOld(b)'
    BY <1>1 DEF HistoryKept
  <2>3. \A a \in Regions : prepared[a] <= month => prepared[a] <= month'
    BY <1>1, <1>8
  <2>4. \A a : BulletinOf(a) \subseteq Documents
    BY DEF BulletinOf
  <2> QED BY <1>1, <1>8, <2>1, <2>2, <2>3, <2>4 DEF PreparedIsKnown, HistoryKept
<1> QED BY <1>1, <1>2, <1>3, <1>4, <1>5, <1>6, <1>7, <1>8
        DEF BulletinsNext, CityStep, PrepareStep, RetentionStep, IssueBulletin, LeaveListing,
            DiscoverSites, DownloadSite, MakeSnapshot, ArchiveSnapshots, WriteSnapshot,
            WriteSites, ListExpired, UnlinkExpired, KillCity, KillRetention, MonthPasses

\* The widget stays behind the comparison, unless it is of an old bulletin.
LEMMA WidgetStaysBehind ==
    ASSUME BulletinsTypeOK, PreparedNow, [BulletinsNext]_bulletinVars
    PROVE  WidgetFollows'
<1> USE DEF bulletinVars, outside, cityFiles, tables, cityVars, prepareVars, retentionVars
<1>1. /\ revisions \subseteq Documents /\ month \in Nat
      /\ \A a \in Regions : changes[a] \in Nat /\ widget[a] \in Nat /\ prepared[a] \in Nat
      /\ month' \in Nat /\ month' >= month
  BY MonthMovesOn DEF BulletinsTypeOK, MaybeIssue
<1>2. \A a \in Regions : changes'[a] \in Nat /\ changes'[a] >= changes[a]
  BY BulletinsStepTypes, ChangesKeepRevision DEF PreparedNow, BulletinsTypeOK, MaybeIssue
<1>3. ASSUME NEW r \in Regions, PublishRegion(r) PROVE WidgetFollows'
  <2>1. /\ prepare = "publish" /\ prepared[r] # 0 /\ month' = month
        /\ changes'[r] = Current(r)
        /\ \A a \in Regions : widget'[a] = IF a = r THEN prepared[r] ELSE widget[a]
    BY <1>3 DEF PublishRegion, BulletinsTypeOK
  <2>2. prepared[r] <= month \/ \E b \in RevisionsOf(r) : Issue(b) >= prepared[r]
    BY <2>1 DEF PreparedNow, PreparedIsKnown
  <2>3. ASSUME NEW b \in RevisionsOf(r), Issue(b) >= prepared[r]
        PROVE  prepared[r] <= changes'[r]
    <3>1. Issue(b) \in Nat /\ Issue(b) <= Current(r)
      BY <1>1, CurrentIsNewest, IssueType DEF RevisionsOf
    <3> QED BY <1>1, <1>2, <2>1, <2>3, <3>1
  <2> QED BY <1>1, <1>2, <2>1, <2>2, <2>3 DEF PreparedNow, WidgetFollows
<1>4. CASE widget' = widget
  BY <1>1, <1>2, <1>4 DEF PreparedNow, WidgetFollows
<1> QED BY <1>1, <1>3, <1>4
        DEF BulletinsNext, CityStep, PrepareStep, RetentionStep, IssueBulletin, LeaveListing,
            DiscoverSites, DownloadSite, MakeSnapshot, ArchiveSnapshots, WriteSnapshot,
            WriteSites, ListExpired, UnlinkExpired, KillCity, KillRetention, MonthPasses, ReadSnapshot, ListArchives, ImportArchives,
            FinishPrepare, KillPrepare, DeleteRows

-----------------------------------------------------------------------------
(* Theorems.                                                               *)

\* The invariant of the city forecasts and their history holds in every
\* reachable state.
THEOREM BulletinsInvariant == BulletinsSpec => []BulletinsInv
<1>1. BulletinsInit => BulletinsInv
  <2> SUFFICES ASSUME BulletinsInit PROVE BulletinsInv
    OBVIOUS
  <2>1. OverwriteIsSafe /\ ExpiredIsOld /\ PreparedNow
    BY DEF BulletinsInit, OverwriteIsSafe, ExpiredIsOld, PreparedNow, Nowhere,
           ChangesHaveRevision, WidgetFollows, PreparedIsKnown
  <2> QED BY <2>1, BulletinsInitTypes DEF BulletinsInv
<1>2. BulletinsInv /\ [BulletinsNext]_bulletinVars => BulletinsInv'
  BY BulletinsStepTypes, OverwriteStaysSafe, ExpiredStaysOld, ChangesKeepRevision,
     PreparedStaysKnown, WidgetStaysBehind DEF BulletinsInv, PreparedNow
<1> QED BY <1>1, <1>2, PTL DEF BulletinsSpec

\* The files, rows and processes keep their types.
THEOREM BulletinsTypeCorrect == BulletinsSpec => []BulletinsTypeOK
<1>1. BulletinsInv => BulletinsTypeOK
  BY DEF BulletinsInv
<1> QED BY <1>1, BulletinsInvariant, PTL

\* A bulletin that is in latest.json, in the archive or in the table stays in
\* one of them until it is 30 days old, however the three DAGs interleave and
\* wherever they die: the archive is written before latest.json is replaced.
THEOREM KeptForAMonth == BulletinsSpec => BulletinKept
<1> DEFINE Kept == \A b \in Known \ Known' : IsOld(b)'
<1>1. ASSUME BulletinsInv, [BulletinsNext]_bulletinVars PROVE Kept
  <2> SUFFICES ASSUME NEW b \in Known \ Known' PROVE IsOld(b)'
    OBVIOUS
  <2>0. /\ BulletinsTypeOK /\ ExpiredIsOld /\ OverwriteIsSafe
        /\ BulletinsOf(latest) \subseteq Documents /\ b \in Documents
    BY <1>1, BulletinsOfType DEF BulletinsInv, BulletinsTypeOK, Known
  <2>1. HistoryKept
    BY <1>1, <2>0, HistoryIsKept
  <2>2. CASE history[b] # 0
    BY <2>0, <2>1, <2>2 DEF HistoryKept, Known
  <2>3. CASE b \in revisions
    <3>1. b \notin revisions'
      BY DEF Known
    <3>2. DeleteRows
      BY <1>1, <2>3, <3>1
         DEF bulletinVars, outside, cityFiles, tables, cityVars, prepareVars,
             retentionVars, BulletinsNext, CityStep, PrepareStep, RetentionStep,
             IssueBulletin, LeaveListing, MonthPasses, DiscoverSites, DownloadSite, MakeSnapshot,
             ArchiveSnapshots, WriteSnapshot, WriteSites, ReadSnapshot, ListArchives,
             ImportArchives, PublishRegion, FinishPrepare, ListExpired, UnlinkExpired,
             KillCity, KillPrepare, KillRetention
    <3>3. IsOld(b)
      BY <2>3, <3>1, <3>2 DEF DeleteRows
    <3> QED BY <2>0, <2>1, <3>3 DEF HistoryKept
  <2>4. CASE b \in BulletinsOf(latest)
    <3>1. CASE latest' = latest
      <4>1. BulletinsOf(latest)' = BulletinsOf(latest)
        BY <3>1 DEF BulletinsOf, Represents, Newer
      <4> QED BY <2>4, <4>1 DEF Known
    <3>2. CASE latest' # latest
      <4>1. city = "latest"
        BY <1>1, <3>2
           DEF bulletinVars, outside, cityFiles, tables, cityVars, prepareVars,
               retentionVars, BulletinsNext, CityStep, PrepareStep, RetentionStep,
               IssueBulletin, LeaveListing, MonthPasses, DiscoverSites, DownloadSite, MakeSnapshot,
               ArchiveSnapshots, WriteSnapshot, WriteSites, ReadSnapshot, ListArchives,
               ImportArchives, PublishRegion, FinishPrepare, ListExpired, DeleteRows,
               UnlinkExpired, KillCity, KillPrepare, KillRetention
      <4>2. history[b] # 0 \/ IsOld(b)
        BY <2>0, <2>4, <4>1 DEF OverwriteIsSafe
      <4> QED BY <2>0, <2>1, <2>2, <4>2 DEF HistoryKept
    <3> QED BY <3>1, <3>2
  <2> QED BY <2>2, <2>3, <2>4 DEF Known
<1>2. BulletinsSpec => [][BulletinsNext]_bulletinVars
  BY DEF BulletinsSpec
<1>3. BulletinsInv /\ [BulletinsNext]_bulletinVars => [Kept]_bulletinVars
  BY <1>1
<1> QED BY <1>2, <1>3, BulletinsInvariant, PTL DEF BulletinKept

\* The comparison clients see of a region never falls back to an older issue, or
\* to none: retention keeps the newest revision, so the preparation finds one that
\* is no older than what it published last.  The widget published beside it may
\* fall back with latest.json, but is never ahead of it, unless it is a month old:
\* the preparation imports what it has read before it publishes.
THEOREM ChangesMoveForward == BulletinsSpec => ChangesNeverBack
<1> DEFINE Forward == \A a \in Regions :
                        /\ changes'[a] >= changes[a]
                        /\ widget'[a] <= changes'[a] \/ widget'[a] <= month'
<1>1. BulletinsInv /\ [BulletinsNext]_bulletinVars => [Forward]_bulletinVars
  BY ChangesKeepRevision, WidgetStaysBehind DEF BulletinsInv, PreparedNow, WidgetFollows
<1>2. BulletinsSpec => [][BulletinsNext]_bulletinVars
  BY DEF BulletinsSpec
<1> QED BY <1>1, <1>2, BulletinsInvariant, PTL DEF ChangesNeverBack

HIDE BulletinsAssumption

-----------------------------------------------------------------------------
(***************************************************************************)
(* Imagery                                                                 *)
(***************************************************************************)

USE ImageryAssumption

-----------------------------------------------------------------------------
(* The inductive invariant.                                                *)

\* Where a frame is being fetched.
Fetching == {"legend", "cog", "raw", "register"}

\* Files of the frame at work: they are counted when it is registered.
InFlight == IF collecting = "raw" THEN 1 ELSE IF collecting = "register" THEN 2 ELSE 0

\* There is a product at work, and a time of it that the provider advertises,
\* where the code uses them.
WorkInv ==
    /\ collecting = "pick" => left # {}
    /\ collecting \in Fetching => left # {} /\ times # {}
    /\ collecting \in Fetching => newFrames < FramesPerProduct
    /\ collecting \in {"raw", "register"} => fetched # 0
    /\ \A t \in times : image[<<Code, t>>] # 0
    /\ collecting \in {"idle", "ask"} => times = {} /\ legendKnown = FALSE

\* A legend that is known is in the archive, and was counted.
LegendInv == legendKnown => left # {} /\ Code \in legendFiles

\* Each product that was left since the count owes two files at most.
CountInv ==
    collecting # "idle" =>
        ArchiveBytes <= counted + 2 * Cardinality(Products \ left) + InFlight

\* A frame is fetched when the reserve was free; the legend is counted since.
RoomInv ==
    /\ collecting = "legend" => counted + Reserve <= Budget
    /\ collecting \in Fetching => counted + Reserve <= Budget + 1

\* The two directories that grow hold finitely many files.
ArchiveFinite == IsFiniteSet(cogFiles) /\ IsFiniteSet(rawFiles)

\* The invariant of the imagery archive.
ImageryInv ==
    /\ ImageryTypeOK /\ ArchiveFinite
    /\ WorkInv /\ LegendInv /\ CountInv /\ RoomInv /\ ArchiveInBudget

-----------------------------------------------------------------------------
(* Facts about the data.                                                   *)

\* The product at work is one of those left.
LEMMA CodeIsLeft ==
    ASSUME ImageryTypeOK, left # {}
    PROVE  Code \in left /\ Code \in Products
<1>1. left \in SUBSET Nat /\ IsFiniteSet(left) /\ left \subseteq Products
  BY FS_Subset DEF ImageryTypeOK
<1> QED BY <1>1, FiniteHasLeast DEF Code

\* The newest time is one of those to look at.
LEMMA NewestTime ==
    ASSUME ImageryTypeOK, times # {}
    PROVE  Max(times) \in times /\ Max(times) \in ValidTimes
<1>1. times \in SUBSET Nat /\ IsFiniteSet(times) /\ times \subseteq ValidTimes
  BY FS_Subset DEF ImageryTypeOK
<1> QED BY <1>1, FiniteHasGreatest

\* A file that is written makes a directory larger by one at most.
LEMMA OneFileMore ==
    ASSUME NEW F, IsFiniteSet(F), NEW x
    PROVE  /\ IsFiniteSet(F \cup {x})
           /\ Cardinality(F) \in Nat /\ Cardinality(F \cup {x}) \in Nat
           /\ Cardinality(F \cup {x}) <= Cardinality(F) + 1
<1>1. IsFiniteSet(F \cup {x})
  BY FS_AddElement
<1>2. Cardinality(F) \in Nat /\ Cardinality(F \cup {x}) \in Nat
  BY <1>1, FS_CardinalityType
<1>3. CASE x \in F
  <2>1. Cardinality(F \cup {x}) = Cardinality(F)
    BY <1>3, FS_AddElement
  <2> QED BY <1>1, <1>2, <2>1
<1>4. CASE x \notin F
  <2>1. Cardinality(F \cup {x}) = Cardinality(F) + 1
    BY <1>4, FS_AddElement
  <2> QED BY <1>1, <1>2, <2>1
<1> QED BY <1>3, <1>4

\* The sizes of the three directories are numbers.
LEMMA ArchiveSizes ==
    ASSUME ImageryTypeOK, ArchiveFinite
    PROVE  /\ IsFiniteSet(legendFiles)
           /\ Cardinality(cogFiles) \in Nat /\ Cardinality(rawFiles) \in Nat
           /\ Cardinality(legendFiles) \in Nat /\ ArchiveBytes \in Nat
<1>1. IsFiniteSet(legendFiles)
  BY FS_Subset DEF ImageryTypeOK
<1>2. /\ Cardinality(cogFiles) \in Nat /\ Cardinality(rawFiles) \in Nat
      /\ Cardinality(legendFiles) \in Nat
  BY <1>1, FS_CardinalityType DEF ArchiveFinite
<1> QED BY <1>1, <1>2 DEF ArchiveBytes

\* The products that were left are a number of them, and one less than all
\* while one is at work.
LEMMA ProductsLeft ==
    ASSUME ImageryTypeOK
    PROVE  /\ Cardinality(Products) \in Nat
           /\ Cardinality(Products \ left) \in Nat
           /\ left # {} => Cardinality(Products \ left) + 1 <= Cardinality(Products)
<1>1. /\ Cardinality(Products) \in Nat /\ IsFiniteSet(Products \ left)
      /\ Cardinality(Products \ left) \in Nat
  BY FS_CardinalityType, FS_Subset
<1>2. ASSUME left # {}
      PROVE  Cardinality(Products \ left) + 1 <= Cardinality(Products)
  <2>1. PICK p \in left : p \in Products
    BY <1>2 DEF ImageryTypeOK
  <2>2. Cardinality((Products \ left) \cup {p}) = Cardinality(Products \ left) + 1
    BY <1>1, <2>1, FS_AddElement
  <2>3. (Products \ left) \cup {p} \subseteq Products
    BY <2>1
  <2> QED BY <2>2, <2>3, FS_Subset
<1> QED BY <1>1, <1>2

\* A product that is left is one more.
LEMMA OneProductMore ==
    ASSUME ImageryTypeOK, left # {}
    PROVE  Cardinality(Products \ (left \ {Code})) = Cardinality(Products \ left) + 1
<1>1. Code \in left /\ Code \in Products
  BY CodeIsLeft
<1>2. Products \ (left \ {Code}) = (Products \ left) \cup {Code}
  BY <1>1
<1>3. IsFiniteSet(Products \ left) /\ Code \notin Products \ left
  BY <1>1, FS_Subset
<1> QED BY <1>2, <1>3, FS_AddElement

-----------------------------------------------------------------------------
(* Steps.                                                                  *)

\* The collector may leave its product, or end, in any state: what the frame
\* at work has written is owed by its product.
LEMMA LeaveInv ==
    ASSUME ImageryInv, left # {}, collecting # "idle", LeaveProduct,
           UNCHANGED <<image, archive, frame>>, imageryFaults' \in 0..MaxImageryFaults
    PROVE  ImageryInv'
<1> USE DEF ImageryInv
<1>1. ImageryTypeOK'
  <2>1. left' \subseteq Products /\ times' \subseteq ValidTimes
    BY DEF LeaveProduct, ImageryTypeOK
  <2>2. /\ collecting' \in {"idle", "ask", "pick", "legend", "cog", "raw", "register"}
        /\ fetched' \in Images \cup {0} /\ counted' \in Nat
        /\ newFrames' \in 0..FramesPerProduct
    BY DEF LeaveProduct, ImageryTypeOK
  <2>3. legendKnown' \in BOOLEAN
    BY Zenon DEF LeaveProduct
  <2> QED BY <2>1, <2>2, <2>3 DEF ImageryTypeOK, archive
<1>2. WorkInv' /\ LegendInv' /\ RoomInv' /\ ArchiveFinite'
  BY DEF LeaveProduct, WorkInv, LegendInv, RoomInv, Fetching, ArchiveFinite, archive
<1>3. ArchiveBytes' = ArchiveBytes
  BY DEF ArchiveBytes, archive
<1>4. CountInv'
  <2>1. Cardinality(Products \ left)' = Cardinality(Products \ left) + 1
    BY OneProductMore DEF LeaveProduct
  <2>2. ArchiveBytes \in Nat /\ Cardinality(Products \ left) \in Nat /\ counted \in Nat
    BY ArchiveSizes, ProductsLeft DEF ImageryTypeOK
  <2>3. InFlight \in 0..2 /\ InFlight' = 0
    BY DEF InFlight, LeaveProduct
  <2> QED BY <1>3, <2>1, <2>2, <2>3 DEF CountInv, LeaveProduct
<1> QED BY <1>1, <1>2, <1>3, <1>4 DEF ArchiveInBudget

\* The collector may also end: the next run counts what is there.
LEMMA IdleInv ==
    ASSUME ImageryInv, Idle, UNCHANGED <<image, archive, frame>>,
           imageryFaults' \in 0..MaxImageryFaults
    PROVE  ImageryInv'
<1> USE DEF ImageryInv, Idle, archive
<1>1. ImageryTypeOK'
  <2>1. /\ collecting' \in {"idle", "ask", "pick", "legend", "cog", "raw", "register"}
        /\ fetched' \in Images \cup {0} /\ counted' \in Nat
        /\ newFrames' \in 0..FramesPerProduct
        /\ left' \subseteq Products /\ times' \subseteq ValidTimes
    OBVIOUS
  <2>2. legendKnown' \in BOOLEAN
    BY Zenon
  <2> QED BY <2>1, <2>2 DEF ImageryTypeOK
<1>2. ArchiveFinite' /\ ArchiveInBudget'
  BY DEF ArchiveFinite, ArchiveInBudget, ArchiveBytes
<1>3. WorkInv' /\ LegendInv' /\ RoomInv' /\ CountInv'
  BY DEF WorkInv, LegendInv, RoomInv, CountInv, Fetching
<1> QED BY <1>1, <1>2, <1>3

\* A step that leaves the files as they are has the budget to keep.
LEMMA FilesKeptInv ==
    ASSUME ImageryInv, ImageryTypeOK', WorkInv', LegendInv', RoomInv', CountInv',
           UNCHANGED archive
    PROVE  ImageryInv'
BY DEF ImageryInv, archive, ArchiveFinite, ArchiveInBudget, ArchiveBytes

\* It holds in the first state.
LEMMA ImageryInitInv == ImageryInit => ImageryInv
<1> SUFFICES ASSUME ImageryInit PROVE ImageryInv
  OBVIOUS
<1> USE DEF ImageryInit
<1>1. ImageryTypeOK
  <2>1. legendKnown \in BOOLEAN
    BY Zenon
  <2> QED BY <2>1 DEF ImageryTypeOK
<1>2. ArchiveFinite /\ Cardinality(cogFiles) = 0 /\ Cardinality(rawFiles) = 0
      /\ Cardinality(legendFiles) = 0
  BY FS_EmptySet DEF ArchiveFinite
<1>3. WorkInv /\ LegendInv /\ CountInv /\ RoomInv
  BY DEF WorkInv, LegendInv, CountInv, RoomInv, Fetching
<1>4. ArchiveInBudget
  BY <1>2 DEF ArchiveInBudget, ArchiveBytes
<1> QED BY <1>1, <1>2, <1>3, <1>4 DEF ImageryInv

\* The start of a run, the choice of a frame, and what the provider does.
LEMMA ChoiceInv ==
    ASSUME ImageryInv,
           \/ \E p \in Products, t \in ValidTimes : Observe(p, t)
           \/ StartCollect \/ AskTimes \/ PickFrame
    PROVE  ImageryInv'
<1> USE DEF ImageryInv, archive, collectorVars
<1>0. /\ ArchiveBytes \in Nat /\ counted \in Nat /\ Cardinality(Products \ left) \in Nat
      /\ Cardinality(Products) \in Nat /\ Reserve \in Nat /\ Budget \in Nat
  BY ArchiveSizes, ProductsLeft DEF ImageryTypeOK
<1>1. ASSUME NEW p \in Products, NEW t \in ValidTimes, Observe(p, t) PROVE ImageryInv'
  <2>1. PICK i \in Images : i > image[<<p, t>>] /\ image' = [image EXCEPT ![<<p, t>>] = i]
    BY <1>1 DEF Observe
  <2>2. ImageryTypeOK'
    BY <1>1, <2>1 DEF Observe, ImageryTypeOK
  <2>3. \A x \in Products \X ValidTimes : image[x] # 0 => image'[x] # 0
    BY <2>1 DEF ImageryTypeOK
  <2>4. WorkInv'
    <3>1. /\ UNCHANGED <<collecting, left, times, newFrames, fetched, legendKnown>>
          /\ Code' = Code
      BY <1>1 DEF Observe, Code
    <3>2. left # {} => Code \in Products
      BY CodeIsLeft
    <3>3. times # {} => left # {}
      BY DEF WorkInv, Fetching, ImageryTypeOK
    <3>4. ASSUME NEW u \in times PROVE image'[<<Code, u>>] # 0
      <4>1. u \in ValidTimes /\ Code \in Products /\ image[<<Code, u>>] # 0
        BY <3>2, <3>3 DEF ImageryTypeOK, WorkInv
      <4> QED BY <2>3, <4>1
    <3>5. \A u \in times' : image'[<<Code', u>>] # 0
      BY <3>1, <3>4
    <3>6. /\ collecting \in Fetching => left # {} /\ times # {}
          /\ collecting = "pick" => left # {}
          /\ collecting \in {"idle", "ask"} => times = {} /\ legendKnown = FALSE
          /\ collecting \in Fetching => newFrames < FramesPerProduct
          /\ collecting \in {"raw", "register"} => fetched # 0
      BY DEF WorkInv
    <3> QED BY <3>1, <3>5, <3>6 DEF WorkInv, Fetching
  <2>5. LegendInv' /\ RoomInv' /\ CountInv'
    BY <1>1 DEF Observe, LegendInv, RoomInv, CountInv, InFlight, ArchiveBytes, Code
  <2> QED BY <1>1, <2>2, <2>4, <2>5, FilesKeptInv DEF Observe
<1>2. CASE StartCollect
  <2>1. ImageryTypeOK'
    BY <1>0, <1>2 DEF StartCollect, ImageryTypeOK
  <2>2. Cardinality(Products \ left)' = 0
    <3>1. (Products \ left)' = {}
      BY <1>2 DEF StartCollect
    <3> QED BY <3>1, FS_EmptySet
  <2>3. CountInv'
    <3>1. ArchiveBytes' = ArchiveBytes /\ counted' = ArchiveBytes /\ InFlight' = 0
      BY <1>2 DEF StartCollect, InFlight, ArchiveBytes
    <3> QED BY <1>0, <2>2, <3>1 DEF CountInv
  <2>4. WorkInv' /\ RoomInv' /\ LegendInv'
    BY <1>2 DEF StartCollect, WorkInv, RoomInv, LegendInv, Fetching
  <2> QED BY <1>2, <2>1, <2>3, <2>4, FilesKeptInv DEF StartCollect
<1>3. CASE AskTimes
  <2>1. ImageryTypeOK'
    <3>1. legendKnown' \in BOOLEAN
      BY <1>3, Zenon DEF AskTimes
    <3>2. times' \subseteq ValidTimes
      BY <1>3 DEF AskTimes
    <3>3. newFrames' = 0
      BY <1>3 DEF AskTimes
    <3>4. 0 \in 0..FramesPerProduct
      OBVIOUS
    <3> QED BY <1>3, <3>1, <3>2, <3>3, <3>4 DEF AskTimes, ImageryTypeOK
  <2>2. WorkInv'
    BY <1>3 DEF AskTimes, WorkInv, Fetching, Code
  <2>3. LegendInv' /\ RoomInv' /\ CountInv'
    BY <1>3 DEF AskTimes, LegendInv, RoomInv, CountInv, Fetching, InFlight, ArchiveBytes
  <2> QED BY <1>3, <2>1, <2>2, <2>3, FilesKeptInv DEF AskTimes
<1>4. CASE PickFrame
  <2>1. left # {} /\ collecting = "pick" /\ UNCHANGED <<image, archive, frame, imageryFaults>>
    BY <1>4 DEF PickFrame, WorkInv
  <2>2. CASE LeaveProduct
    BY <2>1, <2>2, LeaveInv DEF ImageryTypeOK
  <2>3. CASE /\ times' = times \ {Max(times)}
             /\ UNCHANGED <<collecting, left, fetched, newFrames, legendKnown, counted>>
    <3>1. ImageryTypeOK'
      BY <2>1, <2>3 DEF ImageryTypeOK
    <3>2. WorkInv'
      BY <2>1, <2>3 DEF WorkInv, Fetching, Code
    <3>3. LegendInv' /\ RoomInv' /\ CountInv'
      BY <2>1, <2>3 DEF LegendInv, RoomInv, CountInv, InFlight, ArchiveBytes, Code
    <3> QED BY <2>1, <3>1, <3>2, <3>3, FilesKeptInv
  <2>4. CASE /\ times # {} /\ newFrames < FramesPerProduct /\ ~(counted + Reserve > Budget)
             /\ collecting' = "legend"
             /\ UNCHANGED <<left, times, fetched, newFrames, legendKnown, counted>>
    <3>1. ImageryTypeOK'
      BY <2>1, <2>4 DEF ImageryTypeOK
    <3>2. WorkInv'
      BY <2>1, <2>4, NewestTime DEF WorkInv, Fetching, Code
    <3>3. LegendInv' /\ CountInv'
      BY <2>1, <2>4 DEF LegendInv, CountInv, InFlight, ArchiveBytes, Code
    <3>4. RoomInv'
      BY <1>0, <2>4 DEF RoomInv
    <3> QED BY <2>1, <3>1, <3>2, <3>3, <3>4, FilesKeptInv
  <2>5. newFrames \in Nat /\ FramesPerProduct \in Nat
    BY DEF ImageryTypeOK
  <2> QED BY <1>4, <2>2, <2>3, <2>4, <2>5 DEF PickFrame
<1>5. CASE \E p \in Products, t \in ValidTimes : Observe(p, t)
  <2> HIDE DEF ImageryInv
  <2> QED BY <1>1, <1>5
<1> QED BY <1>2, <1>3, <1>4, <1>5

\* The frame is fetched in the room the reserve left: the legend, counted once,
\* the COG and the raw image, beside what each earlier product may owe.
LEMMA FetchInv ==
    ASSUME ImageryInv, KeepLegend \/ MakeCog \/ KeepRaw
    PROVE  ImageryInv'
<1> USE DEF ImageryInv
<1>0. /\ ArchiveBytes \in Nat /\ counted \in Nat /\ Cardinality(Products \ left) \in Nat
      /\ Cardinality(Products) \in Nat
      /\ Reserve \in Nat /\ Budget \in Nat /\ Reserve >= 2 * Cardinality(Products) + 1
  BY ArchiveSizes, ProductsLeft DEF ImageryTypeOK
<1>1. /\ left # {} /\ times # {} /\ Code \in Products
      /\ Max(times) \in times /\ Max(times) \in ValidTimes
      /\ Cardinality(Products \ left) + 1 <= Cardinality(Products)
  <2>1. left # {} /\ times # {}
    BY DEF KeepLegend, MakeCog, KeepRaw, WorkInv, Fetching
  <2> QED BY <2>1, CodeIsLeft, NewestTime, ProductsLeft
<1>2. Cardinality(cogFiles) \in Nat /\ Cardinality(rawFiles) \in Nat
      /\ Cardinality(legendFiles) \in Nat /\ IsFiniteSet(legendFiles)
  BY ArchiveSizes
<1>3. CASE KeepLegend
  <2>1. /\ legendFiles' = legendFiles \cup {Code}
        /\ UNCHANGED <<image, cogFiles, rawFiles, frame, left, times, fetched,
                       newFrames, imageryFaults>>
        /\ collecting = "legend" /\ collecting' = "cog"
    BY <1>3 DEF KeepLegend
  <2>2. (counted' = counted /\ legendKnown) \/ counted' = counted + 1
    BY <1>3 DEF KeepLegend
  <2>3. ImageryTypeOK'
    <3>1. legendKnown' \in BOOLEAN
      BY <1>3, Zenon DEF KeepLegend
    <3>2. counted' \in Nat
      BY <1>0, <2>2
    <3> QED BY <1>1, <2>1, <3>1, <3>2 DEF ImageryTypeOK
  <2>4. WorkInv' /\ LegendInv' /\ ArchiveFinite'
    BY <1>1, <2>1 DEF WorkInv, LegendInv, ArchiveFinite, Fetching, Code
  <2>5. RoomInv'
    BY <1>0, <2>1, <2>2 DEF RoomInv, Fetching
  <2>6. ArchiveBytes' \in Nat /\ ArchiveBytes' + counted <= ArchiveBytes + counted'
    <3>1. CASE counted' = counted /\ legendKnown
      <4>1. legendFiles' = legendFiles
        BY <2>1, <3>1 DEF LegendInv
      <4> QED BY <1>0, <2>1, <3>1, <4>1 DEF ArchiveBytes
    <3>2. CASE counted' = counted + 1
      <4>1. /\ Cardinality(legendFiles') <= Cardinality(legendFiles) + 1
            /\ Cardinality(legendFiles') \in Nat
        BY <1>2, <2>1, OneFileMore
      <4> QED BY <1>0, <1>2, <2>1, <3>2, <4>1 DEF ArchiveBytes
    <3> QED BY <2>2, <3>1, <3>2
  <2>7. counted' \in Nat /\ counted + Reserve <= Budget
    BY <1>0, <2>1, <2>2 DEF RoomInv
  <2>8. ArchiveBytes' <= counted' + 2 * Cardinality(Products \ left)
    <3> DEFINE owed == 2 * Cardinality(Products \ left)
    <3>1. owed \in Nat /\ ArchiveBytes <= counted + owed
      BY <1>0, <2>1 DEF CountInv, InFlight
    <3>2. counted \in Nat /\ ArchiveBytes \in Nat /\ ArchiveBytes' \in Nat /\ counted' \in Nat
      BY <1>0, <2>6, <2>7
    <3>3. ArchiveBytes' <= counted' + owed
      <4>1. \A a, b, c, d, o \in Nat : a + c <= b + d /\ b <= c + o => a <= d + o
        OBVIOUS
      <4> HIDE DEF owed
      <4> QED BY <2>6, <3>1, <3>2, <4>1
    <3> QED BY <3>3
  <2>9. CountInv'
    BY <1>0, <2>1, <2>6, <2>7, <2>8 DEF CountInv, InFlight
  <2>10. ArchiveInBudget'
    BY <1>0, <1>1, <2>2, <2>6, <2>7, <2>8 DEF ArchiveInBudget
  <2> QED BY <2>3, <2>4, <2>5, <2>9, <2>10
<1>4. CASE MakeCog
  <2>1. PICK x : cogFiles' = cogFiles \cup {x}
    BY <1>4 DEF MakeCog
  <2>2. /\ collecting = "cog" /\ collecting' = "raw"
        /\ UNCHANGED <<image, rawFiles, legendFiles, frame, left, times, newFrames,
                       legendKnown, counted, imageryFaults>>
    BY <1>4 DEF MakeCog
  <2>3. /\ IsFiniteSet(cogFiles') /\ Cardinality(cogFiles') \in Nat
        /\ Cardinality(cogFiles') <= Cardinality(cogFiles) + 1
    BY <2>1, OneFileMore DEF ArchiveFinite
  <2>4. ArchiveBytes' \in Nat /\ ArchiveBytes' <= ArchiveBytes + 1
    BY <1>0, <1>2, <2>2, <2>3 DEF ArchiveBytes
  <2>5. fetched' = image[<<Code, Max(times)>>] /\ image[<<Code, Max(times)>>] \in Images
    <3>1. image[<<Code, Max(times)>>] \in Images \cup {0}
      BY <1>1 DEF ImageryTypeOK
    <3> QED BY <1>1, <1>4, <2>2, <3>1 DEF MakeCog, WorkInv
  <2>6. ImageryTypeOK'
    <3>1. cogFiles' \subseteq Frames
      BY <1>1, <1>4, <2>5 DEF MakeCog, ImageryTypeOK, Frames
    <3> QED BY <2>2, <2>5, <3>1 DEF ImageryTypeOK
  <2>7. ArchiveFinite'
    BY <2>2, <2>3 DEF ArchiveFinite
  <2>8. WorkInv'
    BY <1>1, <2>2, <2>5 DEF WorkInv, Fetching, Code
  <2>9. LegendInv'
    BY <2>2 DEF LegendInv, Code
  <2>10. RoomInv'
    BY <1>0, <2>2 DEF RoomInv, Fetching
  <2>11. CountInv' /\ ArchiveInBudget'
    BY <1>0, <1>1, <2>2, <2>4 DEF CountInv, InFlight, RoomInv, Fetching, ArchiveInBudget
  <2> QED BY <2>6, <2>7, <2>8, <2>9, <2>10, <2>11
<1>5. CASE KeepRaw
  <2>1. PICK x : rawFiles' = rawFiles \cup {x}
    BY <1>5 DEF KeepRaw
  <2>2. /\ collecting = "raw" /\ collecting' = "register"
        /\ UNCHANGED <<image, cogFiles, legendFiles, frame, left, times, fetched,
                       newFrames, legendKnown, counted, imageryFaults>>
    BY <1>5 DEF KeepRaw
  <2>3. /\ IsFiniteSet(rawFiles') /\ Cardinality(rawFiles') \in Nat
        /\ Cardinality(rawFiles') <= Cardinality(rawFiles) + 1
    BY <2>1, OneFileMore DEF ArchiveFinite
  <2>4. ArchiveBytes' \in Nat /\ ArchiveBytes' <= ArchiveBytes + 1
    BY <1>0, <1>2, <2>2, <2>3 DEF ArchiveBytes
  <2>5. fetched \in Images
    BY <2>2 DEF WorkInv, ImageryTypeOK
  <2>6. ImageryTypeOK'
    <3>1. rawFiles' \subseteq Frames
      BY <1>1, <1>5, <2>5 DEF KeepRaw, ImageryTypeOK, Frames
    <3> QED BY <2>2, <3>1 DEF ImageryTypeOK
  <2>7. ArchiveFinite'
    BY <2>2, <2>3 DEF ArchiveFinite
  <2>8. WorkInv'
    BY <1>1, <2>2, <2>5 DEF WorkInv, Fetching, Code
  <2>9. LegendInv'
    BY <2>2 DEF LegendInv, Code
  <2>10. RoomInv'
    BY <1>0, <2>2 DEF RoomInv, Fetching
  <2>11. CountInv' /\ ArchiveInBudget'
    BY <1>0, <1>1, <2>2, <2>4 DEF CountInv, InFlight, RoomInv, Fetching, ArchiveInBudget
  <2> QED BY <2>6, <2>7, <2>8, <2>9, <2>10, <2>11
<1> QED BY <1>3, <1>4, <1>5

\* A registered frame is counted, and owed no longer.
LEMMA RegisterInv == ASSUME ImageryInv, RegisterFrame PROVE ImageryInv'
<1> USE DEF ImageryInv
<1>1. /\ left # {} /\ times # {} /\ Code \in Products /\ Max(times) \in ValidTimes
  <2>1. left # {} /\ times # {}
    BY DEF RegisterFrame, WorkInv, Fetching
  <2> QED BY <2>1, CodeIsLeft, NewestTime
<1>2. /\ collecting = "register" /\ collecting' = "pick" /\ counted' = counted + 2
      /\ UNCHANGED <<image, archive, left, legendKnown, imageryFaults>>
      /\ times' \subseteq times /\ fetched' = 0
  BY DEF RegisterFrame
<1>3. newFrames' \in 0..FramesPerProduct /\ counted' \in Nat
  BY DEF RegisterFrame, WorkInv, ImageryTypeOK, Fetching
<1>4. frame' \in [Products \X ValidTimes -> Images \cup {0}]
  BY <1>1 DEF RegisterFrame, ImageryTypeOK
<1>5. ImageryTypeOK'
  BY <1>2, <1>3, <1>4 DEF ImageryTypeOK, archive
<1>6. WorkInv'
  <2>1. /\ \A t \in times : image[<<Code, t>>] # 0
        /\ Code' = Code
    BY <1>2 DEF WorkInv, Fetching, Code
  <2> QED BY <1>1, <1>2, <2>1 DEF WorkInv, Fetching
<1>7. LegendInv' /\ RoomInv'
  BY <1>2 DEF LegendInv, RoomInv, Fetching, Code, archive
<1>8. CountInv'
  <2>1. /\ ArchiveBytes \in Nat /\ counted \in Nat /\ Cardinality(Products \ left) \in Nat
    BY ArchiveSizes, ProductsLeft DEF ImageryTypeOK
  <2>2. ArchiveBytes' = ArchiveBytes
    BY <1>2 DEF archive, ArchiveBytes
  <2> QED BY <1>2, <2>1, <2>2 DEF CountInv, InFlight
<1> QED BY <1>2, <1>5, <1>6, <1>7, <1>8, FilesKeptInv

\* Every step keeps it.
LEMMA ImageryStepInv == ImageryInv /\ [ImageryNext]_imageryVars => ImageryInv'
<1> SUFFICES ASSUME ImageryInv, [ImageryNext]_imageryVars PROVE ImageryInv'
  OBVIOUS
<1>1. CASE FinishCollect
  BY <1>1, IdleInv DEF FinishCollect, ImageryInv, ImageryTypeOK
<1>2. CASE FailProduct
  <2>1. imageryFaults' \in 0..MaxImageryFaults
    BY <1>2 DEF FailProduct, ImageryFault, ImageryInv, ImageryTypeOK
  <2> QED BY <1>2, <2>1, LeaveInv DEF FailProduct
<1>3. CASE KillCollect
  <2>1. imageryFaults' \in 0..MaxImageryFaults
    BY <1>3 DEF KillCollect, ImageryFault, ImageryInv, ImageryTypeOK
  <2> QED BY <1>3, <2>1, IdleInv DEF KillCollect
<1>4. CASE UNCHANGED imageryVars
  <2>1. ImageryTypeOK'
    BY <1>4 DEF imageryVars, archive, collectorVars, ImageryInv, ImageryTypeOK
  <2>2. WorkInv'
    BY <1>4 DEF imageryVars, archive, collectorVars, ImageryInv, WorkInv, Code
  <2>3. LegendInv' /\ RoomInv' /\ CountInv'
    BY <1>4 DEF imageryVars, archive, collectorVars, ImageryInv, LegendInv, RoomInv,
                CountInv, InFlight, ArchiveBytes, Code
  <2> QED BY <1>4, <2>1, <2>2, <2>3, FilesKeptInv DEF imageryVars
<1> QED BY <1>1, <1>2, <1>3, <1>4, ChoiceInv, FetchInv, RegisterInv
        DEF ImageryNext, ImageryStep

-----------------------------------------------------------------------------
(* Theorems.                                                               *)

\* The invariant of the imagery archive holds in every reachable state.
THEOREM ImageryInvariant == ImagerySpec => []ImageryInv
BY ImageryInitInv, ImageryStepInv, PTL DEF ImagerySpec

\* The frames, the files and what the collector counts keep their types.
THEOREM ImageryTypeCorrect == ImagerySpec => []ImageryTypeOK
<1>1. ImageryInv => ImageryTypeOK
  BY DEF ImageryInv
<1> QED BY <1>1, ImageryInvariant, PTL

\* The imagery archive stays within its budget, whatever products fail, collectors
\* are killed and images are replaced between two attempts: what failed attempts
\* leave is counted from the disk when the next run starts, and within a run the
\* reserve covers it.
THEOREM BudgetHolds == ImagerySpec => []ArchiveInBudget
<1>1. ImageryInv => ArchiveInBudget
  BY DEF ImageryInv
<1> QED BY <1>1, ImageryInvariant, PTL

HIDE ImageryAssumption

-----------------------------------------------------------------------------
(***************************************************************************)
(* EvidenceArchive                                                         *)
(***************************************************************************)

USE ArchiveAssumption

-----------------------------------------------------------------------------
(* The inductive invariant.                                                *)

\* How far a run may be with its objects in a phase.
PhaseInv ==
    /\ \A o \in Objects : o \notin Asked => at[o] = "todo"
    /\ phase = "idle" => \A o \in Objects : at[o] = "todo"
    /\ phase = "list" => /\ script \in {"gfas", "gdex"}
                         /\ \A o \in Objects : at[o] \in {"todo", "wanted"}
    /\ phase = "select" => /\ script = "gfas"
                           /\ \A o \in Objects : at[o] \in {"todo", "wanted", "placed"}
    /\ phase = "write" => \A o \in Objects : at[o] \in {"todo", "done", "filed"}

\* What a run knows of an object by how far it is with it: the file it received
\* passed the first test of its script, the file in place is the one received,
\* and what is to be recorded passed the last.
RunInv ==
    \A o \in Objects :
        /\ phase # "list" /\ at[o] \in {"wanted", "open", "full"} => evidence[o] = Missing
        /\ at[o] = "full" =>
              got[o] \in Contents /\ Passes(Protocol.early, o, got[o])
        /\ at[o] \in {"placed", "done", "filed"} =>
              /\ got[o] \in Contents /\ evidence[o] = got[o]
              /\ Protocol.late = "any" => got[o].form = "whole"
        /\ at[o] \in {"done", "filed"} =>
              /\ Passes(Protocol.late, o, got[o])
              /\ script = "tropomi" => got[o].rev = catalogued[o]

\* The catalogue is never newer than the provider, and only one script has files
\* of the legacy layout.
SourceInv ==
    \A o \in Objects : /\ catalogued[o] <= revision[o]
                       /\ legacy[o] # Missing => script = "mcd64a1"

\* A recorded object is whole, as far as its script can tell, and is the file in
\* place; a TROPOMI granule may have been unlinked since its catalogue changed.
RecordInv ==
    \A o \in Objects : manifest[o] # Missing =>
        /\ IF script = "gfas" THEN HasLength(o, manifest[o])
                              ELSE manifest[o].form = "whole"
        /\ script = "tropomi" => manifest[o].rev <= catalogued[o]
        /\ \/ evidence[o] = manifest[o]
           \/ script = "tropomi" /\ manifest[o].rev < catalogued[o]

\* The invariant of an evidence archive.
EvidenceInv == EvidenceTypeOK /\ PhaseInv /\ RunInv /\ SourceInv /\ RecordInv

-----------------------------------------------------------------------------
(* Facts about the data.                                                   *)

\* What the protocols of the scripts have in common.
LEMMA Protocols ==
    ASSUME script \in ScriptNames
    PROVE  /\ Protocol.late \in {"any", "whole", "length"}
           /\ Protocol.late = "any" => Protocol.early = "whole" /\ Protocol.reuse = "whole"
           /\ Protocol.late = "length" <=> script = "gfas"
           /\ Protocol.mismatch = "unlink" <=> script = "tropomi"
           /\ Protocol.sizes = "catalogue" <=> script = "tropomi"
           /\ Protocol.sizes = "provider" <=> script = "gfas"
           /\ Protocol.sizes = "head" <=> script = "gdex"
           /\ Protocol.reuse \in {"any", "whole", "length"}
           /\ Protocol.reuse = "length" => \/ script \in {"gfas", "tropomi"}
                                           \/ Protocol.misfit = "raise"
           /\ script = "gfas" => Protocol.reuse = "length" /\ Protocol.misfit = "unlink"
           /\ script = "tropomi" => Protocol.reuse = "length" /\ Protocol.late = "whole"
<1> USE DEF Protocol, Plain
<1>1. CASE script = "airnow"
  BY <1>1 DEF AirNow
<1>2. CASE script = "aqs"
  BY <1>2 DEF Aqs
<1>3. CASE script = "naps"
  BY <1>3 DEF Naps
<1>4. CASE script = "ads"
  BY <1>4 DEF Ads
<1>5. CASE script = "tropomi"
  BY <1>5 DEF Tropomi
<1>6. CASE script = "mcd64a1"
  BY <1>6 DEF Mcd64a1
<1>7. CASE script = "burned"
  BY <1>7 DEF BurnedArea
<1>8. CASE script = "firem3"
  BY <1>8 DEF FireM3
<1>9. CASE script = "gfas"
  BY <1>9 DEF Gfas
<1>10. CASE script = "gdex"
  BY <1>10 DEF Gdex
<1> QED BY <1>1, <1>2, <1>3, <1>4, <1>5, <1>6, <1>7, <1>8, <1>9, <1>10 DEF ScriptNames

\* Nothing is not a content.
LEMMA MissingIsNone ==
    /\ Missing \notin Contents
    /\ \A c \in Contents : c.rev \in Revisions /\ c.rev # 0 /\ c.form \in Forms
BY DEF Missing, Contents, Forms

\* Revisions are numbers, also the 0 of what is not there.
LEMMA Numbers ==
    ASSUME EvidenceTypeOK, NEW o \in Objects
    PROVE  /\ catalogued[o] \in Nat /\ revision[o] \in Nat
           /\ manifest[o] # Missing => manifest[o] \in Contents /\ manifest[o].rev \in Nat \ {0}
<1>1. \A r \in Revisions : r \in Nat \ {0}
  OBVIOUS
<1>2. catalogued[o] \in Revisions \cup {0} /\ revision[o] \in Revisions
  BY DEF EvidenceTypeOK
<1>3. catalogued[o] \in Nat /\ revision[o] \in Nat
  <2>1. \A r \in Revisions \cup {0} : r \in Nat
    BY <1>1
  <2> QED BY <1>2, <2>1
<1>4. manifest[o] # Missing => manifest[o] \in Contents
  BY DEF EvidenceTypeOK
<1>5. manifest[o] # Missing => manifest[o].rev \in Revisions
  BY <1>4, MissingIsNone
<1> QED BY <1>1, <1>3, <1>4, <1>5

\* The tests depend on the script and the catalogue only.
LEMMA SameTests ==
    ASSUME UNCHANGED <<script, catalogued>>
    PROVE  /\ Protocol' = Protocol /\ Asked' = Asked
           /\ \A x, c : HasLength(x, c)' = HasLength(x, c)
           /\ \A t, x, c : Passes(t, x, c)' = Passes(t, x, c)
BY DEF Protocol, Asked, HasLength, Passes

\* What passes the tests is worth recording.
Worth(o, c) == IF script = "gfas" THEN HasLength(o, c) ELSE c.form = "whole"

\* A validated object is.
LEMMA ValidatedIsWorth ==
    ASSUME EvidenceInv, NEW o \in Objects, at[o] \in {"done", "filed"}
    PROVE  Worth(o, got[o])
<1>1. script \in ScriptNames
  BY DEF EvidenceInv, EvidenceTypeOK
<1>2. Passes(Protocol.late, o, got[o]) /\ (Protocol.late = "any" => got[o].form = "whole")
  BY DEF EvidenceInv, RunInv
<1> QED BY <1>1, <1>2, Protocols DEF Passes, Worth

-----------------------------------------------------------------------------
(* The invariant.                                                          *)

\* It holds in the first state.
LEMMA EvidenceInitInv == EvidenceInit => EvidenceInv
<1> SUFFICES ASSUME EvidenceInit PROVE EvidenceInv
  OBVIOUS
<1> USE DEF EvidenceInit
<1>1. legacy \in [Objects -> Contents \cup {Missing}]
  BY DEF Contents, Forms
<1>2. EvidenceTypeOK
  BY <1>1 DEF EvidenceTypeOK
<1>3. SourceInv
  BY DEF SourceInv
<1>4. PhaseInv /\ RunInv /\ RecordInv
  BY DEF PhaseInv, RunInv, RecordInv
<1> QED BY <1>2, <1>3, <1>4 DEF EvidenceInv

\* Every step of a run, and of its provider, keeps it.
LEMMA EvidenceStepInv == EvidenceInv /\ [EvidenceNext]_evidenceVars => EvidenceInv'
<1> SUFFICES ASSUME EvidenceInv, [EvidenceNext]_evidenceVars PROVE EvidenceInv'
  OBVIOUS
<1> USE DEF EvidenceInv
<1>0. script \in ScriptNames
  BY DEF EvidenceTypeOK
<1> USE DEF sourceVars, placeVars, runVars
<1>1. ASSUME NEW o \in Objects, ReviseObject(o) PROVE EvidenceInv'
  <2>1. PICK r \in Revisions : r > revision[o] /\ revision' = [revision EXCEPT ![o] = r]
    BY <1>1 DEF ReviseObject
  <2>2. UNCHANGED <<script, catalogued, placeVars, runVars, manifest, archiveFaults>>
    BY <1>1 DEF ReviseObject
  <2>3. \A x \in Objects : /\ catalogued[x] \in Nat /\ revision[x] \in Nat
                           /\ revision'[x] \in Nat /\ revision[x] <= revision'[x]
    <3> TAKE x \in Objects
    <3>1. catalogued[x] \in Nat /\ revision[x] \in Nat /\ r \in Nat
      BY Numbers
    <3>2. revision'[x] = IF x = o THEN r ELSE revision[x]
      BY <2>1 DEF EvidenceTypeOK
    <3> QED BY <2>1, <3>1, <3>2
  <2>4. EvidenceTypeOK'
    BY <2>1, <2>2 DEF EvidenceTypeOK
  <2>5. SourceInv'
    BY <2>2, <2>3 DEF SourceInv
  <2>6. PhaseInv'
    BY <2>2, SameTests DEF PhaseInv
  <2>7. RunInv'
    BY <2>2, SameTests DEF RunInv
  <2>8. RecordInv'
    BY <2>2, SameTests DEF RecordInv
  <2> QED BY <2>4, <2>5, <2>6, <2>7, <2>8
<1>2. CASE ListCatalogue
  <2> USE <1>2 DEF ListCatalogue
  <2>1. script = "tropomi"
    BY <1>0, Protocols
  <2>2. EvidenceTypeOK'
    BY DEF EvidenceTypeOK
  <2>3. \A x \in Objects : /\ catalogued[x] \in Nat /\ revision[x] \in Nat
                           /\ catalogued[x] <= revision[x] /\ catalogued'[x] = revision[x]
                           /\ manifest[x] # Missing => manifest[x].rev \in Nat
    BY Numbers DEF SourceInv
  <2>4. SourceInv'
    BY <2>3 DEF SourceInv
  <2>5. PhaseInv'
    BY DEF PhaseInv, Asked
  <2>6. RunInv'
    BY DEF PhaseInv, RunInv
  <2>7. RecordInv'
    BY <2>1, <2>3 DEF RecordInv
  <2> QED BY <2>2, <2>4, <2>5, <2>6, <2>7
<1>3. CASE StartRun
  <2> USE <1>3 DEF StartRun
  <2>1. EvidenceTypeOK' /\ SourceInv' /\ RecordInv'
    BY DEF EvidenceTypeOK, SourceInv, RecordInv, HasLength
  <2>2. PhaseInv'
    BY <1>0, Protocols, SameTests DEF PhaseInv
  <2>3. RunInv'
    BY DEF PhaseInv, RunInv
  <2> QED BY <2>1, <2>2, <2>3
<1>4. ASSUME NEW o \in Objects, AskSize(o) PROVE EvidenceInv'
  <2> USE <1>4 DEF AskSize
  <2>1. catalogued' \in [Objects -> Revisions \cup {0}]
    BY DEF EvidenceTypeOK
  <2>2. EvidenceTypeOK'
    BY <2>1 DEF EvidenceTypeOK
  <2>3. \A x \in Objects : catalogued'[x] \in {catalogued[x], revision[x]}
    BY DEF EvidenceTypeOK
  <2>4. SourceInv'
    <3>1. \A x \in Objects : catalogued[x] \in Nat /\ revision[x] \in Nat
      BY Numbers
    <3> QED BY <2>3, <3>1 DEF SourceInv
  <2>5. PhaseInv' /\ RunInv'
    <3>1. Asked' = Asked /\ o \in Asked
      BY DEF Asked, PhaseInv
    <3>2. \A x \in Objects : at'[x] \in {"todo", "wanted"} /\ (x # o => at'[x] = at[x])
      BY DEF PhaseInv, EvidenceTypeOK
    <3> QED BY <3>1, <3>2 DEF PhaseInv, RunInv
  <2>6. RecordInv'
    <3>1. CASE script = "gfas"
      <4>1. Protocol.sizes # "head"
        BY <1>0, <3>1, Protocols
      <4>2. \A x \in Objects : catalogued[x] # 0 => catalogued'[x] = catalogued[x]
        BY <4>1 DEF EvidenceTypeOK
      <4>3. \A x \in Objects : manifest[x] # Missing => manifest[x].rev # 0
        BY Numbers
      <4> QED BY <3>1, <4>2, <4>3 DEF RecordInv, HasLength
    <3>2. CASE script = "tropomi"
      <4>1. \A x \in Objects :
               /\ catalogued[x] \in Nat /\ revision[x] \in Nat /\ catalogued[x] <= revision[x]
               /\ manifest[x] # Missing => manifest[x].rev \in Nat
        BY Numbers DEF SourceInv
      <4> QED BY <2>3, <3>2, <4>1 DEF RecordInv
    <3>3. CASE script \notin {"gfas", "tropomi"}
      BY <3>3 DEF RecordInv
    <3> QED BY <3>1, <3>2, <3>3
  <2> QED BY <2>2, <2>4, <2>5, <2>6
<1>5. CASE SizesKnown
  <2> USE <1>5 DEF SizesKnown, NewRun
  <2>1. EvidenceTypeOK' /\ SourceInv' /\ RecordInv'
    BY DEF EvidenceTypeOK, SourceInv, RecordInv, HasLength
  <2>2. PhaseInv'
    BY <1>0, Protocols, SameTests DEF PhaseInv
  <2>3. RunInv'
    BY DEF RunInv
  <2> QED BY <2>1, <2>2, <2>3
<1>6. ASSUME NEW o \in Objects, MoveLegacy(o) PROVE EvidenceInv'
  <2> USE <1>6 DEF MoveLegacy
  <2>1. legacy[o] # Missing /\ script = "mcd64a1"
    BY DEF SourceInv, Missing
  <2>2. EvidenceTypeOK'
    BY DEF EvidenceTypeOK
  <2>3. SourceInv'
    BY DEF SourceInv, EvidenceTypeOK
  <2>4. PhaseInv'
    BY SameTests DEF PhaseInv
  <2>5. \A x \in Objects : x # o => evidence'[x] = evidence[x]
    BY DEF EvidenceTypeOK
  <2>6. RunInv'
    <3>1. \A x \in Objects : at[x] # "todo" => evidence'[x] = evidence[x]
      BY <2>5
    <3>2. UNCHANGED <<script, catalogued, phase, at, got>>
      OBVIOUS
    <3> QED BY <3>1, <3>2, SameTests DEF RunInv
  <2>7. RecordInv'
    BY <2>1, <2>5 DEF RecordInv
  <2> QED BY <2>2, <2>3, <2>4, <2>6, <2>7
<1>7. ASSUME NEW o \in Objects, LookAt(o) PROVE EvidenceInv'
  <2> DEFINE keeps == evidence[o] # Missing /\ Passes(Protocol.reuse, o, evidence[o])
             raises == evidence[o] # Missing /\ ~ keeps /\ Protocol.misfit = "raise"
  <2>1. /\ at[o] = "todo"
        /\ \/ keeps /\ Look(o, "placed", evidence[o]) /\ evidence' = evidence
           \/ raises /\ Look(o, "failed", Missing) /\ evidence' = evidence
           \/ /\ ~ keeps /\ ~ raises /\ Look(o, "wanted", Missing)
              /\ evidence' = [evidence EXCEPT ![o] = Missing]
        /\ UNCHANGED <<sourceVars, legacy, partFiles, phase, manifest, archiveFaults>>
        /\ phase = IF Protocol.sizes = "provider" THEN "select" ELSE "fetch"
    BY <1>7 DEF LookAt
  <2> HIDE DEF keeps, raises
  <2>2. EvidenceTypeOK'
    BY <2>1 DEF EvidenceTypeOK, Look
  <2>3. SourceInv'
    BY <2>1 DEF SourceInv
  <2>4. PhaseInv'
    <3>1. phase = "select" => script = "gfas" /\ ~ raises
      BY <1>0, Protocols DEF PhaseInv, raises
    <3>2. /\ phase \in {"select", "fetch"} /\ UNCHANGED <<script, catalogued, phase>>
          /\ o \in Asked
      BY <1>7, <2>1 DEF LookAt
    <3>3. at'[o] \in {"placed", "failed", "wanted"} /\ (at'[o] = "failed" => raises)
      BY <2>1 DEF Look, EvidenceTypeOK
    <3>4. \A x \in Objects : x # o => at'[x] = at[x]
      BY <2>1 DEF Look, EvidenceTypeOK
    <3> QED BY <3>1, <3>2, <3>3, <3>4, SameTests DEF PhaseInv
  <2>5. RunInv'
    <3>1. \A x \in Objects : x # o => /\ at'[x] = at[x] /\ got'[x] = got[x]
                                      /\ evidence'[x] = evidence[x]
      BY <2>1 DEF EvidenceTypeOK, Look
    <3>2. at'[o] \in {"placed", "failed", "wanted"} /\ phase # "list" /\ phase' = phase
      BY <2>1 DEF EvidenceTypeOK, Look
    <3>3. at'[o] = "wanted" => evidence'[o] = Missing
      BY <2>1 DEF EvidenceTypeOK, Look
    <3>4. at'[o] = "placed" => /\ got'[o] = evidence[o] /\ evidence'[o] = evidence[o]
                               /\ evidence[o] \in Contents
                               /\ Protocol.late = "any" => evidence[o].form = "whole"
      <4>1. at'[o] = "placed" => keeps /\ Look(o, "placed", evidence[o]) /\ evidence' = evidence
        BY <2>1 DEF EvidenceTypeOK, Look
      <4>2. keeps => /\ evidence[o] \in Contents
                     /\ Protocol.late = "any" => evidence[o].form = "whole"
        BY <1>0, Protocols DEF keeps, EvidenceTypeOK, Passes
      <4> QED BY <4>1, <4>2 DEF EvidenceTypeOK, Look
    <3>5. UNCHANGED <<script, catalogued>>
      BY <2>1
    <3> QED BY <3>1, <3>2, <3>3, <3>4, <3>5, SameTests DEF RunInv
  <2>6. RecordInv'
    <3>1. \A x \in Objects : x # o => evidence'[x] = evidence[x]
      BY <2>1 DEF EvidenceTypeOK
    <3>2. ASSUME manifest[o] # Missing, evidence'[o] # evidence[o]
          PROVE  script = "tropomi" /\ manifest[o].rev < catalogued[o]
      <4>1. ~ keeps /\ ~ raises
        BY <2>1, <3>2
      <4>2. manifest[o] \in Contents
        BY <3>2 DEF EvidenceTypeOK
      <4> SUFFICES ASSUME evidence[o] = manifest[o] PROVE script = "tropomi" /\ manifest[o].rev < catalogued[o]
        BY <3>2 DEF RecordInv
      <4>3. ~ Passes(Protocol.reuse, o, manifest[o]) /\ Protocol.misfit # "raise"
        BY <3>2, <4>1, <4>2 DEF keeps, raises
      <4>4. script = "tropomi"
        BY <1>0, <3>2, <4>3, Protocols DEF RecordInv, Passes
      <4>5. manifest[o].rev # catalogued[o] /\ manifest[o].rev <= catalogued[o]
        BY <1>0, <3>2, <4>3, <4>4, Protocols DEF RecordInv, Passes, HasLength
      <4>6. manifest[o].rev \in Nat /\ catalogued[o] \in Nat
        BY <3>2, Numbers
      <4> QED BY <4>4, <4>5, <4>6
    <3> QED BY <2>1, <3>1, <3>2 DEF RecordInv, HasLength
  <2> QED BY <2>2, <2>3, <2>4, <2>5, <2>6
<1>8. CASE FilesSelected
  <2> USE <1>8 DEF FilesSelected
  <2>1. EvidenceTypeOK' /\ SourceInv' /\ RecordInv'
    BY DEF EvidenceTypeOK, SourceInv, RecordInv, HasLength
  <2>2. PhaseInv'
    BY SameTests DEF PhaseInv
  <2>3. RunInv'
    BY SameTests DEF RunInv
  <2> QED BY <2>1, <2>2, <2>3
<1>9. ASSUME NEW o \in Objects, OpenEvidence(o) PROVE EvidenceInv'
  <2> USE <1>9 DEF OpenEvidence
  <2>1. EvidenceTypeOK' /\ SourceInv' /\ RecordInv'
    BY DEF EvidenceTypeOK, SourceInv, RecordInv, HasLength
  <2>2. PhaseInv'
    BY SameTests DEF PhaseInv, EvidenceTypeOK
  <2>3. RunInv'
    <3>1. /\ \A x \in Objects : x # o => at'[x] = at[x]
          /\ at'[o] \in {"wanted", "open", "failed"}
          /\ UNCHANGED <<script, catalogued, phase, got, evidence>>
          /\ at[o] \in {"wanted", "open"} /\ phase = "fetch"
      BY DEF EvidenceTypeOK
    <3> QED BY <3>1, SameTests DEF RunInv
  <2> QED BY <2>1, <2>2, <2>3
<1>10. ASSUME NEW o \in Objects, Receive(o) PROVE EvidenceInv'
  <2>1. PICK c \in Contents :
          /\ archiveFaults' \in 0..MaxArchiveFaults
          /\ Look(o, IF Passes(Protocol.early, o, c) THEN "full" ELSE "failed",
                  IF Passes(Protocol.early, o, c) THEN c ELSE Missing)
          /\ partFiles' \in {partFiles, partFiles \ {o}}
    BY <1>10 DEF Receive, EvidenceTypeOK
  <2>2. /\ phase = "fetch" /\ at[o] = "open"
        /\ UNCHANGED <<sourceVars, evidence, legacy, phase, manifest>>
    BY <1>10 DEF Receive
  <2> DEFINE fits == Passes(Protocol.early, o, c)
  <2>3. /\ at' = [at EXCEPT ![o] = IF fits THEN "full" ELSE "failed"]
        /\ got' = [got EXCEPT ![o] = IF fits THEN c ELSE Missing]
    BY <2>1 DEF Look
  <2>4. fits \in BOOLEAN
    BY DEF Passes, HasLength
  <2>5. (at'[o] = "full" => fits /\ got'[o] = c) /\ at'[o] \in {"full", "failed"}
    BY <2>3 DEF EvidenceTypeOK
  <2>6. Protocol' = Protocol
    BY <2>2, SameTests
  <2>7. EvidenceTypeOK'
    <3> HIDE DEF fits
    <3> QED BY <2>1, <2>2, <2>3, <2>4 DEF EvidenceTypeOK
  <2>8. SourceInv' /\ RecordInv'
    BY <2>2 DEF SourceInv, RecordInv, HasLength
  <2>9. PhaseInv'
    <3>1. o \in Asked /\ \A x \in Objects : x # o => at'[x] = at[x]
      BY <2>2, <2>3 DEF PhaseInv, EvidenceTypeOK
    <3> QED BY <2>2, <3>1, SameTests DEF PhaseInv
  <2>10. RunInv'
    <3>1. \A x \in Objects : x # o => at'[x] = at[x] /\ got'[x] = got[x]
      BY <2>3 DEF EvidenceTypeOK
    <3>2. \A x, t, d : Passes(t, x, d)' = Passes(t, x, d)
      BY <2>2, SameTests
    <3>3. at'[o] = "full" => got'[o] \in Contents /\ Passes(Protocol.early, o, got'[o])
      BY <2>5
    <3> HIDE DEF fits
    <3> QED BY <2>2, <2>5, <2>6, <3>1, <3>2, <3>3 DEF RunInv
  <2> QED BY <2>7, <2>8, <2>9, <2>10
<1>11. ASSUME NEW o \in Objects, BreakReceive(o) PROVE EvidenceInv'
  <2> USE <1>11 DEF BreakReceive
  <2>1. EvidenceTypeOK' /\ SourceInv' /\ RecordInv'
    BY DEF EvidenceTypeOK, SourceInv, RecordInv, HasLength
  <2>2. PhaseInv'
    BY SameTests DEF PhaseInv, EvidenceTypeOK
  <2>3. RunInv'
    <3>1. /\ \A x \in Objects : x # o => at'[x] = at[x]
          /\ at'[o] \in {"wanted", "open", "failed"}
          /\ UNCHANGED <<script, catalogued, phase, got, evidence>>
          /\ at[o] \in {"wanted", "open"} /\ phase = "fetch"
      BY DEF EvidenceTypeOK
    <3> QED BY <3>1, SameTests DEF RunInv
  <2> QED BY <2>1, <2>2, <2>3
<1>12. ASSUME NEW o \in Objects, PlaceEvidence(o) PROVE EvidenceInv'
  <2> USE <1>12 DEF PlaceEvidence
  <2>1. /\ got[o] \in Contents /\ evidence[o] = Missing
        /\ Protocol.late = "any" => got[o].form = "whole"
    BY <1>0, Protocols DEF RunInv, Passes
  <2>2. EvidenceTypeOK' /\ SourceInv'
    BY <2>1 DEF EvidenceTypeOK, SourceInv
  <2>3. PhaseInv'
    BY SameTests DEF PhaseInv, EvidenceTypeOK
  <2>4. RunInv'
    <3>1. \A x \in Objects : x # o => at'[x] = at[x] /\ evidence'[x] = evidence[x]
      BY DEF EvidenceTypeOK
    <3>2. at'[o] = "placed" /\ evidence'[o] = got[o]
      BY DEF EvidenceTypeOK
    <3>3. UNCHANGED <<script, catalogued, phase, got>> /\ phase = "fetch"
      OBVIOUS
    <3> QED BY <2>1, <3>1, <3>2, <3>3, SameTests DEF RunInv
  <2>5. RecordInv'
    <3>1. \A x \in Objects : x # o => evidence'[x] = evidence[x]
      BY DEF EvidenceTypeOK
    <3>2. manifest[o] # Missing => script = "tropomi" /\ manifest[o].rev < catalogued[o]
      BY <2>1 DEF RecordInv
    <3> QED BY <3>1, <3>2 DEF RecordInv, HasLength
  <2> QED BY <2>2, <2>3, <2>4, <2>5
<1>13. ASSUME NEW o \in Objects, Validate(o) PROVE EvidenceInv'
  <2> DEFINE unlinks == Protocol.mismatch = "unlink" /\ ~ HasLength(o, got[o])
             passes == ~ unlinks /\ Passes(Protocol.late, o, got[o])
  <2>1. /\ phase = "fetch" /\ at[o] = "placed"
        /\ evidence' = IF unlinks THEN [evidence EXCEPT ![o] = Missing] ELSE evidence
        /\ at' = [at EXCEPT ![o] = IF passes THEN "done" ELSE "failed"]
        /\ UNCHANGED <<sourceVars, legacy, partFiles, phase, got, manifest, archiveFaults>>
    BY <1>13 DEF Validate
  <2>2. /\ got[o] \in Contents /\ evidence[o] = got[o]
        /\ Protocol.late = "any" => got[o].form = "whole"
    BY <2>1 DEF RunInv
  <2>3. unlinks => script = "tropomi" /\ ~ HasLength(o, got[o])
    BY <1>0, Protocols
  <2>4. passes => /\ ~ unlinks /\ Passes(Protocol.late, o, got[o])
                  /\ script = "tropomi" => got[o].rev = catalogued[o]
    BY <1>0, Protocols DEF HasLength
  <2> HIDE DEF unlinks, passes
  <2>5. at'[o] \in {"done", "failed"} /\ (at'[o] = "done" => passes)
    BY <2>1 DEF EvidenceTypeOK
  <2>6. \A x \in Objects : x # o => at'[x] = at[x] /\ evidence'[x] = evidence[x]
    BY <2>1 DEF EvidenceTypeOK
  <2>7. EvidenceTypeOK' /\ SourceInv'
    BY <2>1 DEF EvidenceTypeOK, SourceInv
  <2>8. PhaseInv'
    BY <2>1, <2>6, SameTests DEF PhaseInv
  <2>9. RunInv'
    <3>1. passes => evidence' = evidence
      BY <2>1, <2>4
    <3> QED BY <2>1, <2>2, <2>4, <2>5, <2>6, <3>1, SameTests DEF RunInv
  <2>10. RecordInv'
    <3>1. ASSUME manifest[o] # Missing, unlinks
          PROVE  script = "tropomi" /\ manifest[o].rev < catalogued[o]
      <4> SUFFICES ASSUME evidence[o] = manifest[o] PROVE manifest[o].rev < catalogued[o]
        BY <2>3, <3>1 DEF RecordInv
      <4>1. script = "tropomi" /\ manifest[o].form = "whole" /\ manifest[o].rev <= catalogued[o]
        BY <2>3, <3>1 DEF RecordInv
      <4>2. manifest[o].rev # catalogued[o]
        BY <2>2, <2>3, <3>1, <4>1 DEF HasLength
      <4>3. manifest[o].rev \in Nat /\ catalogued[o] \in Nat
        BY <3>1, Numbers
      <4> QED BY <4>1, <4>2, <4>3
    <3>2. ~ unlinks => evidence' = evidence
      BY <2>1
    <3> QED BY <2>1, <2>6, <3>1, <3>2 DEF RecordInv, HasLength
  <2> QED BY <2>7, <2>8, <2>9, <2>10
<1>14. CASE EndFailedRun \/ EndRun \/ KillRun
  <2>1. /\ phase' = "idle" /\ NewRun /\ archiveFaults' \in 0..MaxArchiveFaults
        /\ UNCHANGED <<sourceVars, placeVars, manifest>>
    BY <1>14 DEF EndFailedRun, EndRun, KillRun, EvidenceTypeOK
  <2>2. EvidenceTypeOK'
    BY <2>1 DEF EvidenceTypeOK, NewRun
  <2>3. SourceInv' /\ RecordInv'
    BY <2>1 DEF SourceInv, RecordInv, HasLength
  <2>4. PhaseInv' /\ RunInv'
    BY <2>1, SameTests DEF PhaseInv, RunInv, NewRun
  <2> QED BY <2>2, <2>3, <2>4
<1>15. ASSUME NEW o \in Objects, WriteEvidence(o) PROVE EvidenceInv'
  <2> DEFINE now == IF script = "gdex" THEN {o} ELSE Asked
  <2>1. /\ phase' = "write" /\ at[o] = "done"
        /\ manifest' = [x \in Objects |-> IF x \in now THEN got[x] ELSE manifest[x]]
        /\ at' = [x \in Objects |-> IF x \in now THEN "filed" ELSE at[x]]
        /\ \A x \in Asked : at[x] \in {"done", "filed"}
        /\ phase \in {"fetch", "write"}
        /\ UNCHANGED <<sourceVars, placeVars, got, archiveFaults>>
    BY <1>15 DEF WriteEvidence
  <2>2. \A x \in Objects : x \in now => at[x] \in {"done", "filed"}
    BY <2>1
  <2>3. \A x \in Objects : x \notin Asked => at[x] = "todo"
    BY DEF PhaseInv
  <2>4. \A x \in Objects : x \in now => /\ got[x] \in Contents /\ evidence[x] = got[x]
                                        /\ Worth(x, got[x])
                                        /\ script = "tropomi" => got[x].rev = catalogued[x]
    BY <2>2, ValidatedIsWorth DEF RunInv
  <2>5. \A x \in Objects : /\ x \in now => at'[x] = "filed" /\ manifest'[x] = got[x]
                           /\ x \notin now => at'[x] = at[x] /\ manifest'[x] = manifest[x]
    BY <2>1
  <2>6. /\ at' \in [Objects -> {"todo", "wanted", "open", "full", "placed", "done", "filed",
                                "failed"}]
        /\ manifest' \in [Objects -> Contents \cup {Missing}]
    <3> HIDE DEF now
    <3> QED BY <2>1, <2>4 DEF EvidenceTypeOK
  <2>7. EvidenceTypeOK' /\ SourceInv'
    BY <2>1, <2>6 DEF EvidenceTypeOK, SourceInv
  <2>8. PhaseInv'
    <3>1. Asked' = Asked /\ now \subseteq Asked \cup {o}
      BY <2>1, SameTests
    <3>2. o \in Asked
      BY <2>1, <2>3
    <3> HIDE DEF now
    <3> QED BY <2>1, <2>3, <2>5, <3>1, <3>2 DEF PhaseInv
  <2> HIDE DEF now
  <2>9. RunInv'
    BY <2>1, <2>2, <2>5, SameTests DEF RunInv
  <2>10. RecordInv'
    <3>1. \A x \in Objects : catalogued[x] \in Nat
      BY Numbers
    <3> QED BY <2>1, <2>4, <2>5, <3>1, SameTests DEF RecordInv, Worth
  <2> QED BY <2>7, <2>8, <2>9, <2>10
<1>16. CASE UNCHANGED evidenceVars
  <2> USE <1>16 DEF evidenceVars
  <2>1. EvidenceTypeOK' /\ SourceInv' /\ RecordInv'
    BY SameTests DEF EvidenceTypeOK, SourceInv, RecordInv
  <2>2. PhaseInv' /\ RunInv'
    BY SameTests DEF PhaseInv, RunInv
  <2> QED BY <2>1, <2>2
<1> QED BY <1>1, <1>2, <1>3, <1>4, <1>5, <1>6, <1>7, <1>8, <1>9, <1>10, <1>11, <1>12, <1>13,
           <1>14, <1>15, <1>16 DEF EvidenceNext

-----------------------------------------------------------------------------
(* Theorems.                                                               *)

\* The invariant of an evidence archive holds in every reachable state, for each
\* of the ten scripts.
THEOREM EvidenceInvariant == EvidenceSpec => []EvidenceInv
BY EvidenceInitInv, EvidenceStepInv, PTL DEF EvidenceSpec

\* The files, the runs and the manifests keep their types.
THEOREM EvidenceTypeCorrect == EvidenceSpec => []EvidenceTypeOK
<1>1. EvidenceInv => EvidenceTypeOK
  BY DEF EvidenceInv
<1> QED BY <1>1, EvidenceInvariant, PTL

\* What a manifest records is whole, up to the test its script makes, and is still
\* in place: a run that is killed, a transfer that breaks, an object that is
\* revised or a file left in the legacy layout never makes it otherwise.
THEOREM RecordedWhole == EvidenceSpec => []RecordedIsWhole
<1>1. EvidenceInv => RecordedIsWhole
  <2> SUFFICES ASSUME EvidenceInv, NEW o \in Objects, manifest[o] # Missing
               PROVE  /\ IF script = "gfas" THEN HasLength(o, manifest[o])
                                            ELSE manifest[o].form = "whole"
                      /\ \/ evidence[o] = manifest[o]
                         \/ script = "tropomi" /\ catalogued[o] # manifest[o].rev
    BY DEF RecordedIsWhole
  <2>1. catalogued[o] \in Nat /\ manifest[o].rev \in Nat
    BY Numbers DEF EvidenceInv
  <2> QED BY <2>1 DEF EvidenceInv, RecordInv
<1> QED BY <1>1, EvidenceInvariant, PTL

HIDE ArchiveAssumption

-----------------------------------------------------------------------------
(***************************************************************************)
(* The feeds together                                                      *)
(***************************************************************************)

\* A behaviour takes the steps of one feed: they share no state.
GfsSteps ==
    \/ GfsOffer \/ GfsDiscoverCycles \/ GfsBackfill \/ GfsStartFetch \/ GfsOpenPart
    \/ GfsReceiveAll \/ GfsCheckPlace \/ GfsMovePart \/ GfsValidateGrid
    \/ GfsBreakTransfer \/ GfsKillAttempt \/ GfsEndDownloads \/ GfsWriteManifest
    \/ GfsReadLatest \/ GfsWriteLatest \/ GfsKillPublisher

HotspotSteps ==
    \/ HotRevise \/ HotDiscoverDays \/ HotFetchDay \/ HotNormalizeDay
    \/ HotWriteDayManifest \/ HotBreakIngest \/ HotEndIngest \/ HotCopyLatest
    \/ HotPointLatest \/ HotKillPublish

DangerSteps ==
    \/ CffServe \/ CffCollectRecent \/ CffBackfillGrids \/ CffStartDate
    \/ CffClearPart \/ CffOpenGridPart \/ CffReceiveGrid \/ CffValidatePart
    \/ CffReplaceGrid \/ CffCleanPart \/ CffWriteTriplet \/ CffBreakGrid
    \/ CffKillCollector

EventSteps ==
    \/ EvtCluster

BulletinsSteps ==
    \/ BulIssueBulletin \/ BulLeaveListing \/ BulMonthPasses \/ BulDiscoverSites
    \/ BulDownloadSite \/ BulMakeSnapshot \/ BulArchiveSnapshots \/ BulWriteSnapshot \/ BulWriteSites
    \/ BulReadSnapshot \/ BulListArchives \/ BulImportArchives \/ BulPublishRegion
    \/ BulFinishPrepare \/ BulListExpired \/ BulDeleteRows \/ BulUnlinkExpired
    \/ BulKillCity \/ BulKillPrepare \/ BulKillRetention

ImagerySteps ==
    \/ ImgObserve \/ ImgStartCollect \/ ImgAskTimes \/ ImgPickFrame \/ ImgKeepLegend
    \/ ImgMakeCog \/ ImgKeepRaw \/ ImgRegisterFrame \/ ImgFinishCollect
    \/ ImgFailProduct \/ ImgKillCollect

EvidenceSteps ==
    \/ EviReviseObject \/ EviListCatalogue \/ EviStartRun \/ EviAskSize
    \/ EviSizesKnown \/ EviMoveLegacy \/ EviLookAt \/ EviFilesSelected
    \/ EviOpenEvidence \/ EviReceive \/ EviBreakReceive \/ EviPlaceEvidence
    \/ EviValidate \/ EviEndFailedRun \/ EviWriteEvidence \/ EviEndRun \/ EviKillRun

\* Every step is one of a feed.
LEMMA StepOfOneFeed ==
    FeedsNext => \/ GfsSteps \/ HotspotSteps \/ DangerSteps \/ EventSteps
                 \/ BulletinsSteps \/ ImagerySteps \/ EvidenceSteps
BY DEF FeedsNext, GfsSteps, HotspotSteps, DangerSteps, EventSteps, BulletinsSteps,
       ImagerySteps, EvidenceSteps

\* A step of the GFS collection is one of its module,
\* and leaves the other feeds alone.
LEMMA GfsStepsApart ==
    GfsSteps =>
        /\ GfsNext
        /\ UNCHANGED <<hotspotVars, dangerVars, eventVars, bulletinVars, imageryVars,
                       evidenceVars>>
BY DEF GfsSteps, Gfs, FetchStep, PublishStep, GfsNext, GfsOffer, GfsDiscoverCycles,
       GfsBackfill, GfsStartFetch, GfsOpenPart, GfsReceiveAll, GfsCheckPlace,
       GfsMovePart, GfsValidateGrid, GfsBreakTransfer, GfsKillAttempt,
       GfsEndDownloads, GfsWriteManifest, GfsReadLatest, GfsWriteLatest,
       GfsKillPublisher

\* A step of the hotspots is one of its module,
\* and leaves the other feeds alone.
LEMMA HotspotStepsApart ==
    HotspotSteps =>
        /\ HotspotNext
        /\ UNCHANGED <<gfsVars, dangerVars, eventVars, bulletinVars, imageryVars,
                       evidenceVars>>
BY DEF HotspotSteps, Hot, HotspotDagStep, IngestStep, HotspotNext, HotRevise,
       HotDiscoverDays, HotFetchDay, HotNormalizeDay, HotWriteDayManifest,
       HotBreakIngest, HotEndIngest, HotCopyLatest, HotPointLatest, HotKillPublish

\* A step of the fire danger grids is one of its module,
\* and leaves the other feeds alone.
LEMMA DangerStepsApart ==
    DangerSteps =>
        /\ DangerNext
        /\ UNCHANGED <<gfsVars, hotspotVars, eventVars, bulletinVars, imageryVars,
                       evidenceVars>>
BY DEF DangerSteps, Cff, CollectorStep, DangerNext, CffServe, CffCollectRecent,
       CffBackfillGrids, CffStartDate, CffClearPart, CffOpenGridPart, CffReceiveGrid,
       CffValidatePart, CffReplaceGrid, CffCleanPart, CffWriteTriplet, CffBreakGrid,
       CffKillCollector

\* A step of the fire events is one of its module,
\* and leaves the other feeds alone.
LEMMA EventStepsApart ==
    EventSteps =>
        /\ EventNext
        /\ UNCHANGED <<gfsVars, hotspotVars, dangerVars, bulletinVars, imageryVars,
                       evidenceVars>>
BY DEF EventSteps, Evt, EventNext, EvtCluster

\* A step of the city forecasts is one of its module,
\* and leaves the other feeds alone.
LEMMA BulletinsStepsApart ==
    BulletinsSteps =>
        /\ BulletinsNext
        /\ UNCHANGED <<gfsVars, hotspotVars, dangerVars, eventVars, imageryVars,
                       evidenceVars>>
BY DEF BulletinsSteps, Bul, CityStep, PrepareStep, RetentionStep, BulletinsNext,
       BulIssueBulletin, BulLeaveListing, BulMonthPasses, BulDiscoverSites,
       BulDownloadSite, BulMakeSnapshot, BulArchiveSnapshots, BulWriteSnapshot, BulWriteSites,
       BulReadSnapshot, BulListArchives, BulImportArchives, BulPublishRegion,
       BulFinishPrepare, BulListExpired, BulDeleteRows, BulUnlinkExpired,
       BulKillCity, BulKillPrepare, BulKillRetention

\* A step of the imagery is one of its module,
\* and leaves the other feeds alone.
LEMMA ImageryStepsApart ==
    ImagerySteps =>
        /\ ImageryNext
        /\ UNCHANGED <<gfsVars, hotspotVars, dangerVars, eventVars, bulletinVars,
                       evidenceVars>>
BY DEF ImagerySteps, Img, ImageryStep, ImageryNext, ImgObserve, ImgStartCollect,
       ImgAskTimes, ImgPickFrame, ImgKeepLegend, ImgMakeCog, ImgKeepRaw,
       ImgRegisterFrame, ImgFinishCollect, ImgFailProduct, ImgKillCollect

\* A step of the evidence archives is one of its module,
\* and leaves the other feeds alone.
LEMMA EvidenceStepsApart ==
    EvidenceSteps =>
        /\ EvidenceNext
        /\ UNCHANGED <<gfsVars, hotspotVars, dangerVars, eventVars, bulletinVars,
                       imageryVars>>
BY DEF EvidenceSteps, Evi, EvidenceNext, EviReviseObject, EviListCatalogue,
       EviStartRun, EviAskSize, EviSizesKnown, EviMoveLegacy, EviLookAt,
       EviFilesSelected, EviOpenEvidence, EviReceive, EviBreakReceive,
       EviPlaceEvidence, EviValidate, EviEndFailedRun, EviWriteEvidence, EviEndRun,
       EviKillRun

\* Beside each other the feeds behave as each does alone: what is proved of a feed
\* holds of it here.
THEOREM FeedsRunApart ==
    FeedsSpec => /\ GfsSpec /\ HotspotSpec /\ DangerSpec /\ EventSpec
                 /\ BulletinsSpec /\ ImagerySpec /\ EvidenceSpec
<1>1. FeedsInit => /\ GfsInit /\ HotspotInit /\ DangerInit /\ EventInit
                   /\ BulletinsInit /\ ImageryInit /\ EvidenceInit
  BY DEF FeedsInit
<1>2. [FeedsNext]_feedsVars =>
        /\ [GfsNext]_gfsVars /\ [HotspotNext]_hotspotVars /\ [DangerNext]_dangerVars
        /\ [EventNext]_eventVars /\ [BulletinsNext]_bulletinVars
        /\ [ImageryNext]_imageryVars /\ [EvidenceNext]_evidenceVars
  <2>1. UNCHANGED feedsVars =>
          UNCHANGED <<gfsVars, hotspotVars, dangerVars, eventVars, bulletinVars,
                      imageryVars, evidenceVars>>
    BY DEF feedsVars
  <2> QED BY <2>1, StepOfOneFeed, GfsStepsApart, HotspotStepsApart, DangerStepsApart,
             EventStepsApart, BulletinsStepsApart, ImageryStepsApart, EvidenceStepsApart
<1>3. FeedsSpec => FeedsInit /\ [][FeedsNext]_feedsVars
  BY PTL DEF FeedsSpec
<1> QED BY <1>1, <1>2, <1>3, PTL
        DEF GfsSpec, HotspotSpec, DangerSpec, EventSpec, BulletinsSpec, ImagerySpec,
            EvidenceSpec

\* The files, tables and processes of all feeds keep their types.
THEOREM FeedsTypeCorrect == ASSUME TwoCollectors PROVE FeedsSpec => []FeedsTypeOK
<1>1. /\ GfsTypeOK /\ HotspotTypeOK /\ DangerTypeOK /\ EventTypeOK
      /\ BulletinsTypeOK /\ ImageryTypeOK /\ EvidenceTypeOK
      => FeedsTypeOK
  BY DEF FeedsTypeOK
<1> QED BY <1>1, FeedsRunApart, GfsTypeCorrect, HotspotTypeCorrect, DangerTypeCorrect,
           EventTypeCorrect, BulletinsTypeCorrect, ImageryTypeCorrect,
           EvidenceTypeCorrect, PTL

\* So does what each feed promises: its invariants, and what its steps never do.
THEOREM FeedsSafe ==
    ASSUME TwoCollectors
    PROVE  FeedsSpec => /\ []PublishedCyclesAreWhole /\ []LatestIsNewest
                        /\ []PointerNotAhead
                        /\ []TripletsWhole
                        /\ []EventsAreComponents /\ []NearestAreNearest
                        /\ BulletinKept /\ ChangesNeverBack
                        /\ []ArchiveInBudget
                        /\ []RecordedIsWhole
BY FeedsRunApart, PublishedIsWhole, LatestStaysNewest, PointerFollowsFile,
   TripletsAreWhole, EventsWhole, NearestFound, KeptForAMonth, ChangesMoveForward,
   BudgetHolds, RecordedWhole, PTL
=============================================================================
