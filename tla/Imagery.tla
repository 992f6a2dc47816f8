------------------------------- MODULE Imagery -------------------------------
(***************************************************************************)
(* The DAG eccc_imagery_ingest and ingest_imagery: radar and satellite     *)
(* images become COGs in an archive that is never pruned, and must stop at *)
(* its budget.  Failed attempts leave files without a row behind.          *)
(*                                                                         *)
(* max_active_runs=1: one collector.  Sizes are in units of one file; the  *)
(* XML kept with a PNG counts with it.                                     *)
(***************************************************************************)
EXTENDS Naturals, FiniteSets, FiniteSetsExt

CONSTANTS
    Products,           \* configured and enabled products, in their order
    ValidTimes,         \* valid times inside the lookback window
    Images,             \* contents the provider may serve for a time
    FramesPerProduct,   \* max_new_frames_per_product
    Reserve,            \* room asked for before a frame is fetched
    Budget,             \* maximum_archive_bytes
    MaxImageryFaults    \* bound: products that fail, collectors that are killed

ASSUME ImageryAssumption ==
    /\ Products \subseteq Nat /\ IsFiniteSet(Products)
    /\ ValidTimes \subseteq Nat /\ IsFiniteSet(ValidTimes)
    /\ Images \subseteq Nat \ {0}
    /\ FramesPerProduct \in Nat \ {0}
    /\ Reserve \in Nat /\ Budget \in Nat
    \* 256 MiB hold a legend (4 MiB at most) and, for each of the three products,
    \* a PNG (32), its XML (8) and the COG of 2048x1536 pixels.
    /\ Reserve >= 2 * Cardinality(Products) + 1
    /\ MaxImageryFaults \in Nat

VARIABLES
    image,          \* what GeoMet serves, 0 when it does not advertise the time
    cogFiles, rawFiles, legendFiles,
    frame,          \* the image the row of a product and a time is for, or 0
    collecting,     \* what the collector is doing
    left,           \* products it has still to do, the first is at work
    times,          \* times of this product still to look at
    fetched,        \* the image of the frame at work
    newFrames,      \* frames registered for this product
    legendKnown,    \* legend_path is set
    counted,        \* archive_bytes
    imageryFaults

archive == <<cogFiles, rawFiles, legendFiles>>
collectorVars == <<left, times, fetched, newFrames, legendKnown>>
imageryVars == <<image, archive, frame, collecting, collectorVars, counted,
                 imageryFaults>>

\* A frame's id is made of the product, the time and the image's checksum.
Frames == Products \X ValidTimes \X Images

ImageryTypeOK ==
    /\ image \in [Products \X ValidTimes -> Images \cup {0}]
    /\ cogFiles \subseteq Frames /\ rawFiles \subseteq Frames
    /\ legendFiles \subseteq Products
    /\ frame \in [Products \X ValidTimes -> Images \cup {0}]
    /\ collecting \in {"idle", "ask", "pick", "legend", "cog", "raw", "register"}
    /\ left \subseteq Products
    /\ times \subseteq ValidTimes
    /\ fetched \in Images \cup {0}
    /\ newFrames \in 0..FramesPerProduct
    /\ legendKnown \in BOOLEAN
    /\ counted \in Nat
    /\ imageryFaults \in 0..MaxImageryFaults

ImageryInit ==
    /\ image = [x \in Products \X ValidTimes |-> 0]
    /\ cogFiles = {} /\ rawFiles = {} /\ legendFiles = {}
    /\ frame = [x \in Products \X ValidTimes |-> 0]
    /\ collecting = "idle"
    /\ left = {} /\ times = {} /\ fetched = 0 /\ newFrames = 0
    /\ legendKnown = FALSE
    /\ counted = 0
    /\ imageryFaults = 0

ArchiveBytes ==
    Cardinality(cogFiles) + Cardinality(rawFiles) + Cardinality(legendFiles)

-----------------------------------------------------------------------------
\* GeoMet advertises a time, or serves another image for it.
Observe(p, t) ==
    /\ \E i \in Images : i > image[<<p, t>>] /\ image' = [image EXCEPT ![<<p, t>>] = i]
    /\ UNCHANGED <<archive, frame, collecting, collectorVars, counted, imageryFaults>>

-----------------------------------------------------------------------------
(* ingest_imagery.                                                         *)

Idle ==
    /\ collecting' = "idle"
    /\ left' = {} /\ times' = {} /\ fetched' = 0 /\ newFrames' = 0
    /\ legendKnown' = FALSE
    /\ counted' = 0

\* Mutant: only the files of registered frames are accounted.
StartFromRows ==
    /\ collecting = "idle"
    /\ collecting' = "ask"
    /\ left' = Products
    /\ counted' = Cardinality(legendFiles)
                    + 2 * Cardinality({x \in Products \X ValidTimes : frame[x] # 0})
    /\ UNCHANGED <<image, archive, frame, times, fetched, newFrames, legendKnown,
                   imageryFaults>>

\* The archive is counted from the disk.
StartCollect ==
    /\ collecting = "idle"
    /\ collecting' = "ask"
    /\ left' = Products
    /\ counted' = ArchiveBytes
    /\ UNCHANGED <<image, archive, frame, times, fetched, newFrames, legendKnown,
                   imageryFaults>>

Code == Min(left)

\* GetCapabilities and available_times.
AskTimes ==
    /\ collecting = "ask"
    /\ left # {}
    /\ times' = {t \in ValidTimes : image[<<Code, t>>] # 0}
    /\ newFrames' = 0
    /\ legendKnown' = FALSE
    /\ collecting' = "pick"
    /\ UNCHANGED <<image, archive, frame, left, fetched, counted, imageryFaults>>

\* The product is done, or its exception is noted: the next product.
LeaveProduct ==
    /\ collecting' = "ask"
    /\ left' = left \ {Code}
    /\ times' = {} /\ fetched' = 0 /\ newFrames' = 0 /\ legendKnown' = FALSE
    /\ UNCHANGED counted

\* The newest time first: skip it, stop at the limit or the budget, or fetch.
PickFrame ==
    /\ collecting = "pick"
    /\ IF times # {} /\ frame[<<Code, Max(times)>>] # 0
       THEN /\ times' = times \ {Max(times)}
            /\ UNCHANGED <<collecting, left, fetched, newFrames, legendKnown, counted>>
       ELSE IF \/ times = {}
               \/ newFrames >= FramesPerProduct
               \/ counted + Reserve > Budget
       THEN LeaveProduct
       ELSE /\ collecting' = "legend"
            /\ UNCHANGED <<left, times, fetched, newFrames, legendKnown, counted>>
    /\ UNCHANGED <<image, archive, frame, imageryFaults>>

\* Once per product; a legend that is there is replaced and counted again.
KeepLegend ==
    /\ collecting = "legend"
    /\ legendFiles' = legendFiles \cup {Code}
    /\ legendKnown' = TRUE
    /\ counted' = IF legendKnown THEN counted ELSE counted + 1
    /\ collecting' = "cog"
    /\ UNCHANGED <<image, cogFiles, rawFiles, frame, left, times, fetched,
                   newFrames, imageryFaults>>

\* GetMap and create_cog
MakeCog ==
    /\ collecting = "cog"
    /\ fetched' = image[<<Code, Max(times)>>]
    /\ cogFiles' = cogFiles \cup {<<Code, Max(times), fetched'>>}
    /\ collecting' = "raw"
    /\ UNCHANGED <<image, rawFiles, legendFiles, frame, left, times, newFrames,
                   legendKnown, counted, imageryFaults>>

KeepRaw ==
    /\ collecting = "raw"
    /\ rawFiles' = rawFiles \cup {<<Code, Max(times), fetched>>}
    /\ collecting' = "register"
    /\ UNCHANGED <<image, cogFiles, legendFiles, frame, left, times, fetched,
                   newFrames, legendKnown, counted, imageryFaults>>

\* register.sql: ON CONFLICT DO NOTHING
RegisterFrame ==
    /\ collecting = "register"
    /\ frame' = [frame EXCEPT ![<<Code, Max(times)>>] = IF @ = 0 THEN fetched ELSE @]
    /\ counted' = counted + 2
    /\ newFrames' = newFrames + 1
    /\ times' = times \ {Max(times)}
    /\ fetched' = 0
    /\ collecting' = "pick"
    /\ UNCHANGED <<image, archive, left, legendKnown, imageryFaults>>

FinishCollect ==
    /\ collecting = "ask"
    /\ left = {}
    /\ Idle
    /\ UNCHANGED <<image, archive, frame, imageryFaults>>

ImageryFault == imageryFaults < MaxImageryFaults /\ imageryFaults' = imageryFaults + 1

\* An exception anywhere in a product: its files stay, uncounted.
FailProduct ==
    /\ ImageryFault
    /\ collecting # "idle" /\ left # {}
    /\ LeaveProduct
    /\ UNCHANGED <<image, archive, frame>>

KillCollect ==
    /\ ImageryFault
    /\ collecting # "idle"
    /\ Idle
    /\ UNCHANGED <<image, archive, frame>>

-----------------------------------------------------------------------------
ImageryStep ==
    \/ StartCollect \/ AskTimes \/ PickFrame \/ KeepLegend \/ MakeCog \/ KeepRaw
    \/ RegisterFrame \/ FinishCollect

ImageryNext ==
    \/ ImageryStep
    \/ \E p \in Products, t \in ValidTimes : Observe(p, t)
    \/ FailProduct \/ KillCollect

ImagerySpec == ImageryInit /\ [][ImageryNext]_imageryVars

-----------------------------------------------------------------------------
(* Properties.                                                             *)

\* docs/imagery-and-ios.md: at most 100 GiB in the imagery archive.  The files
\* failed attempts left, and those of images that were replaced before they
\* could be registered, never push the archive over its budget.
ArchiveInBudget == ArchiveBytes <= Budget
=============================================================================
