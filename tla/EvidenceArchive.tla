--------------------------- MODULE EvidenceArchive ---------------------------
(***************************************************************************)
(* The scripts that collect the observations and reference emissions the   *)
(* smoke model is judged by.  An operator runs them, and runs them again   *)
(* after a failure: files that are there are kept, the rest is fetched,    *)
(* and a manifest with every file's checksum is written when all are       *)
(* there.  The scripts follow one scheme and differ in when they look at   *)
(* what they received; their differences are the Protocol.                 *)
(*                                                                         *)
(* A behaviour is about one script.  Two operators do not run the same     *)
(* script at once.                                                         *)
(***************************************************************************)
EXTENDS Naturals

CONSTANTS
    Scripts,            \* the scripts in this instance
    Objects,            \* files a script is asked for
    Revisions,          \* revisions the provider may publish of an object
    MaxArchiveFaults    \* bound: bad answers, broken transfers, killed runs

ScriptNames == {"airnow", "aqs", "tropomi", "mcd64a1", "burned", "firem3",
                "naps", "ads", "gfas", "gdex"}

ASSUME ArchiveAssumption ==
    /\ Scripts \subseteq ScriptNames
    /\ Revisions \subseteq Nat \ {0} /\ 1 \in Revisions
    /\ MaxArchiveFaults \in Nat

VARIABLES
    script,         \* the script this behaviour is about
    revision,       \* what the provider has
    catalogued,     \* revision in the catalogue or provider manifest kept here
    evidence,       \* files at their final path
    legacy,         \* a file at the path an earlier version of the script used
    partFiles,      \* objects with a .part file
    phase,          \* what the run is doing
    at,             \* how far the run is with an object
    got,            \* what it has received or found
    manifest,       \* the content recorded of an object
    archiveFaults

sourceVars == <<script, revision, catalogued>>
placeVars == <<evidence, legacy, partFiles>>
runVars == <<phase, at, got>>
evidenceVars == <<sourceVars, placeVars, runVars, manifest, archiveFaults>>

\* A "short" answer has another length than the object, an "odd" one has its
\* length; the script's own validation refuses both.
Forms == {"whole", "odd", "short"}
Contents == [rev : Revisions, form : Forms]
Missing == [rev |-> 0, form |-> "missing"]

-----------------------------------------------------------------------------
(* The scripts.  reuse: what an existing file must pass to be kept;        *)
(* misfit: what becomes of one that does not; early and late: what must    *)
(* hold before the rename and after it; mismatch: what becomes of a placed *)
(* file of another length; together: late waits for all the files;         *)
(* retry: a broken transfer is tried again; sizes: where the expected      *)
(* lengths come from.                                                      *)

Plain == [reuse |-> "any", misfit |-> "none", early |-> "any", late |-> "whole",
          mismatch |-> "stays", together |-> FALSE, retry |-> TRUE, sizes |-> "none"]

AirNow == Plain
Aqs == Plain
Naps == [Plain EXCEPT !.retry = FALSE]
Ads == [Plain EXCEPT !.retry = FALSE]
Tropomi == [Plain EXCEPT !.reuse = "length", !.misfit = "unlink",
                         !.mismatch = "unlink", !.sizes = "catalogue"]
Mcd64a1 == [Plain EXCEPT !.reuse = "whole", !.misfit = "unlink", !.early = "whole",
                         !.late = "any", !.retry = FALSE]
BurnedArea == [Plain EXCEPT !.reuse = "whole", !.misfit = "unlink", !.early = "whole",
                            !.late = "any", !.retry = FALSE]
\* Mutant: the archive is validated when it is reused, not when it is received.
FireM3Unvalidated == [Plain EXCEPT !.reuse = "whole", !.misfit = "raise", !.late = "any"]
FireM3 == [Plain EXCEPT !.reuse = "whole", !.misfit = "raise", !.early = "whole",
                        !.late = "any"]
Gfas == [Plain EXCEPT !.reuse = "length", !.misfit = "unlink", !.late = "length",
                      !.together = TRUE, !.sizes = "provider"]
Gdex == [Plain EXCEPT !.reuse = "length", !.misfit = "raise", !.early = "length",
                      !.together = TRUE, !.sizes = "head"]

Protocol == CASE script = "airnow" -> AirNow
              [] script = "aqs" -> Aqs
              [] script = "naps" -> Naps
              [] script = "ads" -> Ads
              [] script = "tropomi" -> Tropomi
              [] script = "mcd64a1" -> Mcd64a1
              [] script = "burned" -> BurnedArea
              [] script = "firem3" -> FireM3
              [] script = "gfas" -> Gfas
              [] script = "gdex" -> Gdex

HasLength(o, c) == c.form # "short" /\ c.rev = catalogued[o]

\* A content of an object passes a test.
Passes(test, o, c) ==
    \/ test = "any"
    \/ test = "whole" /\ c.form = "whole"
    \/ test = "length" /\ HasLength(o, c)

\* A run of the NAPS or the Fire M3 script is for one file.
Asked == IF script \in {"naps", "firem3"} THEN {CHOOSE o \in Objects : TRUE} ELSE Objects

\* A fresh run has looked at nothing.
NewRun == /\ at' = [o \in Objects |-> "todo"]
          /\ got' = [o \in Objects |-> Missing]

EvidenceTypeOK ==
    /\ script \in Scripts
    /\ revision \in [Objects -> Revisions]
    /\ catalogued \in [Objects -> Revisions \cup {0}]
    /\ evidence \in [Objects -> Contents \cup {Missing}]
    /\ legacy \in [Objects -> Contents \cup {Missing}]
    /\ partFiles \subseteq Objects
    /\ phase \in {"idle", "list", "select", "fetch", "write"}
    /\ at \in [Objects -> {"todo", "wanted", "open", "full", "placed", "done",
                           "filed", "failed"}]
    /\ got \in [Objects -> Contents \cup {Missing}]
    /\ manifest \in [Objects -> Contents \cup {Missing}]
    /\ archiveFaults \in 0..MaxArchiveFaults

\* The older layout of MCD64A1 may hold a file, an interrupted one included.
EvidenceInit ==
    /\ script \in Scripts
    /\ revision = [o \in Objects |-> 1]
    /\ catalogued = [o \in Objects |-> 0]
    /\ evidence = [o \in Objects |-> Missing]
    /\ \E old \in {Missing} \cup [rev : {1}, form : {"whole", "odd"}] :
          /\ script # "mcd64a1" => old = Missing
          /\ legacy = [o \in Objects |-> old]
    /\ partFiles = {}
    /\ phase = "idle"
    /\ at = [o \in Objects |-> "todo"]
    /\ got = [o \in Objects |-> Missing]
    /\ manifest = [o \in Objects |-> Missing]
    /\ archiveFaults = 0

-----------------------------------------------------------------------------
\* The provider publishes another revision, of another length.
ReviseObject(o) ==
    /\ \E r \in Revisions : r > revision[o] /\ revision' = [revision EXCEPT ![o] = r]
    /\ UNCHANGED <<script, catalogued, placeVars, runVars, manifest,
                   archiveFaults>>

\* download_catalogues: the catalogue is asked again and replaced.
ListCatalogue ==
    /\ Protocol.sizes = "catalogue"
    /\ phase = "idle"
    /\ catalogued' = revision
    /\ UNCHANGED <<script, revision, placeVars, runVars, manifest,
                   archiveFaults>>

-----------------------------------------------------------------------------
(* A run.                                                                  *)

\* Without its catalogue download_tropomi does not start.
StartRun ==
    /\ phase = "idle"
    /\ Protocol.sizes = "catalogue" => \A o \in Asked : catalogued[o] # 0
    /\ phase' = IF Protocol.sizes \in {"provider", "head"} THEN "list" ELSE "fetch"
    /\ UNCHANGED <<sourceVars, placeVars, at, got, manifest, archiveFaults>>

\* A HEAD of every run, or the provider's manifest, which is fetched once.
AskSize(o) ==
    /\ phase = "list" /\ at[o] = "todo"
    /\ catalogued' = IF Protocol.sizes = "head" \/ catalogued[o] = 0
                 THEN [catalogued EXCEPT ![o] = revision[o]] ELSE catalogued
    /\ at' = [at EXCEPT ![o] = "wanted"]
    /\ UNCHANGED <<script, revision, placeVars, phase, got, manifest,
                   archiveFaults>>

\* Only GFAS looks at all its files before it fetches the first.  A size that
\* is not to be had, or a manifest that does not parse, is a killed run.
SizesKnown ==
    /\ phase = "list"
    /\ \A o \in Asked : at[o] = "wanted"
    /\ phase' = IF Protocol.sizes = "provider" THEN "select" ELSE "fetch"
    /\ NewRun
    /\ UNCHANGED <<sourceVars, placeVars, manifest, archiveFaults>>

\* A file at the older path is moved when its signature is right.
MoveLegacy(o) ==
    /\ phase = "fetch" /\ at[o] = "todo"
    /\ evidence[o] = Missing
    /\ legacy[o].form = "whole"
    /\ evidence' = [evidence EXCEPT ![o] = legacy[o]]
    /\ legacy' = [legacy EXCEPT ![o] = Missing]
    /\ UNCHANGED <<sourceVars, partFiles, runVars, manifest, archiveFaults>>

Look(o, stage, found) ==
    /\ at' = [at EXCEPT ![o] = stage]
    /\ got' = [got EXCEPT ![o] = found]

\* A file that is there is kept, unlinked to be fetched again, or ends the run.
LookAt(o) ==
    /\ phase = IF Protocol.sizes = "provider" THEN "select" ELSE "fetch"
    /\ o \in Asked /\ at[o] = "todo"
    /\ ~ (evidence[o] = Missing /\ legacy[o].form = "whole")
    /\ LET keeps == evidence[o] # Missing /\ Passes(Protocol.reuse, o, evidence[o])
           raises == evidence[o] # Missing /\ ~ keeps /\ Protocol.misfit = "raise"
       IN  /\ \/ keeps /\ Look(o, "placed", evidence[o])
              \/ raises /\ Look(o, "failed", Missing)
              \/ ~ keeps /\ ~ raises /\ Look(o, "wanted", Missing)
           /\ evidence' = IF keeps \/ raises THEN evidence
                          ELSE [evidence EXCEPT ![o] = Missing]
    /\ UNCHANGED <<sourceVars, legacy, partFiles, phase, manifest,
                   archiveFaults>>

FilesSelected ==
    /\ phase = "select"
    /\ \A o \in Asked : at[o] # "todo"
    /\ phase' = "fetch"
    /\ UNCHANGED <<sourceVars, placeVars, at, got, manifest, archiveFaults>>

\* A .part file of an earlier run is unlinked, the new one created exclusively.
OpenEvidence(o) ==
    /\ phase = "fetch" /\ at[o] = "wanted"
    /\ partFiles' = partFiles \cup {o}
    /\ at' = [at EXCEPT ![o] = "open"]
    /\ UNCHANGED <<sourceVars, evidence, legacy, phase, got, manifest,
                   archiveFaults>>

\* The answer is there; one that fails the early test ends the run.  FireM3 has
\* no finally: what validate_archive refuses stays as .part.
Receive(o) ==
    /\ phase = "fetch" /\ at[o] = "open"
    /\ \E c \in Contents :
          /\ c.rev = revision[o]
          /\ c.form # "whole" => archiveFaults < MaxArchiveFaults
          /\ archiveFaults' = IF c.form = "whole" THEN archiveFaults ELSE archiveFaults + 1
          /\ LET fits == Passes(Protocol.early, o, c)
             IN  /\ Look(o, IF fits THEN "full" ELSE "failed", IF fits THEN c ELSE Missing)
                 /\ partFiles' = IF fits \/ script = "firem3" THEN partFiles
                                 ELSE partFiles \ {o}
    /\ UNCHANGED <<sourceVars, evidence, legacy, phase, manifest>>

\* A transfer breaks off or is empty: tried again up to five times, or not.
BreakReceive(o) ==
    /\ phase = "fetch" /\ at[o] = "open"
    /\ archiveFaults < MaxArchiveFaults
    /\ archiveFaults' = archiveFaults + 1
    /\ partFiles' = partFiles \ {o}
    /\ \/ Protocol.retry /\ at' = [at EXCEPT ![o] = "wanted"]
       \/ at' = [at EXCEPT ![o] = "failed"]
    /\ UNCHANGED <<sourceVars, evidence, legacy, phase, got, manifest>>

\* os.replace.
PlaceEvidence(o) ==
    /\ phase = "fetch" /\ at[o] = "full"
    /\ evidence' = [evidence EXCEPT ![o] = got[o]]
    /\ partFiles' = partFiles \ {o}
    /\ at' = [at EXCEPT ![o] = "placed"]
    /\ UNCHANGED <<sourceVars, legacy, phase, got, manifest, archiveFaults>>

\* What is looked at after the rename; TROPOMI unlinks a file of another length
\* than catalogued and leaves one whose signature is wrong.
Validate(o) ==
    /\ phase = "fetch" /\ at[o] = "placed"
    /\ Protocol.together => \A x \in Asked : at[x] \in {"placed", "done"}
    /\ LET unlinks == Protocol.mismatch = "unlink" /\ ~ HasLength(o, got[o])
       IN  /\ evidence' = IF unlinks THEN [evidence EXCEPT ![o] = Missing] ELSE evidence
           /\ at' = [at EXCEPT ![o] =
                        IF ~ unlinks /\ Passes(Protocol.late, o, got[o])
                        THEN "done" ELSE "failed"]
    /\ UNCHANGED <<sourceVars, legacy, partFiles, phase, got, manifest,
                   archiveFaults>>

\* A failed object ends the run, the transfers under way first.
EndFailedRun ==
    /\ phase # "idle"
    /\ \E o \in Asked : at[o] = "failed"
    /\ \A o \in Asked : at[o] \notin {"open", "full"}
    /\ phase' = "idle"
    /\ NewRun
    /\ UNCHANGED <<sourceVars, placeVars, manifest, archiveFaults>>

\* Every file is there: one manifest of all, or for GDEX one of each cycle.
WriteEvidence(o) ==
    /\ phase \in {"fetch", "write"}
    /\ \A x \in Asked : at[x] \in {"done", "filed"}
    /\ at[o] = "done"
    /\ LET now == IF script = "gdex" THEN {o} ELSE Asked
       IN  /\ manifest' = [x \in Objects |-> IF x \in now THEN got[x] ELSE manifest[x]]
           /\ at' = [x \in Objects |-> IF x \in now THEN "filed" ELSE at[x]]
    /\ phase' = "write"
    /\ UNCHANGED <<sourceVars, placeVars, got, archiveFaults>>

EndRun ==
    /\ phase = "write"
    /\ \A o \in Asked : at[o] = "filed"
    /\ phase' = "idle"
    /\ NewRun
    /\ UNCHANGED <<sourceVars, placeVars, manifest, archiveFaults>>

\* A killed run leaves its files, the .part ones too.
KillRun ==
    /\ phase # "idle"
    /\ archiveFaults < MaxArchiveFaults
    /\ archiveFaults' = archiveFaults + 1
    /\ phase' = "idle"
    /\ NewRun
    /\ UNCHANGED <<sourceVars, placeVars, manifest>>

-----------------------------------------------------------------------------
EvidenceNext ==
    \/ ListCatalogue \/ StartRun \/ SizesKnown \/ FilesSelected
    \/ EndFailedRun \/ EndRun \/ KillRun
    \/ \E o \in Objects :
        \/ ReviseObject(o) \/ AskSize(o) \/ MoveLegacy(o) \/ LookAt(o)
        \/ OpenEvidence(o) \/ Receive(o) \/ BreakReceive(o) \/ PlaceEvidence(o)
        \/ Validate(o) \/ WriteEvidence(o)

EvidenceSpec == EvidenceInit /\ [][EvidenceNext]_evidenceVars

-----------------------------------------------------------------------------
\* What the smoke results are judged by is what a manifest says: every file it
\* names passed the script's validation and is still the one at its path,
\* whatever was reused, refused, revised or interrupted.  GFAS is validated by
\* the lengths in the provider's manifest only.  The exception is a TROPOMI
\* product catalogued anew since: it is unlinked before it is fetched again.
RecordedIsWhole ==
    \A o \in Objects : manifest[o] # Missing =>
        /\ IF script = "gfas" THEN HasLength(o, manifest[o])
                              ELSE manifest[o].form = "whole"
        /\ \/ evidence[o] = manifest[o]
           \/ script = "tropomi" /\ catalogued[o] # manifest[o].rev
=============================================================================
