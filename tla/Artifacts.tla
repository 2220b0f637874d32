-------------------------------- MODULE Artifacts --------------------------------
(***************************************************************************)
(* The four files the market service publishes for the Web (artifacts.py,  *)
(* the two loops of service.py) and the Web's reading of them              *)
(* (market-artifact-repository.ts).  Each file is replaced atomically, the *)
(* service state last; it lists the time of every other file, and a reader *)
(* takes the files only if they have these times.  A time is the number of *)
(* its publication; whether a file is too old is left to chance.           *)
(***************************************************************************)
EXTENDS Integers

CONSTANTS
  Primary,      \* instruments that may be the selected one
  NoSelection,  \* a model value
  NoFile,       \* a model value: a file, or a listed time, that is not there
  Attempts,     \* readings before a reader gives up (8; 5 of the universe alone)
  MaxPublications, \* bound: publications
  MaxSelects,   \* bound: selections
  MaxFailures,  \* bound: failing writes
  MaxCrashes    \* bound: deaths of the service

ASSUME ArtifactAssumption ==
  /\ Attempts \in Nat \ {0}
  /\ {MaxPublications, MaxSelects, MaxFailures, MaxCrashes} \subseteq Nat

Part == {"universe", "chart", "selected"}
Selection == Primary \cup {NoSelection}
File == [at : Nat, for : Selection]
Listing == [Part -> Nat \cup {NoFile}]
State == [at : Nat, listed : Listing]

ASSUME NoFileIsNone == NoFile \notin Nat \cup File \cup State

Order == [universe |-> "chart", chart |-> "selected", selected |-> "service"]
NoListing == [p \in Part |-> NoFile]

VARIABLES
  primary,    \* the selection in the database
  disk,       \* the three files, each its time and what it was made for
  service,    \* service-state.json: its time and the times it lists
  known,      \* _artifact_files, or NoFile before the first full publication
  publisher,  \* _artifact_publish_lock: the publication and its next write
  skewed,     \* history: a publication ended without listing what it wrote
  reader,     \* latest or latestUniverse
  shown,      \* the selections of the bundle a reader returned last
  publications, selects, failures, crashes

boundVars == <<publications, selects, failures, crashes>>
artifactVars == <<primary, disk, service, known, publisher, skewed, reader, shown, boundVars>>

NoPublication == [step |-> "idle", full |-> FALSE, at |-> NoFile, for |-> NoSelection,
                  listed |-> NoListing]
NoReading == [step |-> "idle", wanted |-> {}, before |-> NoFile, got |-> [p \in {} |-> NoFile],
              attempt |-> 0]

ArtifactInit ==
  /\ primary = NoSelection
  /\ disk = [p \in Part |-> NoFile]
  /\ service = NoFile /\ known = NoFile
  /\ publisher = NoPublication /\ skewed = FALSE
  /\ reader = NoReading /\ shown = NoFile
  /\ publications = 0 /\ selects = 0 /\ failures = 0 /\ crashes = 0

Select(p) ==
  /\ selects < MaxSelects
  /\ selects' = selects + 1
  /\ primary' = p
  /\ UNCHANGED <<disk, service, known, publisher, skewed, reader, shown, publications, failures, crashes>>

-----------------------------------------------------------------------------
(* The publisher *)

(***************************************************************************)
(* publish_artifacts, of the loop that an L1 cycle or a refresh wakes, and *)
(* publish_selected_artifact, every few seconds once there was a full one: *)
(* the selection is read first and holds for the whole publication.        *)
(***************************************************************************)
StartPublication(full) ==
  /\ publisher.step = "idle"
  /\ full \/ known # NoFile
  /\ publications < MaxPublications /\ publications' = publications + 1
  /\ publisher' = [step   |-> IF full THEN "universe" ELSE "chart",
                   full   |-> full,
                   at     |-> publications',
                   for    |-> primary,
                   listed |-> IF full THEN NoListing ELSE known]
  /\ UNCHANGED <<primary, disk, service, known, skewed, reader, shown, selects, failures, crashes>>

(* Mutant: the chart that is there is kept whatever it shows. *)
KeepsChartMutant == publisher.listed["chart"] # NoFile /\ disk["chart"] # NoFile

(* The chart is rebuilt only when it was not published or shows another instrument. *)
KeepsChart ==
  /\ publisher.listed["chart"] # NoFile
  /\ disk["chart"] # NoFile /\ disk["chart"].for = publisher.for

Skips == ~publisher.full /\ publisher.step = "chart" /\ KeepsChart

SkipChart ==
  /\ Skips
  /\ publisher' = [publisher EXCEPT !.step = "selected"]
  /\ UNCHANGED <<primary, disk, service, known, skewed, reader, shown, boundVars>>

Listed(part) == [publisher.listed EXCEPT ![part] = publisher.at]

(* The universe is not made for a selection. *)
Written(part) ==
  [at |-> publisher.at, for |-> IF part = "universe" THEN NoSelection ELSE publisher.for]

(* write_artifact_atomic *)
WriteArtifact ==
  LET part == publisher.step IN
  /\ part \in Part /\ ~Skips
  /\ disk' = [disk EXCEPT ![part] = Written(part)]
  /\ publisher' = [publisher EXCEPT !.step = Order[part], !.listed = Listed(part)]
  /\ UNCHANGED <<primary, service, known, skewed, reader, shown, boundVars>>

(* Writing, replacing, or making the replacement durable fails. *)
WriteFails(replaced) ==
  LET part == publisher.step IN
  /\ part \in Part /\ ~Skips
  /\ failures < MaxFailures /\ failures' = failures + 1
  /\ disk' = IF replaced THEN [disk EXCEPT ![part] = Written(part)] ELSE disk
  /\ publisher' = [publisher EXCEPT !.step = Order[part], !.listed[part] = NoFile]
  /\ UNCHANGED <<primary, service, known, skewed, reader, shown, publications, selects, crashes>>

WriteServiceState ==
  /\ publisher.step = "service"
  /\ service' = [at |-> publisher.at, listed |-> publisher.listed]
  /\ known' = publisher.listed
  /\ publisher' = NoPublication
  /\ skewed' = (skewed /\ ~publisher.full)
  /\ UNCHANGED <<primary, disk, reader, shown, boundVars>>

(* The loop goes on with the files it knew before. *)
ServiceStateFails(replaced) ==
  /\ publisher.step = "service"
  /\ failures < MaxFailures /\ failures' = failures + 1
  /\ service' = IF replaced THEN [at |-> publisher.at, listed |-> publisher.listed] ELSE service
  /\ publisher' = NoPublication
  /\ skewed' = TRUE
  /\ UNCHANGED <<primary, disk, known, reader, shown, publications, selects, crashes>>

Dies ==
  /\ crashes < MaxCrashes /\ crashes' = crashes + 1
  /\ publisher' = NoPublication
  /\ known' = NoFile
  /\ skewed' = TRUE
  /\ UNCHANGED <<primary, disk, service, reader, shown, publications, selects, failures>>

-----------------------------------------------------------------------------
(* The reader *)

StartReading(wanted) ==
  /\ reader.step = "idle"
  /\ reader' = [NoReading EXCEPT !.step = "before", !.wanted = wanted, !.attempt = 1]
  /\ shown' = NoFile
  /\ UNCHANGED <<primary, disk, service, known, publisher, skewed, boundVars>>

(* A file is missing, fails its schema, or is too old: the reading fails at once. *)
Refuse ==
  /\ reader.step # "idle"
  /\ reader' = NoReading
  /\ UNCHANGED <<primary, disk, service, known, publisher, skewed, shown, boundVars>>

ReadServiceBefore ==
  /\ reader.step = "before" /\ service # NoFile
  /\ reader' = [reader EXCEPT !.step = "files", !.before = service.at]
  /\ UNCHANGED <<primary, disk, service, known, publisher, skewed, shown, boundVars>>

(* Promise.all: the files are read in any order. *)
ReadFile(part) ==
  /\ reader.step = "files" /\ part \in reader.wanted \ DOMAIN reader.got
  /\ disk[part] # NoFile
  /\ reader' = [reader EXCEPT !.got = [p \in DOMAIN @ \cup {part} |->
                                         IF p = part THEN disk[part] ELSE @[p]]]
  /\ UNCHANGED <<primary, disk, service, known, publisher, skewed, shown, boundVars>>

IsPublishedGeneration(state, got) == \A p \in DOMAIN got : got[p].at = state.listed[p]

Accepted ==
  reader.before = service.at /\ IsPublishedGeneration(service, reader.got)

(* The service state is read again: the bundle, or another attempt while there are any left. *)
ReadServiceAfter ==
  /\ reader.step = "files" /\ DOMAIN reader.got = reader.wanted
  /\ IF Accepted
     THEN reader' = NoReading /\ shown' = [p \in DOMAIN reader.got |-> reader.got[p].for]
     ELSE /\ reader' = IF reader.attempt = Attempts THEN NoReading
                       ELSE [NoReading EXCEPT !.step = "before", !.wanted = reader.wanted,
                                              !.attempt = reader.attempt + 1]
          /\ UNCHANGED shown
  /\ UNCHANGED <<primary, disk, service, known, publisher, skewed, boundVars>>

PublisherStep == SkipChart \/ WriteArtifact \/ WriteServiceState

ArtifactNext ==
  \/ \E p \in Selection : Select(p)
  \/ \E full \in BOOLEAN : StartPublication(full)
  \/ PublisherStep
  \/ \E replaced \in BOOLEAN : WriteFails(replaced) \/ ServiceStateFails(replaced)
  \/ Dies
  \/ \E wanted \in {Part, {"universe"}} : StartReading(wanted)
  \/ Refuse \/ ReadServiceBefore \/ ReadServiceAfter
  \/ \E part \in Part : ReadFile(part)

ArtifactSpec == ArtifactInit /\ [][ArtifactNext]_artifactVars

-----------------------------------------------------------------------------
(* Properties *)

(***************************************************************************)
(* What a reader returns was made for one selection: the chart never shows *)
(* one instrument beside the depth of another, however its reads fall      *)
(* between the writes of full and selected publications that fail or die.  *)
(***************************************************************************)
BundleIsOneSelection ==
  shown # NoFile /\ DOMAIN shown = Part => shown["chart"] = shown["selected"]

Readable ==
  service # NoFile /\ \A p \in Part : disk[p] # NoFile /\ disk[p].at = service.listed[p]

(***************************************************************************)
(* Between publications the files can be read: what the service state      *)
(* lists as ready is what is on disk, although a selected publication      *)
(* takes over times of files it did not write.  After a death, or a        *)
(* service state that could not be written, the next full publication      *)
(* makes it so again.                                                      *)
(***************************************************************************)
PublishedIsReadable ==
  publisher.step = "idle" /\ ~skewed /\ known # NoFile /\ NoFile \notin {known[p] : p \in Part}
    => Readable
===============================================================================
