----------------------------- MODULE PackStore -----------------------------
(***************************************************************************)
(* The offline map packs of the app (mobile/packStore.ts): the archives on *)
(* disk, the persisted list of packs, and the list the map draws from, kept *)
(* in step by downloads, removals, the reset of an account and the          *)
(* reconciliation at start, each of which waits between its steps while    *)
(* the others run.                                                         *)
(***************************************************************************)
EXTENDS Integers, FiniteSets

CONSTANTS
  Packs,
  Removers    \* removals that may be under way at once

ASSUME PackAssumption ==
  /\ IsFiniteSet(Packs) /\ IsFiniteSet(Removers)
  /\ Packs \intersect Removers = {} /\ "starting" \notin Packs \union Removers

Archives == {"base", "hs"}

VARIABLES
  disk,       \* <<pack, archive>> in place
  partial,    \* <<pack, archive>> under its .part name
  saved,      \* the persisted list
  installed,  \* the list in memory
  progress,   \* packs shown as downloading
  download,   \* pack -> its download
  remover,    \* removal -> what it is at
  starting,   \* the reconciliation at start
  crossed     \* two have been between reading the list and showing theirs
packVars == <<disk, partial, saved, installed, progress, download, remover, starting, crossed>>

NoDownload == [pc |-> "none", cancelled |-> FALSE, list |-> {}]
NoRemoval  == [pc |-> "none", list |-> {}]
Unstarted  == [pc |-> "unstarted", list |-> {}]

Whole(p) == {p} \X Archives \subseteq disk

\* saveDownloadedPacks: a write that fails is ignored.
Save(list) == saved' \in {list, saved}

PackInit ==
  /\ disk = {} /\ partial = {} /\ saved = {} /\ installed = {} /\ progress = {}
  /\ download = [p \in Packs |-> NoDownload]
  /\ remover = [r \in Removers |-> NoRemoval]
  /\ starting = Unstarted
  /\ crossed = FALSE

Downloads(p) == download[p].pc
Goto(p, pc) == download' = [download EXCEPT ![p].pc = pc]

(* What has read the list, or is placing the files behind it, and shows a
   list later; before the first list is shown, any download. *)
Midway ==
  {p \in Packs : \/ Downloads(p) \in {"land hs", "record", "show"}
                 \/ starting.pc # "started" /\ Downloads(p) # "none"}
    \union {r \in Removers : remover[r].pc # "none"}
    \union (IF starting.pc = "started" THEN {} ELSE {"starting"})

-----------------------------------------------------------------------------
(* downloadPack: both archives to their .part names, one after the other. *)
DownloadStart(p) ==
  /\ p \notin installed /\ p \notin progress
  /\ progress' = progress \union {p}
  /\ download' = [download EXCEPT ![p] = [NoDownload EXCEPT !.pc = "base"]]
  /\ UNCHANGED <<disk, partial, saved, installed, remover, starting>>

Cancel(p) ==
  /\ Downloads(p) # "none" /\ ~download[p].cancelled
  /\ download' = [download EXCEPT ![p].cancelled = TRUE]
  /\ UNCHANGED <<disk, partial, saved, installed, progress, remover, starting>>

DownloadArchive(p, a, next) ==
  /\ Downloads(p) = a /\ partial' = partial \union {<<p, a>>}
  /\ Goto(p, IF download[p].cancelled THEN "failed" ELSE next)
  /\ UNCHANGED <<disk, saved, installed, progress, remover, starting>>

DownloadFails(p) ==
  /\ Downloads(p) \in Archives /\ Goto(p, "failed")
  /\ UNCHANGED <<disk, partial, saved, installed, progress, remover, starting>>

(* Land: a move may throw, and does without its file. *)
Move(p, a, at, next) ==
  /\ Downloads(p) = at
  /\ \/ /\ <<p, a>> \in partial
        /\ disk' = disk \union {<<p, a>>} /\ partial' = partial \ {<<p, a>>} /\ Goto(p, next)
     \/ UNCHANGED <<disk, partial>> /\ Goto(p, "failed")
  /\ UNCHANGED <<saved, installed, progress, remover, starting>>

(* Only then is the pack recorded, in a list made before the save is waited
   for and shown after it. *)
Record(p) ==
  /\ Downloads(p) = "record"
  /\ LET list == installed \union {p}
     IN  /\ Save(list)
         /\ download' = [download EXCEPT ![p].pc = "show", ![p].list = list]
  /\ UNCHANGED <<disk, partial, installed, progress, remover, starting>>

Show(p) ==
  /\ Downloads(p) = "show"
  /\ installed' = download[p].list /\ progress' = progress \ {p}
  /\ download' = [download EXCEPT ![p] = NoDownload]
  /\ UNCHANGED <<disk, partial, saved, remover, starting>>

CleanUp(p) ==
  /\ Downloads(p) = "failed"
  /\ disk' = disk \ ({p} \X Archives) /\ partial' = partial \ ({p} \X Archives)
  /\ progress' = progress \ {p}
  /\ download' = [download EXCEPT ![p] = NoDownload]
  /\ UNCHANGED <<saved, installed, remover, starting>>

DownloadStep(p) ==
  \/ DownloadStart(p) \/ Cancel(p) \/ DownloadFails(p)
  \/ DownloadArchive(p, "base", "hs") \/ DownloadArchive(p, "hs", "land base")
  \/ Move(p, "base", "land base", "land hs") \/ Move(p, "hs", "land hs", "record")
  \/ Record(p) \/ Show(p) \/ CleanUp(p)

-----------------------------------------------------------------------------
Removing(r, pc, list) == remover' = [remover EXCEPT ![r] = [pc |-> pc, list |-> list]]

(* removePack: the files, then the list saved, then shown. *)
RemoveFiles(r, p) ==
  /\ remover[r].pc = "none" /\ p \in installed
  /\ disk' = disk \ ({p} \X Archives)
  /\ Removing(r, "save", {p})
  /\ UNCHANGED <<partial, saved, installed, progress, download, starting>>

RemoveSave(r) ==
  /\ remover[r].pc = "save"
  /\ LET list == installed \ remover[r].list
     IN  Save(list) /\ Removing(r, "show", list)
  /\ UNCHANGED <<disk, partial, installed, progress, download, starting>>

RemoveShow(r) ==
  /\ remover[r].pc = "show"
  /\ installed' = remover[r].list
  /\ Removing(r, "none", {})
  /\ UNCHANGED <<disk, partial, saved, progress, download, starting>>

(* removeAllPacks: every download called off, the directory deleted, the
   list emptied. *)
RemoveAll(r) ==
  /\ remover[r].pc = "none"
  /\ download' = [p \in Packs |-> IF Downloads(p) = "none" THEN NoDownload
                                  ELSE [download[p] EXCEPT !.cancelled = TRUE]]
  /\ disk' = {} /\ partial' = {}
  /\ Removing(r, "save", Packs)
  /\ UNCHANGED <<saved, installed, progress, starting>>

-----------------------------------------------------------------------------
BadInitSave ==
  /\ starting.pc = "look"
  /\ starting' = [pc |-> "show", list |-> starting.list]
  /\ UNCHANGED <<disk, partial, saved, installed, progress, download, remover>>

(* init: the list read, its archives looked for, what is missing dropped. *)
InitLoad ==
  /\ starting.pc = "unstarted"
  /\ starting' = [pc |-> "look", list |-> saved]
  /\ UNCHANGED <<disk, partial, saved, installed, progress, download, remover>>

InitSave ==
  /\ starting.pc = "look"
  /\ LET present == {p \in starting.list : Whole(p)}
     IN  /\ starting' = [pc |-> "show", list |-> present]
         /\ IF present # starting.list THEN Save(present) ELSE UNCHANGED saved
  /\ UNCHANGED <<disk, partial, installed, progress, download, remover>>

InitShow ==
  /\ starting.pc = "show"
  /\ installed' = starting.list
  /\ starting' = [pc |-> "started", list |-> {}]
  /\ UNCHANGED <<disk, partial, saved, progress, download, remover>>

Kill ==
  /\ installed' = {} /\ progress' = {}
  /\ download' = [p \in Packs |-> NoDownload]
  /\ remover' = [r \in Removers |-> NoRemoval]
  /\ starting' = Unstarted
  /\ UNCHANGED <<disk, partial, saved>>

PackStep ==
  \/ InitLoad \/ InitSave \/ InitShow
  \/ \E p \in Packs : DownloadStep(p)
  \/ \E r \in Removers :
       \/ \E p \in Packs : RemoveFiles(r, p)
       \/ RemoveSave(r) \/ RemoveShow(r) \/ RemoveAll(r)

PackNext ==
  \/ PackStep /\ crossed' = (crossed \/ Cardinality(Midway') > 1)
  \/ Kill /\ crossed' = FALSE

PackSpec == PackInit /\ [][PackNext]_packVars

-----------------------------------------------------------------------------
Quiet == /\ \A p \in Packs : Downloads(p) = "none"
         /\ \A r \in Removers : remover[r].pc = "none"
         /\ starting.pc = "started"

(***************************************************************************)
(* When nothing is under way and no two list changes overlapped since the  *)
(* app started, every pack the map draws from is on disk, both archives of *)
(* it: wherever the app was killed, whatever was cancelled, failed or not  *)
(* saved before.                                                           *)
(***************************************************************************)
QuietMeansWhole ==
  Quiet /\ ~crossed => \A p \in installed : Whole(p)
=============================================================================
