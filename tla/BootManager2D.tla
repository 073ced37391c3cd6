---------------------------- MODULE BootManager2D ---------------------------
(***************************************************************************)
(* UefiMain and BootEntry of BootManager2D/src/Main.c with LocateFSPartitions *)
(* of FileSystems.c, around the game of Game2D: read the configuration, list *)
(* the partitions, play, and start the loader of the entry that was chosen.  *)
(*                                                                         *)
(* The contents of the files that parse are the constants of Game2D.  Where  *)
(* the code ignores an error and goes on with uninitialised variables, or    *)
(* writes outside an array, the program ends in the phase "undefined" or     *)
(* carries on, as stated at each such place.                                *)
(***************************************************************************)
EXTENDS Game2D

CONSTANTS
  Guids,          \* signatures of hard drive partitions
  HandleLists,    \* what LocateHandleBuffer may return: sequences over
                  \* Guids \cup {NoHardDrive}, one per file system handle
  NoHardDrive,    \* a file system that is not on a hard drive
  NullGuid,       \* a zero guid pointer
  volume_guid     \* volume_guid of each boot entry

ASSUME VolumeAssumption ==
  /\ NoHardDrive \notin Guids /\ NullGuid \notin Guids
  /\ HandleLists \subseteq Seq(Guids \cup {NoHardDrive})
  /\ volume_guid \in [0 .. MaxBootEntries - 1 -> Guids]

VARIABLES
  main,          \* where UefiMain is
  Status,        \* "EFI_SUCCESS" or "EFI_ERROR"
  handles,       \* the file system handles of this machine; never assigned
  partitions,    \* the array, as a function from 0 .. PartitionsCount - 1
  slot,          \* loop variable of BootEntry
  loadFailed,    \* LoadImage has failed
  started        \* the image that was started: a set of at most one

mainOnly == <<main, Status, handles, partitions, slot, loadFailed, started>>
mainVars == <<gameVars, mainOnly>>

Zeroed == [guid |-> NullGuid, handle |-> NullGuid]

MainInit ==
  /\ GameInit
  /\ main = "LocateCurFSHandle"
  /\ Status = "EFI_SUCCESS"
  /\ handles \in HandleLists
  /\ partitions = << >>
  /\ slot = 0
  /\ loadFailed = FALSE
  /\ started = {}

-----------------------------------------------------------------------------
\* The steps of UefiMain before the game, in order.
StartUp == <<"LocateCurFSHandle", "ParseConfigFile", "LocateFSPartitions",
             "ParseMazeConfigFile", "ParseTexturesConfigFile", "ReadBMP",
             "ParseSprite", "Game">>

\* Those whose status UefiMain does not look at, and ParseConfigFile and ParseSprite,
\* which go on after a failure of ReadFile: with the data that it did not set.
Unchecked == {"ParseConfigFile", "ParseMazeConfigFile", "ParseTexturesConfigFile", "ParseSprite"}

\* Those after whose failure UefiMain returns the status; the data of the two that are
\* in both sets may happen to be readable.
Checked == {"LocateCurFSHandle", "ParseConfigFile", "LocateFSPartitions",
            "ReadBMP", "ParseSprite"}

Steps == {StartUp[k] : k \in 1 .. 7}

After(step) ==
  LET k == CHOOSE k \in 1 .. 7 : StartUp[k] = step IN StartUp[k + 1]

StepSucceeds ==
  /\ main \in Steps \ {"LocateFSPartitions"}
  /\ main' = After(main)
  /\ UNCHANGED <<gameVars, Status, handles, partitions, slot, loadFailed, started>>

StepFails ==
  /\ main \in Checked
  /\ main' = "returned"
  /\ Status' = "EFI_ERROR"
  /\ UNCHANGED <<gameVars, handles, partitions, slot, loadFailed, started>>

FailureIgnored ==
  /\ main \in Unchecked
  /\ main' = "undefined"
  /\ UNCHANGED <<gameVars, Status, handles, partitions, slot, loadFailed, started>>

-----------------------------------------------------------------------------
\* First loop of LocateFSPartitions: only hard drives are counted.
OnHardDrive(k) == handles[k + 1] # NoHardDrive

PartitionsCount ==
  Cardinality({k \in 0 .. Len(handles) - 1 : OnHardDrive(k)})

\* Second loop: a hard drive is stored at the index of its handle.
StoredAt(k) == k

Written == {k \in 0 .. Len(handles) - 1 : OnHardDrive(k)}

LocateFSPartitions ==
  /\ main = "LocateFSPartitions"
  /\ partitions' = [s \in 0 .. PartitionsCount - 1 |->
       IF \E k \in Written : StoredAt(k) = s
         THEN LET k == CHOOSE k \in Written : StoredAt(k) = s
              IN  [guid |-> handles[k + 1], handle |-> k]
         ELSE Zeroed]
  /\ main' = After(main)
  /\ UNCHANGED <<gameVars, Status, handles, slot, loadFailed, started>>

\* A store beyond the array corrupts the pool; the program may not survive it.
WriteOutOfBounds ==
  /\ main = "LocateFSPartitions"
  /\ \E k \in Written : StoredAt(k) >= PartitionsCount
  /\ main' = "undefined"
  /\ UNCHANGED <<gameVars, Status, handles, partitions, slot, loadFailed, started>>

-----------------------------------------------------------------------------
\* The game, until it returns.
PlayGame ==
  /\ main = "Game"
  /\ game # "returned"
  /\ GameNext
  /\ UNCHANGED mainOnly

\* A trap in PlaceBootEntries.
GameTraps ==
  /\ main = "Game"
  /\ place = "fault"
  /\ main' = "undefined"
  /\ UNCHANGED <<gameVars, Status, handles, partitions, slot, loadFailed, started>>

\* Game has returned: without an entry UefiMain is done; an index outside
\* BootEntries reads beyond the array.
AfterGame ==
  /\ main = "Game"
  /\ game = "returned"
  /\ main' = IF EntryToBoot = ESCAPE_ENTRY THEN "returned"
             ELSE IF EntryToBoot \in Entries THEN "BootEntry" ELSE "undefined"
  /\ UNCHANGED <<gameVars, Status, handles, partitions, slot, loadFailed, started>>

Matches(s) == partitions[s].guid = volume_guid[EntryToBoot]

\* Mutant of SkipPartition: the loop variable is not advanced.
SkipPartition_Stays ==
  /\ main = "BootEntry"
  /\ slot < PartitionsCount
  /\ ~Matches(slot)
  /\ UNCHANGED mainVars

\* An iteration of BootEntry on a partition of another entry, or on a slot that
\* was never written: CompareGuid reads through the zero pointer.
SkipPartition ==
  /\ main = "BootEntry"
  /\ slot < PartitionsCount
  /\ ~Matches(slot)
  /\ slot' = slot + 1
  /\ UNCHANGED <<gameVars, main, Status, handles, partitions, loadFailed, started>>

ReadNullGuid ==
  /\ main = "BootEntry"
  /\ slot < PartitionsCount
  /\ partitions[slot] = Zeroed
  /\ main' = "undefined"
  /\ UNCHANGED <<gameVars, Status, handles, partitions, slot, loadFailed, started>>

LoadImageFails ==
  /\ main = "BootEntry"
  /\ slot < PartitionsCount
  /\ Matches(slot)
  /\ Status' = "EFI_ERROR"
  /\ loadFailed' = TRUE
  /\ main' = "returned"
  /\ UNCHANGED <<gameVars, handles, partitions, slot, started>>

\* Mutant of StartImage: the loader is taken from the first partition.
StartImage_FirstPartition ==
  /\ main = "BootEntry"
  /\ slot < PartitionsCount
  /\ Matches(slot)
  /\ started' = {[entry |-> EntryToBoot, handle |-> partitions[0].handle]}
  /\ main' = "StartImage"
  /\ UNCHANGED <<gameVars, Status, handles, partitions, slot, loadFailed>>

\* LoadImage and StartImage of the loader on the partition that matches.
StartImage ==
  /\ main = "BootEntry"
  /\ slot < PartitionsCount
  /\ Matches(slot)
  /\ started' = {[entry |-> EntryToBoot, handle |-> partitions[slot].handle]}
  /\ main' = "StartImage"
  /\ UNCHANGED <<gameVars, Status, handles, partitions, slot, loadFailed>>

\* The image that was started may exit; BootEntry leaves its loop.
ImageExits ==
  /\ main = "StartImage"
  /\ main' = "returned"
  /\ UNCHANGED <<gameVars, Status, handles, partitions, slot, loadFailed, started>>

\* No partition matched: BootEntry still returns EFI_SUCCESS.
EndOfPartitions ==
  /\ main = "BootEntry"
  /\ slot = PartitionsCount
  /\ main' = "returned"
  /\ UNCHANGED <<gameVars, Status, handles, partitions, slot, loadFailed, started>>

\* What the program does by itself.
Program ==
  \/ StepSucceeds \/ StepFails \/ FailureIgnored
  \/ LocateFSPartitions \/ WriteOutOfBounds
  \/ GameTraps \/ AfterGame
  \/ SkipPartition \/ ReadNullGuid \/ LoadImageFails \/ StartImage \/ EndOfPartitions

MainNext == Program \/ PlayGame \/ ImageExits

\* Neither a key press nor the exit of the operating system is assumed.
MainSpec ==
  /\ MainInit
  /\ [][MainNext]_mainVars
  /\ WF_mainVars(Program)
  /\ WF_mainVars(PlayGame /\ game # "key")

-----------------------------------------------------------------------------
\* The image that runs is the loader of the entry the game returned, taken from
\* a handle whose partition has the volume_guid of that entry; nothing runs
\* after a failed start-up or an escape.
StartedIsChosen ==
  \A image \in started :
    /\ image.entry = EntryToBoot
    /\ handles[image.handle + 1] = volume_guid[EntryToBoot]
    /\ Status = "EFI_SUCCESS" /\ ~loadFailed

\* Once the game is over the program starts an image or ends by itself: the
\* loop over the partitions does not hang.
GameOverLeadsToEnd ==
  game = "returned" ~> main \in {"StartImage", "returned", "undefined"}

\* The entry that was chosen is booted when a hard drive partition with its
\* volume_guid exists and its loader can be loaded.
ChosenVolumeBoots ==
  /\ main = "returned"
  /\ game = "returned"
  /\ EntryToBoot \in Entries
  /\ ~loadFailed
  /\ \E k \in 1 .. Len(handles) : handles[k] = volume_guid[EntryToBoot]
  => started # {}
=============================================================================
