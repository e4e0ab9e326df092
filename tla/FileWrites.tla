------------------------------ MODULE FileWrites ------------------------------
(***************************************************************************)
(* How AGmind puts a file in place: .env, secrets, descriptors, the state    *)
(* file, the compose file, unit files. Writers of one path, each in one of   *)
(* the four ways of the code, before a reader, an end by a signal or a full  *)
(* disk, and a loss of power.                                               *)
(***************************************************************************)
EXTENDS Naturals, Sequences

CONSTANTS
  Writer,
  Ways,           \* subset of {"atomic", "plain", "unit", "sudo"}
  NoInode,
  MaxWrites,      \* bounds: writes and losses of power in a behaviour
  MaxOutages

(* A temporary file never has the name of the path.                         *)
ASSUME FileAssumption == /\ Writer \cap {"path", "unit.tmp"} = {}
                         /\ NoInode \notin Nat

VARIABLES
  way,            \* writer -> write_text_atomic, _write_text_maybe_sudo,
                  \* _write_unit_file, or a staged copy and `sudo install`
  private,        \* the file is written with mode 0600
  step, own,      \* writer -> its next step, the inode it fills
  version,        \* writer -> what it writes
  writes,         \* how many were begun
  file,           \* the inodes, in their order of creation
  entry,          \* name -> inode: the path and the names of temporary files
  onDisk,         \* inodes whose text is on disk
  pending,        \* what the path may be after a loss of power
  replaced,       \* versions in the order in which they came to the path
  lasting,        \* versions whose write_text_atomic returned
  syncs,          \* the file system can fsync a directory
  outages

fileVars == <<way, private, step, own, version, writes, file, entry, onDisk, pending, replaced,
              lasting, syncs, outages>>

Text(i) == file[i].text
Whole(i) == file[i].text # <<>> /\ Len(file[i].text) = 2 /\ file[i].text[1] = file[i].text[2]

\* Bug: one name for the temporary files of all writers.
TempNameFixed(p) == "unit.tmp"

(* mkstemp and NamedTemporaryFile choose a new name; units have a fixed one.  *)
TempName(p) == IF way[p] = "unit" THEN "unit.tmp" ELSE p

-----------------------------------------------------------------------------
(* The temporary file                                                      *)

(* A new inode under the name, or the one that a fixed name already has,      *)
(* emptied; open() makes it readable by all.                                *)
CreateTemp(p) ==
  /\ step[p] = "start" /\ writes < MaxWrites /\ writes' = writes + 1
  /\ version' = [version EXCEPT ![p] = writes']
  /\ IF entry[TempName(p)] # NoInode
     THEN /\ file' = [file EXCEPT ![entry[TempName(p)]].text = <<>>]
          /\ own' = [own EXCEPT ![p] = entry[TempName(p)]]
          /\ onDisk' = onDisk \ {entry[TempName(p)]}
          /\ UNCHANGED entry
     ELSE /\ file' = Append(file, [text |-> <<>>, wide |-> way[p] = "unit"])
          /\ own' = [own EXCEPT ![p] = Len(file) + 1]
          /\ entry' = [entry EXCEPT ![TempName(p)] = Len(file) + 1]
          /\ UNCHANGED onDisk
  /\ step' = [step EXCEPT ![p] = "write"]
  /\ UNCHANGED <<way, private, pending, replaced, lasting, syncs, outages>>

(* A text goes to a file in two pieces, each at its own place.               *)
Piece(p) ==
  /\ step[p] \in {"write", "write rest"}
  /\ LET n == IF step[p] = "write" THEN 1 ELSE 2
         text == Text(own[p])
     IN file' = [file EXCEPT ![own[p]].text =
                   IF n <= Len(text) THEN [text EXCEPT ![n] = <<p, version[p]>>]
                   ELSE [i \in 1..n |-> IF i = n THEN <<p, version[p]>>
                                        ELSE IF i <= Len(text) THEN text[i] ELSE <<"hole", 0>>]]
  /\ onDisk' = onDisk \ {own[p]}
  /\ step' = [step EXCEPT ![p] = IF step[p] = "write" THEN "write rest"
                                 ELSE IF way[p] = "atomic" THEN "sync" ELSE "mode"]
  /\ UNCHANGED <<way, private, own, version, writes, entry, pending, replaced, lasting,
                 syncs, outages>>

Sync(p) ==
  /\ step[p] = "sync"
  /\ onDisk' = onDisk \cup {own[p]}
  /\ step' = [step EXCEPT ![p] = "mode"]
  /\ UNCHANGED <<way, private, own, version, writes, file, entry, pending, replaced,
                 lasting, syncs, outages>>

(* Before the file is in place; a copy for sudo stays as mkstemp made it.     *)
SetMode(p) ==
  /\ step[p] = "mode"
  /\ file' = IF way[p] = "sudo" THEN file ELSE [file EXCEPT ![own[p]].wide = ~private]
  /\ step' = [step EXCEPT ![p] = IF way[p] = "sudo" THEN "unlink" ELSE "replace"]
  /\ UNCHANGED <<way, private, own, version, writes, entry, onDisk, pending, replaced,
                 lasting, syncs, outages>>

-----------------------------------------------------------------------------
(* Into place                                                              *)

(* os.replace goes by name; without the name the write fails.                *)
Replace(p) ==
  /\ step[p] = "replace"
  /\ IF entry[TempName(p)] = NoInode
     THEN UNCHANGED <<entry, pending, replaced>>
     ELSE /\ entry' = [entry EXCEPT !["path"] = entry[TempName(p)], ![TempName(p)] = NoInode]
          /\ pending' = pending \cup {entry[TempName(p)]}
          /\ replaced' = Append(replaced, <<p, version[p]>>)
  /\ step' = [step EXCEPT ![p] = IF way[p] = "atomic" THEN "sync directory" ELSE "start"]
  /\ UNCHANGED <<way, private, own, version, writes, file, onDisk, lasting, syncs,
                 outages>>

\* Bug: the directory is not synced.
SyncDirectorySkipped(p) ==
  /\ step[p] = "sync directory"
  /\ lasting' = lasting \cup {<<p, version[p]>>}
  /\ step' = [step EXCEPT ![p] = "start"]
  /\ UNCHANGED <<way, private, own, version, writes, file, entry, onDisk, pending,
                 replaced, syncs, outages>>

(* The rename is on disk, where the file system lets a directory be synced.   *)
SyncDirectory(p) ==
  /\ step[p] = "sync directory"
  /\ IF syncs
     THEN pending' = {entry["path"]} /\ lasting' = lasting \cup {<<p, version[p]>>}
     ELSE UNCHANGED <<pending, lasting>>
  /\ step' = [step EXCEPT ![p] = "start"]
  /\ UNCHANGED <<way, private, own, version, writes, file, entry, onDisk, replaced, syncs,
                 outages>>

(* install(1): the path goes, a private file comes, filled and then opened.   *)
InstallUnlink(p) ==
  /\ step[p] = "unlink"
  /\ entry' = [entry EXCEPT !["path"] = NoInode]
  /\ pending' = pending \cup {NoInode}
  /\ step' = [step EXCEPT ![p] = "copy"]
  /\ UNCHANGED <<way, private, own, version, writes, file, onDisk, replaced, lasting,
                 syncs, outages>>

(* O_EXCL: the second of two fails, and its temporary file is removed.        *)
InstallCopy(p) ==
  /\ step[p] = "copy"
  /\ IF entry["path"] = NoInode
     THEN /\ file' = Append(file, [text |-> <<Text(own[p])[1]>>, wide |-> FALSE])
          /\ own' = [own EXCEPT ![p] = Len(file) + 1]
          /\ entry' = [entry EXCEPT !["path"] = Len(file) + 1, ![p] = NoInode]
          /\ pending' = pending \cup {Len(file) + 1}
          /\ step' = [step EXCEPT ![p] = "copy rest"]
     ELSE /\ entry' = [entry EXCEPT ![p] = NoInode]
          /\ step' = [step EXCEPT ![p] = "start"]
          /\ UNCHANGED <<file, own, pending>>
  /\ UNCHANGED <<way, private, version, writes, onDisk, replaced, lasting, syncs,
                 outages>>

InstallFinish(p) ==
  /\ step[p] = "copy rest"
  /\ file' = [file EXCEPT ![own[p]] = [text |-> <<@.text[1], @.text[1]>>, wide |-> ~private]]
  /\ replaced' = Append(replaced, <<p, version[p]>>)
  /\ step' = [step EXCEPT ![p] = "start"]
  /\ UNCHANGED <<way, private, own, version, writes, entry, onDisk, pending, lasting,
                 syncs, outages>>

-----------------------------------------------------------------------------
(* Ends                                                                    *)

(* No room: the temporary file is removed, and the error raised; a unit's     *)
(* stays.                                                                   *)
DiskFull(p) ==
  /\ step[p] \in {"write", "write rest", "sync"}
  /\ entry' = IF way[p] = "unit" THEN entry ELSE [entry EXCEPT ![TempName(p)] = NoInode]
  /\ step' = [step EXCEPT ![p] = "start"]
  /\ UNCHANGED <<way, private, own, version, writes, file, onDisk, pending, replaced,
                 lasting, syncs, outages>>

(* A signal leaves the temporary file, and its child install at its step.     *)
Killed(p) ==
  /\ step[p] \notin {"start", "stopped"}
  /\ step' = [step EXCEPT ![p] = "stopped"]
  /\ UNCHANGED <<way, private, own, version, writes, file, entry, onDisk, pending,
                 replaced, lasting, syncs, outages>>

(* The path is as it was at some time since it was last on disk, and a text    *)
(* that was not on disk may be gone. New processes have new temporary names.  *)
Outage ==
  /\ outages < MaxOutages /\ outages' = outages + 1
  /\ \E i \in pending :
       /\ entry' = [n \in DOMAIN entry |-> IF n = "path" THEN i
                                          ELSE IF n \in Writer THEN NoInode ELSE entry[n]]
       /\ pending' = {i}
       /\ \/ UNCHANGED file
          \/ i \in DOMAIN file \ onDisk /\ file' = [file EXCEPT ![i].text = <<>>]
  /\ onDisk' = DOMAIN file
  /\ step' = [p \in Writer |-> "start"]
  /\ UNCHANGED <<way, private, own, version, writes, replaced, lasting, syncs>>

-----------------------------------------------------------------------------
FileInit ==
  /\ way \in [Writer -> Ways] /\ private \in BOOLEAN /\ syncs \in BOOLEAN
  /\ private => "unit" \notin {way[p] : p \in Writer}
  /\ step = [p \in Writer |-> "start"]
  /\ own = [p \in Writer |-> NoInode]
  /\ version = [p \in Writer |-> 0] /\ writes = 0
  /\ file = <<[text |-> <<<<"before", 0>>, <<"before", 0>>>>, wide |-> ~private]>>
  /\ entry = [n \in Writer \cup {"path", "unit.tmp"} |-> IF n = "path" THEN 1 ELSE NoInode]
  /\ onDisk = {1} /\ pending = {1}
  /\ replaced = <<>> /\ lasting = {} /\ outages = 0

FileStep(p) ==
  \/ CreateTemp(p) \/ Piece(p) \/ Sync(p) \/ SetMode(p) \/ Replace(p) \/ SyncDirectory(p)
  \/ InstallUnlink(p) \/ InstallCopy(p) \/ InstallFinish(p) \/ DiskFull(p) \/ Killed(p)
FileNext == Outage \/ \E p \in Writer : FileStep(p)
FileSpec == FileInit /\ [][FileNext]_fileVars

-----------------------------------------------------------------------------
Only(ws) == {way[p] : p \in Writer} \subseteq ws

(* A reader of the path finds one version from its first byte to its last,     *)
(* whatever writers do at once and wherever one ends: always for               *)
(* write_text_atomic, and without a loss of power for the writes that do not  *)
(* sync. `install` leaves the path without a file and then with half of one.  *)
ReaderSeesWhole ==
  (Only({"atomic"}) \/ (Only({"atomic", "plain"}) /\ outages = 0)) =>
    entry["path"] # NoInode /\ Whole(entry["path"])

(* What write_text_atomic returned from is there after a loss of power, or     *)
(* something that replaced it is.                                           *)
ReturnedLasts ==
  Only({"atomic"}) =>
    \A i \in DOMAIN replaced :
      replaced[i] \in lasting =>
        \E j \in i..Len(replaced) : Text(entry["path"]) = <<replaced[j], replaced[j]>>

(* No part of a private file is ever in a file that others may read, the       *)
(* temporary ones that a dead writer leaves included.                       *)
PrivateStays == private => \A i \in DOMAIN file : ~file[i].wide
=============================================================================
