---------------------------- MODULE BackupSchedule ----------------------------
(***************************************************************************)
(* `agmind ops backup-timer` and the nightly `agmind backup` it schedules:   *)
(* two unit files, what systemd made of them when it last read them, and     *)
(* archives with their marker and their copies on another host. Backup has   *)
(* what is in an archive.                                                   *)
(***************************************************************************)
EXTENDS Naturals, FiniteSets

CONSTANTS
  Remote, NoRemote,
  NoUnit,
  MaxTimerCommands,  \* bounds: backup-timer commands, firings, failing steps and restarts
  MaxFirings,
  MaxUpsetsOfHost

ASSUME RemoteAssumption == {NoUnit, "unknown"} \cap (Remote \cup {NoRemote}) = {}

VARIABLES
  unit,         \* unit file -> the remote its ExecStart names, or NoUnit
  loaded,       \* the same, as systemd has it in memory
  enabled, active,
  outputDir,    \* /var/lib/agmind/backups exists
  envRemote,    \* AGMIND_BACKUP_RCLONE_REMOTE of .env
  timerCommand, \* the backup-timer command: its step, and the remote to write
  inEffect,     \* ghost: what the last command reported: a remote, or NoUnit
  night,        \* the backup at work: its step, remote and archive
  kept, marked, copied,  \* archives, the one in the marker, and remote copies
  timerCommands, firings, hostUpsets

scheduleVars == <<unit, loaded, enabled, active, outputDir, envRemote, timerCommand,
                  inEffect, night, kept, marked, copied, timerCommands, firings, hostUpsets>>
systemd == <<unit, loaded, enabled, active>>
savedCopies == <<kept, marked, copied>>
scheduleBounds == <<timerCommands, firings, hostUpsets>>

Units == {"service", "timer"}
NoNight == [at |-> "idle", remote |-> NoRemote, archive |-> 0]

Upset == hostUpsets < MaxUpsetsOfHost /\ hostUpsets' = hostUpsets + 1

-----------------------------------------------------------------------------
(* agmind ops backup-timer --install                                       *)

(* An explicit --remote before the one of .env; it is written into the unit.  *)
BeginTimerInstall(explicit) ==
  /\ timerCommand.at = "idle" /\ timerCommands < MaxTimerCommands
  /\ timerCommands' = timerCommands + 1
  /\ timerCommand' = [at |-> "dir", remote |-> IF explicit # NoRemote THEN explicit ELSE envRemote]
  /\ inEffect' = "unknown"
  /\ UNCHANGED <<systemd, outputDir, envRemote, night, savedCopies, firings, hostUpsets>>

(* Its exit code is not looked at.                                          *)
MakeOutputDir ==
  /\ timerCommand.at = "dir"
  /\ \/ outputDir' = TRUE /\ UNCHANGED hostUpsets
     \/ Upset /\ UNCHANGED outputDir
  /\ timerCommand' = [timerCommand EXCEPT !.at = "service"]
  /\ UNCHANGED <<systemd, envRemote, inEffect, night, savedCopies, timerCommands, firings>>

WriteUnit(u) ==
  /\ timerCommand.at = u
  /\ unit' = [unit EXCEPT ![u] = timerCommand.remote]
  /\ timerCommand' = [timerCommand EXCEPT !.at = IF u = "service" THEN "timer" ELSE "reload"]
  /\ UNCHANGED <<loaded, enabled, active, outputDir, envRemote, inEffect, night, savedCopies,
                 scheduleBounds>>

\* Bug: systemd keeps the units it has read before.
ReloadUnitsSkipped ==
  /\ timerCommand.at = "reload"
  /\ timerCommand' = [timerCommand EXCEPT !.at = "enable"]
  /\ loaded' = [u \in Units |-> IF loaded[u] = NoUnit THEN unit[u] ELSE loaded[u]]
  /\ UNCHANGED <<unit, enabled, active, outputDir, envRemote, inEffect, night, savedCopies,
                 scheduleBounds>>

ReloadUnits ==
  /\ timerCommand.at = "reload"
  /\ loaded' = unit
  /\ timerCommand' = [timerCommand EXCEPT !.at = "enable"]
  /\ UNCHANGED <<unit, enabled, active, outputDir, envRemote, inEffect, night, savedCopies,
                 scheduleBounds>>

EnableTimer ==
  /\ timerCommand.at = "enable"
  /\ enabled' = TRUE /\ active' = TRUE
  /\ inEffect' = timerCommand.remote
  /\ timerCommand' = [timerCommand EXCEPT !.at = "idle"]
  /\ UNCHANGED <<unit, loaded, outputDir, envRemote, night, savedCopies, scheduleBounds>>

(* No permission, no room, or systemctl fails: exit 1, with what was done.    *)
TimerInstallFails ==
  /\ timerCommand.at \in {"service", "timer", "reload", "enable"} /\ Upset
  /\ timerCommand' = [timerCommand EXCEPT !.at = "idle"]
  /\ UNCHANGED <<systemd, outputDir, envRemote, inEffect, night, savedCopies, timerCommands,
                 firings>>

-----------------------------------------------------------------------------
(* --uninstall                                                             *)

BeginTimerUninstall ==
  /\ timerCommand.at = "idle" /\ timerCommands < MaxTimerCommands
  /\ timerCommands' = timerCommands + 1
  /\ timerCommand' = [at |-> "disable", remote |-> NoRemote]
  /\ inEffect' = "unknown"
  /\ UNCHANGED <<systemd, outputDir, envRemote, night, savedCopies, firings, hostUpsets>>

(* The exit codes of both systemctl calls are not looked at.                 *)
DisableTimer ==
  /\ timerCommand.at = "disable"
  /\ \/ enabled' = FALSE /\ active' = FALSE /\ UNCHANGED hostUpsets
     \/ Upset /\ UNCHANGED <<enabled, active>>
  /\ timerCommand' = [timerCommand EXCEPT !.at = "rm timer"]
  /\ UNCHANGED <<unit, loaded, outputDir, envRemote, inEffect, night, savedCopies,
                 timerCommands, firings>>

RemoveUnit(u) ==
  /\ timerCommand.at = (IF u = "timer" THEN "rm timer" ELSE "rm service")
  /\ \/ /\ unit' = [unit EXCEPT ![u] = NoUnit]
        /\ timerCommand' =
             [timerCommand EXCEPT !.at = IF u = "timer" THEN "rm service" ELSE "forget"]
        /\ UNCHANGED hostUpsets
     \/ Upset /\ timerCommand' = [timerCommand EXCEPT !.at = "idle"] /\ UNCHANGED unit
  /\ UNCHANGED <<loaded, enabled, active, outputDir, envRemote, inEffect, night, savedCopies,
                 timerCommands, firings>>

ForgetUnits ==
  /\ timerCommand.at = "forget"
  /\ \/ loaded' = unit /\ UNCHANGED hostUpsets
     \/ Upset /\ UNCHANGED loaded
  /\ inEffect' = NoUnit
  /\ timerCommand' = [timerCommand EXCEPT !.at = "idle"]
  /\ UNCHANGED <<unit, enabled, active, outputDir, envRemote, night, savedCopies,
                 timerCommands, firings>>

-----------------------------------------------------------------------------
(* The nightly backup                                                      *)

(* A name of its own per second, so nothing is overwritten. systemd starts    *)
(* no second one while one runs.                                            *)
TimerFires ==
  /\ active /\ loaded["timer"] # NoUnit /\ loaded["service"] # NoUnit
  /\ night.at = "idle" /\ firings < MaxFirings /\ firings' = firings + 1
  /\ night' = [at |-> "dump", remote |-> loaded["service"], archive |-> firings']
  /\ UNCHANGED <<systemd, outputDir, envRemote, timerCommand, inEffect, savedCopies, timerCommands,
                 hostUpsets>>

(* No services run, or a source cannot be read: exit 1 with no archive.       *)
NightFails ==
  /\ night.at = "dump" /\ Upset
  /\ night' = NoNight
  /\ UNCHANGED <<systemd, outputDir, envRemote, timerCommand, inEffect, savedCopies,
                 timerCommands, firings>>

NightWrites ==
  /\ night.at = "dump"
  /\ kept' = kept \cup {night.archive} /\ outputDir' = TRUE
  /\ night' = [night EXCEPT !.at = "stamp"]
  /\ UNCHANGED <<systemd, envRemote, timerCommand, inEffect, marked, copied, scheduleBounds>>

(* Best effort, and before the copy is made.                                 *)
NightStamps ==
  /\ night.at = "stamp"
  /\ \/ marked' = night.archive /\ UNCHANGED hostUpsets
     \/ Upset /\ UNCHANGED marked
  /\ night' = IF night.remote = NoRemote THEN NoNight ELSE [night EXCEPT !.at = "push"]
  /\ UNCHANGED <<systemd, outputDir, envRemote, timerCommand, inEffect, kept, copied, timerCommands,
                 firings>>

(* rclone is missing or fails: exit 1, the local archive stays.              *)
NightPushes ==
  /\ night.at = "push"
  /\ \/ copied' = copied \cup {<<night.remote, night.archive>>} /\ UNCHANGED hostUpsets
     \/ Upset /\ UNCHANGED copied
  /\ night' = NoNight
  /\ UNCHANGED <<systemd, outputDir, envRemote, timerCommand, inEffect, kept, marked, timerCommands,
                 firings>>

-----------------------------------------------------------------------------
EditRemote ==
  /\ \E r \in Remote \cup {NoRemote} : envRemote' = r
  /\ UNCHANGED <<systemd, outputDir, timerCommand, inEffect, night, savedCopies, scheduleBounds>>

(* systemd reads the units and starts what is enabled; commands are gone.     *)
RestartHost ==
  /\ Upset
  /\ loaded' = unit
  /\ active' = (enabled /\ unit["timer"] # NoUnit)
  /\ night' = NoNight
  /\ timerCommand' = [timerCommand EXCEPT !.at = "idle"]
  /\ UNCHANGED <<unit, enabled, outputDir, envRemote, inEffect, savedCopies, timerCommands,
                 firings>>

ScheduleInit ==
  /\ unit = [u \in Units |-> NoUnit] /\ loaded = unit
  /\ enabled = FALSE /\ active = FALSE /\ outputDir = FALSE
  /\ envRemote \in Remote \cup {NoRemote}
  /\ timerCommand = [at |-> "idle", remote |-> NoRemote] /\ inEffect = NoUnit
  /\ night = NoNight /\ kept = {} /\ marked = 0 /\ copied = {}
  /\ timerCommands = 0 /\ firings = 0 /\ hostUpsets = 0

ScheduleNext ==
  \/ \E r \in Remote \cup {NoRemote} : BeginTimerInstall(r)
  \/ BeginTimerUninstall
  \/ MakeOutputDir \/ ReloadUnits \/ EnableTimer \/ TimerInstallFails
  \/ \E u \in Units : WriteUnit(u) \/ RemoveUnit(u)
  \/ DisableTimer \/ ForgetUnits
  \/ TimerFires \/ NightFails \/ NightWrites \/ NightStamps \/ NightPushes
  \/ EditRemote \/ RestartHost

ScheduleSpec == ScheduleInit /\ [][ScheduleNext]_scheduleVars

-----------------------------------------------------------------------------
(* Once an install has reported the timer, every night from then on runs the   *)
(* service it wrote, to the remote it named, over restarts and whatever units *)
(* were there before.                                                       *)
InstalledFires ==
  inEffect \in Remote \cup {NoRemote} =>
    /\ enabled /\ active
    /\ loaded = [u \in Units |-> inEffect]
================================================================================
