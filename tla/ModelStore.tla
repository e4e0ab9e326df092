------------------------------- MODULE ModelStore -------------------------------
(***************************************************************************)
(* One model file with a pinned revision and sha256: the installer's model  *)
(* step, `agmind models pull`, `download` and `rm`, the partial they share  *)
(* and the marker that lets the installer skip the hash. No lock is taken.  *)
(* A file is the sequence of the chunks that were written to it, each named *)
(* by the revision it came from; a whole file of any revision has Chunks.   *)
(* A curl that is under way keeps writing to the file it opened, wherever   *)
(* that has been renamed to.                                                *)
(***************************************************************************)
EXTENDS Naturals, Sequences, FiniteSets

CONSTANTS
  Fetcher,        \* processes that run the installer's step or a models command
  Revision,       \* 1 .. n, in the order the publisher makes them
  Chunks,         \* chunks of a whole file; fewer are below the size floor
  NoFile,
  Attempts,       \* downloads of one installer run that end short
  MaxRuns,        \* bound: commands begun
  MaxNetFaults    \* bound: short bodies, curl errors and deaths

VARIABLES
  target,         \* the model file
  partial,        \* .<name>.part beside it
  fallback,       \* the copy under ~/.local/share/agmind/models
  verified,       \* the marker: the pin and the size that were verified
  pinned,         \* the revision the catalog pins
  main,           \* the revision the mutable branch is at
  fetch,          \* process -> its command
  runs, netFaults,
  overlapped      \* ghost: two commands were at work at once

storeVars == <<target, partial, fallback, verified, pinned, main, fetch, runs, netFaults,
               overlapped>>

BytesOf(rev) == [i \in 1 .. Chunks |-> rev]
WholeModel(f) == f # NoFile /\ Len(f) >= Chunks
SizeOf(f) == IF f = NoFile THEN 0 ELSE Len(f)

(* hf_resolve_url: a revision is fixed, none is the mutable branch.          *)
ResolvedRevision(rev) == IF rev = NoFile THEN main ELSE rev

(* _sha256_matches looks at a file and never removes it.                    *)
ShaMatches(f, pin) == f = BytesOf(pin)

NoFetch == [kind |-> "none", at |-> "idle", pin |-> 0, url |-> 0, need |-> 0,
            fd |-> "none", tries |-> 0]

(* Descriptors follow a file that is renamed or unlinked.                   *)
Renamed(jobs, from, to) ==
  [p \in Fetcher |->
     [jobs[p] EXCEPT !.fd = IF @ = from THEN to ELSE IF @ = to THEN "gone" ELSE @]]

Ends(p) == [fetch EXCEPT ![p] = NoFetch]

-----------------------------------------------------------------------------
(* The installer's step: _download_one                                     *)

Begin(p, kind, url, at) ==
  /\ fetch[p].at = "idle" /\ runs < MaxRuns
  /\ runs' = runs + 1
  /\ overlapped' = (overlapped \/ \E q \in Fetcher : fetch[q].at # "idle")
  /\ fetch' = [fetch EXCEPT ![p] =
       [NoFetch EXCEPT !.kind = kind, !.at = at, !.pin = pinned, !.url = url]]

BeginInstall(p) ==
  /\ Begin(p, "install", ResolvedRevision(pinned), "detect")
  /\ UNCHANGED <<target, partial, fallback, verified, pinned, main, netFaults>>

(* A staged copy is moved in when there is no whole model in place.         *)
Relocate(p) ==
  /\ fetch[p].at = "detect" /\ ~WholeModel(target) /\ WholeModel(fallback)
  /\ target' = fallback /\ fallback' = NoFile
  /\ fetch' = [Renamed(fetch, "target", "gone") EXCEPT ![p].at = "inplace"]
  /\ UNCHANGED <<partial, verified, pinned, main, runs, netFaults, overlapped>>

(* The marker is trusted for the same hash and size; otherwise the file is  *)
(* hashed. One that differs stays until a replacement is verified.          *)
MarkerVouches(p) == verified = [sha |-> fetch[p].pin, size |-> SizeOf(target)]

VerifyInPlace(p) ==
  /\ fetch[p].at \in {"detect", "inplace"} /\ WholeModel(target)
  /\ IF MarkerVouches(p) \/ ShaMatches(target, fetch[p].pin)
     THEN /\ verified' = [sha |-> fetch[p].pin, size |-> SizeOf(target)]
          /\ fetch' = Ends(p)
     ELSE /\ verified' = NoFile
          /\ fetch' = [fetch EXCEPT ![p].at = "stage"]
  /\ UNCHANGED <<target, partial, fallback, pinned, main, runs, netFaults, overlapped>>

NothingFound(p) ==
  /\ fetch[p].at = "detect" /\ ~WholeModel(target) /\ ~WholeModel(fallback)
  /\ fetch' = [fetch EXCEPT ![p].at = "stage"]
  /\ UNCHANGED <<target, partial, fallback, verified, pinned, main, runs, netFaults,
                 overlapped>>

(* AGMIND_OFFLINE: nothing is downloaded, and what is there stays.          *)
RefusedOffline(p) ==
  /\ fetch[p].at = "stage"
  /\ fetch' = Ends(p)
  /\ UNCHANGED <<target, partial, fallback, verified, pinned, main, runs, netFaults, overlapped>>

(* No space for what is still to come, or no curl.                          *)
OutOfSpace(p) ==
  /\ fetch[p].at = "staged"
  /\ fetch' = Ends(p)
  /\ UNCHANGED <<target, partial, fallback, verified, pinned, main, runs, netFaults, overlapped>>

(* A file below the floor becomes the partial, or goes if there is one.     *)
StagePartial(p) ==
  /\ fetch[p].at = "stage"
  /\ IF target = NoFile \/ WholeModel(target)
     THEN /\ fetch' = [fetch EXCEPT ![p].at = "staged"]
          /\ UNCHANGED <<target, partial>>
     ELSE /\ target' = NoFile
          /\ partial' = IF partial = NoFile THEN target ELSE partial
          /\ fetch' = [Renamed(fetch, "target", IF partial = NoFile THEN "partial" ELSE "gone")
                         EXCEPT ![p].at = "staged"]
  /\ UNCHANGED <<fallback, verified, pinned, main, runs, netFaults, overlapped>>

(* curl -C -: what the partial has is kept, what it lacks is asked for; a   *)
(* complete one gets nothing more and rc 0. `models download` starts over.  *)
OpenPartial(p) ==
  /\ fetch[p].at = "staged"
  /\ LET kept == IF partial = NoFile \/ fetch[p].kind = "download" THEN <<>> ELSE partial
     IN /\ partial' = kept
        /\ fetch' = [fetch EXCEPT ![p].at = "body", ![p].fd = "partial",
                       ![p].need = IF Len(kept) >= Chunks THEN 0 ELSE Chunks - Len(kept)]
  /\ UNCHANGED <<target, fallback, verified, pinned, main, runs, netFaults, overlapped>>

ReceiveChunk(p) ==
  /\ fetch[p].at = "body" /\ fetch[p].need > 0
  /\ target' = IF fetch[p].fd = "target" THEN Append(target, fetch[p].url) ELSE target
  /\ partial' = IF fetch[p].fd = "partial" THEN Append(partial, fetch[p].url) ELSE partial
  /\ fetch' = [fetch EXCEPT ![p].need = @ - 1]
  /\ UNCHANGED <<fallback, verified, pinned, main, runs, netFaults, overlapped>>

(* rc 0, also when the server ended the body early.                         *)
BodyEnds(p) ==
  /\ fetch[p].at = "body"
  /\ IF fetch[p].need = 0
     THEN UNCHANGED netFaults
     ELSE netFaults < MaxNetFaults /\ netFaults' = netFaults + 1
  /\ fetch' = [fetch EXCEPT ![p].at = "check", ![p].fd = "none"]
  /\ UNCHANGED <<target, partial, fallback, verified, pinned, main, runs, overlapped>>

(* A partial below the floor goes and the download starts again.            *)
RetryShort(p) ==
  /\ fetch[p].at = "check" /\ fetch[p].kind = "install" /\ ~WholeModel(partial)
  /\ partial' = NoFile
  /\ IF fetch[p].tries + 1 < Attempts
     THEN /\ fetch' = [Renamed(fetch, "partial", "gone") EXCEPT ![p].at = "staged",
                                                                  ![p].tries = @ + 1]
     ELSE /\ fetch' = [Renamed(fetch, "partial", "gone") EXCEPT ![p] = NoFetch]
  /\ UNCHANGED <<target, fallback, verified, pinned, main, runs, netFaults, overlapped>>

\* Bug: a whole partial is taken for the pinned one.
VerifyPartialBySize(p) ==
  /\ fetch[p].at = "check" /\ fetch[p].kind \in {"install", "download"}
  /\ WholeModel(partial)
  /\ fetch' = [fetch EXCEPT ![p].at = "activate"]
  /\ UNCHANGED <<target, partial, fallback, verified, pinned, main, runs, netFaults,
                 overlapped>>

VerifyPartial(p) ==
  /\ fetch[p].at = "check" /\ fetch[p].kind \in {"install", "download"}
  /\ fetch[p].kind = "install" => WholeModel(partial)
  /\ IF ShaMatches(partial, fetch[p].pin)
     THEN /\ fetch' = [fetch EXCEPT ![p].at = "activate"]
          /\ UNCHANGED partial
     ELSE /\ partial' = NoFile
          /\ fetch' = [Renamed(fetch, "partial", "gone") EXCEPT ![p] = NoFetch]
  /\ UNCHANGED <<target, fallback, verified, pinned, main, runs, netFaults, overlapped>>

(* partial.replace(target); a partial another command took away is an error. *)
Activate(p, next) ==
  IF partial = NoFile
  THEN /\ fetch' = Ends(p)
       /\ UNCHANGED <<target, partial>>
  ELSE /\ target' = partial /\ partial' = NoFile
       /\ fetch' = [Renamed(fetch, "partial", "target") EXCEPT ![p] = next]

ActivateVerified(p) ==
  /\ fetch[p].at = "activate"
  /\ Activate(p, IF fetch[p].kind = "install" THEN [fetch[p] EXCEPT !.at = "mark"] ELSE NoFetch)
  /\ UNCHANGED <<fallback, verified, pinned, main, runs, netFaults, overlapped>>

(* The marker is best effort; the run succeeds.                             *)
WriteVerifyMarker(p) ==
  /\ fetch[p].at = "mark"
  /\ verified' \in {verified, [sha |-> fetch[p].pin, size |-> SizeOf(target)]}
  /\ fetch' = Ends(p)
  /\ UNCHANGED <<target, partial, fallback, pinned, main, runs, netFaults, overlapped>>

-----------------------------------------------------------------------------
(* agmind models                                                           *)

(* pull takes the mutable branch and hashes nothing; --force drops the      *)
(* partial. download verifies the registry's sha256.                        *)
BeginPull(p, force) ==
  /\ target = NoFile \/ force
  /\ Begin(p, "pull", ResolvedRevision(NoFile), IF force THEN "drop" ELSE "staged")
  /\ UNCHANGED <<target, partial, fallback, verified, pinned, main, netFaults>>

BeginDownload(p, force) ==
  /\ target = NoFile \/ force
  /\ Begin(p, "download", ResolvedRevision(pinned), IF force THEN "drop" ELSE "staged")
  /\ UNCHANGED <<target, partial, fallback, verified, pinned, main, netFaults>>

DropPartial(p) ==
  /\ fetch[p].at = "drop"
  /\ partial' = NoFile
  /\ fetch' = [Renamed(fetch, "partial", "gone") EXCEPT ![p].at = "staged"]
  /\ UNCHANGED <<target, fallback, verified, pinned, main, runs, netFaults, overlapped>>

ActivatePull(p) ==
  /\ fetch[p].at = "check" /\ fetch[p].kind = "pull"
  /\ Activate(p, [fetch[p] EXCEPT !.at = "floor"])
  /\ UNCHANGED <<fallback, verified, pinned, main, runs, netFaults, overlapped>>

(* The floor is looked at after the activation: a short file is unlinked.   *)
FloorCheck(p) ==
  /\ fetch[p].at = "floor"
  /\ IF WholeModel(target)
     THEN fetch' = Ends(p) /\ UNCHANGED target
     ELSE target' = NoFile /\ fetch' = [Renamed(fetch, "target", "gone") EXCEPT ![p] = NoFetch]
  /\ UNCHANGED <<partial, fallback, verified, pinned, main, runs, netFaults, overlapped>>

(* The marker stays behind.                                                 *)
RemoveModel ==
  /\ target # NoFile /\ runs < MaxRuns
  /\ runs' = runs + 1
  /\ target' = NoFile
  /\ fetch' = Renamed(fetch, "target", "gone")
  /\ overlapped' = (overlapped \/ \E q \in Fetcher : fetch[q].at # "idle")
  /\ UNCHANGED <<partial, fallback, verified, pinned, main, netFaults>>

-----------------------------------------------------------------------------
(* curl fails, the step is cancelled, or the process dies: partials stay.   *)
BreakFetch(p) ==
  /\ fetch[p].at # "idle" /\ netFaults < MaxNetFaults
  /\ netFaults' = netFaults + 1
  /\ fetch' = Ends(p)
  /\ UNCHANGED <<target, partial, fallback, verified, pinned, main, runs, overlapped>>

Publish ==
  /\ main + 1 \in Revision
  /\ main' = main + 1
  /\ UNCHANGED <<target, partial, fallback, verified, pinned, fetch, runs, netFaults,
                 overlapped>>

(* A release of AGmind pins what the publisher has now.                     *)
Repin ==
  /\ pinned # main
  /\ pinned' = main
  /\ UNCHANGED <<target, partial, fallback, verified, main, fetch, runs, netFaults, overlapped>>

StoreInit ==
  /\ target \in {NoFile, <<1>>, BytesOf(1)} /\ partial \in {NoFile, <<1>>, BytesOf(1)}
  /\ fallback \in {NoFile, BytesOf(1)} /\ verified = NoFile
  /\ pinned = 1 /\ main = 1
  /\ fetch = [p \in Fetcher |-> NoFetch] /\ runs = 0 /\ netFaults = 0
  /\ overlapped = FALSE

StoreNext ==
  \/ \E p \in Fetcher :
       \/ BeginInstall(p) \/ Relocate(p) \/ VerifyInPlace(p) \/ NothingFound(p)
       \/ RefusedOffline(p) \/ StagePartial(p) \/ OutOfSpace(p) \/ OpenPartial(p)
       \/ ReceiveChunk(p) \/ BodyEnds(p) \/ RetryShort(p)
       \/ VerifyPartial(p) \/ ActivateVerified(p) \/ WriteVerifyMarker(p)
       \/ \E force \in BOOLEAN : BeginPull(p, force) \/ BeginDownload(p, force)
       \/ DropPartial(p) \/ ActivatePull(p) \/ FloorCheck(p) \/ BreakFetch(p)
  \/ RemoveModel \/ Publish \/ Repin

StoreSpec == StoreInit /\ [][StoreNext]_storeVars

-----------------------------------------------------------------------------
(* A model the installer downloads is the pinned one, byte for byte, also   *)
(* when it resumed what an older pin or a pull had left in the partial.     *)
DownloadVerified ==
  \A p \in Fetcher : fetch[p].at = "mark" /\ ~overlapped => target = BytesOf(fetch[p].pin)
=============================================================================
