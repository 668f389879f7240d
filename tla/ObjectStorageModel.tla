-------------------------- MODULE ObjectStorageModel --------------------------
(***************************************************************************)
(* ObjectStorageModel (safetensors_streamer.py): processes of a machine    *)
(* that download the same model into the same directory.  A lock file with *)
(* flock, a sentinel file that says the download is complete, and          *)
(* processes that fail, are killed and are started again.                  *)
(*                                                                         *)
(* Every process pulls the same files, and leaves its block by an          *)
(* exception if a pull failed.                                             *)
(***************************************************************************)
EXTENDS Naturals

CONSTANTS
  Procs,       \* the processes
  Files,       \* the files a model may have
  MaxAttempts  \* bound: how often a process is started

VARIABLES
  stored,   \* the files under model_path
  place,    \* of a process
  lock,     \* what flock gave it: "none", "SH" or "EX"
  sentinel, \* .runai_complete exists
  file,     \* each file of the directory: "absent", "partial" or "whole"
  attempts

modelVars == <<stored, place, lock, sentinel, file, attempts>>

Ended == {"done", "failed", "killed"}
Constructor == {"opened", "shared", "unlock", "promote", "exclusive",
                "downgrade", "reshare", "clean"}
Block == {"skip", "pull", "pulled", "written"}

ModelInit ==
  /\ stored \in SUBSET Files
  /\ place = [p \in Procs |-> "failed"]
  /\ lock = [p \in Procs |-> "none"]
  /\ sentinel = FALSE
  /\ file \in [Files -> {"absent", "partial"}]
  /\ attempts = [p \in Procs |-> 0]

Go(p, from, to) ==
  /\ place[p] = from
  /\ place' = [place EXCEPT ![p] = to]

-----------------------------------------------------------------------------
(* The constructor *)

(* The lock file is opened. *)
Start(p) ==
  /\ place[p] \in Ended
  /\ attempts[p] < MaxAttempts
  /\ place' = [place EXCEPT ![p] = "opened"]
  /\ attempts' = [attempts EXCEPT ![p] = @ + 1]
  /\ UNCHANGED <<stored, lock, sentinel, file>>

(* flock(LOCK_SH), which waits for the one that has LOCK_EX. *)
TakeShared(p) ==
  /\ \A q \in Procs \ {p} : lock[q] # "EX"
  /\ lock' = [lock EXCEPT ![p] = "SH"]

LockShared(p) ==
  /\ Go(p, "opened", "shared")
  /\ TakeShared(p)
  /\ UNCHANGED <<stored, sentinel, file, attempts>>

(* The fast path, if the sentinel exists. *)
Check(p) ==
  /\ Go(p, "shared", IF sentinel THEN "skip" ELSE "unlock")
  /\ UNCHANGED <<stored, lock, sentinel, file, attempts>>

(* Mutant of Unlock: the shared lock is promoted. *)
UnlockNot(p) ==
  /\ Go(p, "unlock", "promote")
  /\ UNCHANGED <<stored, lock, sentinel, file, attempts>>

Unlock(p) ==
  /\ Go(p, "unlock", "promote")
  /\ lock' = [lock EXCEPT ![p] = "none"]
  /\ UNCHANGED <<stored, sentinel, file, attempts>>

LockExclusive(p) ==
  /\ Go(p, "promote", "exclusive")
  /\ \A q \in Procs \ {p} : lock[q] = "none"
  /\ lock' = [lock EXCEPT ![p] = "EX"]
  /\ UNCHANGED <<stored, sentinel, file, attempts>>

(* Mutant of Recheck: what was seen under the shared lock still counts. *)
RecheckNot(p) ==
  /\ Go(p, "exclusive", "clean")
  /\ UNCHANGED <<stored, lock, sentinel, file, attempts>>

(* Somebody may have completed the download in between. *)
Recheck(p) ==
  /\ Go(p, "exclusive", IF sentinel THEN "downgrade" ELSE "clean")
  /\ UNCHANGED <<stored, lock, sentinel, file, attempts>>

(* Linux converts a lock in two steps: another may get it in between. *)
Downgrade(p) ==
  /\ Go(p, "downgrade", "reshare")
  /\ lock' = [lock EXCEPT ![p] = "none"]
  /\ UNCHANGED <<stored, sentinel, file, attempts>>

Reshare(p) ==
  /\ Go(p, "reshare", "skip")
  /\ TakeShared(p)
  /\ UNCHANGED <<stored, sentinel, file, attempts>>

(* rmtree, entry by entry: everything there is goes, the sentinel too. *)
RemoveFile(p) ==
  /\ place[p] = "clean"
  /\ \E f \in Files :
       /\ file[f] # "absent"
       /\ file' = [file EXCEPT ![f] = "absent"]
  /\ sentinel' = FALSE
  /\ UNCHANGED <<stored, place, lock, attempts>>

MakeDirs(p) ==
  /\ Go(p, "clean", "pull")
  /\ \A f \in Files : file[f] = "absent"
  /\ UNCHANGED <<stored, lock, sentinel, file, attempts>>

-----------------------------------------------------------------------------
(* The block *)

(* pull_files writes a file, and has written it. *)
Pull(p) ==
  /\ place[p] = "pull"
  /\ \E f \in stored :
       /\ file[f] # "whole"
       /\ file' = [file EXCEPT ![f] =
                     IF file[f] = "absent" THEN "partial" ELSE "whole"]
  /\ UNCHANGED <<stored, place, lock, sentinel, attempts>>

PullsReturn(p) ==
  /\ Go(p, "pull", "pulled")
  /\ \A f \in stored : file[f] = "whole"
  /\ UNCHANGED <<stored, lock, sentinel, file, attempts>>

(* __exit__ writes the sentinel, if anything was downloaded. *)
WriteSentinel(p) ==
  /\ Go(p, "pulled", "written")
  /\ \E f \in Files : file[f] # "absent"
  /\ sentinel' = TRUE
  /\ UNCHANGED <<stored, lock, file, attempts>>

(* The lock is released and the process goes on with the files. *)
Exit(p) ==
  /\ place[p] \in {"skip", "written"}
  /\ place' = [place EXCEPT ![p] = "done"]
  /\ lock' = [lock EXCEPT ![p] = "none"]
  /\ UNCHANGED <<stored, sentinel, file, attempts>>

-----------------------------------------------------------------------------
(* Failures *)

(* An exception in the constructor: the lock is released. *)
ConstructorRaises(p) ==
  /\ place[p] \in Constructor
  /\ place' = [place EXCEPT ![p] = "failed"]
  /\ lock' = [lock EXCEPT ![p] = "none"]
  /\ UNCHANGED <<stored, sentinel, file, attempts>>

(* Mutant of BlockRaises: a process that was to write the sentinel does. *)
BlockRaisesWrites(p) ==
  /\ place[p] \in {"pull", "pulled"}
  /\ place' = [place EXCEPT ![p] = "failed"]
  /\ lock' = [lock EXCEPT ![p] = "none"]
  /\ sentinel' = TRUE
  /\ UNCHANGED <<stored, file, attempts>>

(* An exception in the block, nothing downloaded, or a sentinel that       *)
(* cannot be written: the lock is released, and there is no sentinel.      *)
BlockRaises(p) ==
  /\ place[p] \in {"skip", "pull", "pulled"}
  /\ place' = [place EXCEPT ![p] = "failed"]
  /\ lock' = [lock EXCEPT ![p] = "none"]
  /\ UNCHANGED <<stored, sentinel, file, attempts>>

(* The process is killed: the kernel releases the lock. *)
Kill(p) ==
  /\ place[p] \notin Ended
  /\ place' = [place EXCEPT ![p] = "killed"]
  /\ lock' = [lock EXCEPT ![p] = "none"]
  /\ UNCHANGED <<stored, sentinel, file, attempts>>

-----------------------------------------------------------------------------
Step(p) ==
  \/ LockShared(p) \/ Check(p) \/ Unlock(p) \/ LockExclusive(p) \/ Recheck(p)
  \/ Downgrade(p) \/ Reshare(p) \/ RemoveFile(p) \/ MakeDirs(p)
  \/ Pull(p) \/ PullsReturn(p) \/ WriteSentinel(p) \/ BlockRaises(p) \/ Exit(p)

ModelNext ==
  \E p \in Procs : Start(p) \/ Step(p) \/ ConstructorRaises(p) \/ Kill(p)

ModelSpec == ModelInit /\ [][ModelNext]_modelVars

(* A process that is not killed goes on, and flock gives the lock to one   *)
(* of those that wait for it.                                              *)
ModelFairSpec == ModelSpec /\ \A p \in Procs : WF_modelVars(Step(p))

-----------------------------------------------------------------------------
(* Properties *)

(* The types, and which lock a process has at which place. *)
ModelTypeOK ==
  /\ stored \subseteq Files
  /\ place \in [Procs -> Ended \cup Constructor \cup Block]
  /\ lock \in [Procs -> {"none", "SH", "EX"}]
  /\ sentinel \in BOOLEAN
  /\ file \in [Files -> {"absent", "partial", "whole"}]
  /\ attempts \in [Procs -> Nat]
  /\ \A p \in Procs :
       lock[p] = IF place[p] \in {"exclusive", "downgrade", "clean", "pull",
                               "pulled", "written"} THEN "EX"
                 ELSE IF place[p] \in {"shared", "unlock", "skip"} THEN "SH"
                 ELSE "none"

(* Nobody else has the lock of a process that has it for itself. *)
Exclusion ==
  \A p \in Procs : lock[p] = "EX" => \A q \in Procs \ {p} : lock[q] = "none"

(* The sentinel is there only when every file of the model is, whole:      *)
(* whatever failed or was killed before, in whichever step.                *)
SentinelMeansWhole ==
  sentinel => stored # {} /\ \A f \in stored : file[f] = "whole"

(* Who was told that the download is complete, or has completed it, has    *)
(* its files for good, after it has released the lock too: no process that *)
(* looked earlier removes or rewrites them.                                *)
UsersKeepFiles ==
  \A p \in Procs :
    place[p] \in {"skip", "written", "done"} =>
      stored # {} /\ \A f \in stored : file[f] = "whole"

(* Every attempt ends: the processes do not wait for each other, even if   *)
(* two find no sentinel under the shared lock at the same time.            *)
AttemptsEnd ==
  \A p \in Procs : (place[p] \notin Ended) ~> (place[p] \in Ended)

(* A complete download is left alone. *)
CompleteIsFinal == [][sentinel => sentinel' /\ file' = file]_modelVars

=============================================================================
