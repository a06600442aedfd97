---------------------------- MODULE ArtifactCache ----------------------------
(***************************************************************************)
(* One layer of the artifact cache on disk, and the processes that share   *)
(* the directory: agents and executors of one machine, each of which       *)
(* prunes the cache when it starts and then materializes layers for its    *)
(* tasks.  Calls of one process for the same layer share one flight.       *)
(*                                                                         *)
(* What happens in a temporary directory is private, so download and       *)
(* extraction are one step with two ends.  The layer's own directory is    *)
(* shared: renaming is one step, removing a tree is many, and the marker   *)
(* file goes in no particular order among the others.                      *)
(***************************************************************************)
EXTENDS Naturals

CONSTANTS
    Procs,
    Callers,      \* tasks of one process that want the layer
    Full,         \* number of files of a complete layer
    MaxFailures,  \* bound on failed downloads
    MaxCrashes    \* bound on crashes

ASSUME FullAssumption == Full \in Nat \ {0}

VARIABLES
    layer,     \* the directory: whether there, its marker, its files
    opened,    \* processes whose removal has the present directory open
    removers,  \* ghost: processes that have opened the layer to remove it
    torn,      \* ghost: files of a marked layer were removed since it came
    temp,      \* files of each process's extraction directory
    flight,    \* the step of each process's flight
    call,      \* what each caller does
    proc,      \* down, pruning, evicting, removing, serving
    failures,
    crashes

dir == <<layer, opened, removers, torn>>
vars == <<layer, opened, removers, torn, temp, flight, call, proc,
          failures, crashes>>

Absent == [there |-> FALSE, marker |-> FALSE, files |-> 0]

(* A directory that is there but has no marker: left by a removal that was *)
(* interrupted.                                                            *)
Leftover(n) == [there |-> TRUE, marker |-> FALSE, files |-> n]

Ready == layer.marker

Empty == ~layer.marker /\ layer.files = 0

Init ==
    /\ layer \in {Absent} \union {Leftover(n) : n \in 0..Full}
    /\ opened = {}
    /\ removers = {}
    /\ torn = FALSE
    /\ temp = [p \in Procs |-> 0]
    /\ flight = [p \in Procs |-> "none"]
    /\ call = [p \in Procs |-> [c \in Callers |-> "idle"]]
    /\ proc = [p \in Procs |-> "down"]
    /\ failures = 0
    /\ crashes = 0

-----------------------------------------------------------------------------
(* os.RemoveAll: open the directory, remove the entries found in it, then  *)
(* the directory of that name, which by then may be another one.           *)

OpenDir(p) ==
    /\ layer.there
    /\ opened' = opened \union {p}
    /\ removers' = removers \union {p}
    /\ UNCHANGED <<layer, torn>>

NothingToOpen == ~layer.there /\ UNCHANGED dir

RemoveEntry(p) ==
    /\ p \in opened
    /\ \/ layer.marker /\ layer' = [layer EXCEPT !.marker = FALSE]
       \/ layer.files > 0 /\ layer' = [layer EXCEPT !.files = @ - 1]
    /\ torn' = (torn \/ layer.marker)
    /\ UNCHANGED <<opened, removers>>

RemoveDir ==
    /\ layer.there /\ Empty
    /\ layer' = Absent
    /\ opened' = {}
    /\ UNCHANGED <<removers, torn>>

(* No entry is left of what was opened: the directory goes, or has gone.   *)
RemovalEnds == RemoveDir \/ NothingToOpen

(* Another directory has taken the place, and it is not empty.             *)
RemovalFails(p) == p \notin opened /\ layer.there /\ ~Empty /\ UNCHANGED dir

-----------------------------------------------------------------------------
(* The start of a process: pruneCache                                      *)

ProcGoes(p, label) ==
    /\ proc' = [proc EXCEPT ![p] = label]
    /\ UNCHANGED <<temp, flight, call, failures, crashes>>

StartProcess(p) ==
    /\ proc[p] = "down"
    /\ ProcGoes(p, "pruning")
    /\ UNCHANGED dir

(* inspectLayers: a directory without a marker goes; one with a marker     *)
(* goes when the cache is too large and it was not used for long.  Whoever *)
(* uses it is not asked.  A read fails when what is listed goes meanwhile.  *)
Inspect(p) ==
    /\ proc[p] = "pruning"
    /\ \/ layer.there /\ ProcGoes(p, "evicting")
       \/ (layer.there => Ready) /\ ProcGoes(p, "serving")
       \/ ProcGoes(p, "down")
    /\ UNCHANGED dir

(* An error ends the process: Init returns it.                             *)
Evict(p) ==
    \/ /\ proc[p] = "evicting"
       /\ \/ OpenDir(p) /\ ProcGoes(p, "removing")
          \/ NothingToOpen /\ ProcGoes(p, "serving")
    \/ /\ proc[p] = "removing"
       /\ \/ RemoveEntry(p) /\ ProcGoes(p, "removing")
          \/ RemovalEnds /\ ProcGoes(p, "serving")
          \/ RemovalFails(p) /\ ProcGoes(p, "down")

-----------------------------------------------------------------------------
(* Ensure                                                                  *)

Fly(p, label) == flight' = [flight EXCEPT ![p] = label]

Others(p, c) == {d \in Callers \ {c} : call[p][d] = "waiting"}

(* DoChan: start a flight or join the one under way.                       *)
Ensure(p, c) ==
    /\ proc[p] = "serving" /\ call[p][c] = "idle"
    /\ call' = [call EXCEPT ![p][c] = "waiting"]
    /\ Fly(p, IF flight[p] = "none" THEN "lookup" ELSE flight[p])
    /\ UNCHANGED <<dir, temp, proc, failures, crashes>>

(* Faulty variant: the flight works in the context of its caller, and the  *)
(* others get its error.                                                   *)
Leaving_Bound(p, c) ==
    /\ Fly(p, "none")
    /\ call' = [call EXCEPT ![p] =
                   [d \in Callers |-> IF d = c THEN "idle"
                                      ELSE IF d \in Others(p, c) THEN "failed"
                                      ELSE @[d]]]

(* Faulty variant: the flight ends with its caller, and nobody is told.    *)
Leaving_Mute(p, c) ==
    /\ Fly(p, "none")
    /\ call' = [call EXCEPT ![p][c] = "idle"]

(* The flight is detached from its callers: WithoutCancel.                 *)
Leaving(p, c) ==
    /\ call' = [call EXCEPT ![p][c] = "idle"]
    /\ UNCHANGED flight

(* The caller's context ends: it leaves, with an error of its own.         *)
Leave(p, c) ==
    /\ call[p][c] = "waiting"
    /\ Leaving(p, c)
    /\ UNCHANGED <<dir, temp, proc, failures, crashes>>

(* The task is over, or the caller has seen the error.                     *)
EndTask(p, c) ==
    /\ call[p][c] \in {"using", "failed"}
    /\ call' = [call EXCEPT ![p][c] = "idle"]
    /\ UNCHANGED <<dir, temp, flight, proc, failures, crashes>>

-----------------------------------------------------------------------------
(* The flight: ensureOnce, materialize, commitLayer                        *)

(* The flight is over, its extraction directory gone, and all who wait for *)
(* it have its result.                                                     *)
Deliver(p, result) ==
    /\ Fly(p, "none")
    /\ temp' = [temp EXCEPT ![p] = 0]
    /\ call' = [call EXCEPT ![p] =
                   [c \in Callers |->
                      IF @[c] = "waiting" THEN result ELSE @[c]]]

Continue(p, label) == Fly(p, label) /\ UNCHANGED <<temp, call>>

Local == UNCHANGED <<proc, failures, crashes>>

LookUp(p) ==
    /\ flight[p] = "lookup"
    /\ \/ Ready /\ Deliver(p, "using")
       \/ ~Ready /\ Continue(p, "fetch")
    /\ UNCHANGED dir /\ Local

(* Faulty variant: a download that broke off is extracted as far as it got.*)
FetchFailed_Partial(p) ==
    /\ temp' = [temp EXCEPT ![p] = Full - 1]
    /\ Fly(p, "rename")
    /\ UNCHANGED call

(* Size or checksum do not match, or the extraction fails.                 *)
FetchFailed(p) == Deliver(p, "failed")

Fetch(p) ==
    /\ flight[p] = "fetch"
    /\ \/ /\ temp' = [temp EXCEPT ![p] = Full]
          /\ Fly(p, "rename")
          /\ UNCHANGED <<call, failures>>
       \/ /\ failures < MaxFailures
          /\ failures' = failures + 1
          /\ FetchFailed(p)
    /\ UNCHANGED <<dir, proc, crashes>>

Commit(p) ==
    /\ ~layer.there
    /\ layer' = [there |-> TRUE, marker |-> TRUE, files |-> temp[p]]
    /\ torn' = FALSE
    /\ Deliver(p, "using")
    /\ UNCHANGED <<opened, removers>>

(* os.Rename does not replace a directory.                                 *)
Rename(p) ==
    /\ flight[p] = "rename"
    /\ \/ Commit(p)
       \/ layer.there /\ Continue(p, "check") /\ UNCHANGED dir
    /\ Local

(* Somebody else has committed it meanwhile, or what is there is no good.  *)
Check(p) ==
    /\ flight[p] = "check"
    /\ \/ Ready /\ Deliver(p, "using")
       \/ ~Ready /\ Continue(p, "remove")
    /\ UNCHANGED dir /\ Local

Remove(p) ==
    /\ \/ /\ flight[p] = "remove"
          /\ \/ OpenDir(p) /\ Continue(p, "removing")
             \/ NothingToOpen /\ Continue(p, "again")
       \/ /\ flight[p] = "removing"
          /\ \/ RemoveEntry(p) /\ Continue(p, "removing")
             \/ RemovalEnds /\ Continue(p, "again")
             \/ RemovalFails(p) /\ Deliver(p, "failed")
    /\ Local

RenameAgain(p) ==
    /\ flight[p] = "again"
    /\ \/ Commit(p)
       \/ layer.there /\ Continue(p, "lastcheck") /\ UNCHANGED dir
    /\ Local

LastCheck(p) ==
    /\ flight[p] = "lastcheck"
    /\ \/ Ready /\ Deliver(p, "using")
       \/ ~Ready /\ Deliver(p, "failed")
    /\ UNCHANGED dir /\ Local

Flight(p) == LookUp(p) \/ Fetch(p) \/ Rename(p) \/ Check(p) \/ Remove(p)
             \/ RenameAgain(p) \/ LastCheck(p)

-----------------------------------------------------------------------------

Crash(p) ==
    /\ proc[p] # "down" /\ crashes < MaxCrashes
    /\ crashes' = crashes + 1
    /\ proc' = [proc EXCEPT ![p] = "down"]
    /\ Fly(p, "none")
    /\ temp' = [temp EXCEPT ![p] = 0]
    /\ call' = [call EXCEPT ![p] = [c \in Callers |-> "idle"]]
    /\ opened' = opened \ {p}
    /\ UNCHANGED <<layer, removers, torn, failures>>

Next ==
    \E p \in Procs :
        \/ StartProcess(p) \/ Inspect(p) \/ Evict(p) \/ Crash(p)
        \/ Flight(p)
        \/ \E c \in Callers : Ensure(p, c) \/ Leave(p, c) \/ EndTask(p, c)

Spec == Init /\ [][Next]_vars

(* A flight has ten minutes for the download, and its other steps are      *)
(* local.  Nobody need start, call, leave or crash.                        *)
FairSpec == Spec /\ \A p \in Procs : WF_vars(Flight(p))

-----------------------------------------------------------------------------
(* Properties                                                              *)

FlightSteps == {"none", "lookup", "fetch", "rename", "check", "remove",
                "removing", "again", "lastcheck"}

(* The types of the variables; the marker and files are in a directory,    *)
(* and a directory that is open for removal exists.                        *)
TypeOK ==
    /\ layer \in [there : BOOLEAN, marker : BOOLEAN, files : 0..Full]
    /\ ~layer.there => Empty /\ opened = {}
    /\ opened \subseteq Procs
    /\ removers \subseteq Procs
    /\ torn \in BOOLEAN
    /\ temp \in [Procs -> 0..Full]
    /\ flight \in [Procs -> FlightSteps]
    /\ call \in [Procs -> [Callers -> {"idle", "waiting", "using", "failed"}]]
    /\ proc \in [Procs -> {"down", "pruning", "evicting", "removing",
                           "serving"}]

(* A task that was given the layer finds all of it, whichever process has  *)
(* put it there and whatever was there before, as long as nobody has begun *)
(* to remove a marked layer since.                                         *)
UsedIsComplete ==
    \A p \in Procs, c \in Callers :
        call[p][c] = "using" => (Ready /\ layer.files = Full) \/ torn

(* Callers share a flight, not each other's fate: when one gets an error,  *)
(* a download has failed or another process has begun to remove what is    *)
(* there, be it while cleaning or to commit its own; that somebody else's  *)
(* task was cancelled is never the cause.                                  *)
FailureHasCause ==
    \A p \in Procs, c \in Callers :
        call[p][c] = "failed" => failures > 0 \/ removers \ {p} # {}

(* Nobody waits for ever: neither for a flight that another caller has     *)
(* started and left, nor because of what lies in the directory, nor        *)
(* because other processes remove what this one has put there.             *)
EveryCallEnds ==
    \A p \in Procs, c \in Callers :
        call[p][c] = "waiting" ~> call[p][c] # "waiting"
=============================================================================
