------------------------- MODULE ArtifactCacheProofs -------------------------
(***************************************************************************)
(* Theorems on the artifact cache, for any number of processes, callers,   *)
(* files, failures and crashes.  That every call ends is left to TLC.      *)
(***************************************************************************)
EXTENDS ArtifactCache, TLAPS

(* Types, part by part                                                     *)

Layers == [there : BOOLEAN, marker : BOOLEAN, files : 0..Full]

Calls == {"idle", "waiting", "using", "failed"}

DirTypes ==
    /\ layer \in Layers
    /\ ~layer.there => Empty /\ opened = {}
    /\ opened \subseteq Procs /\ removers \subseteq Procs /\ torn \in BOOLEAN

FlightTypes ==
    temp \in [Procs -> 0..Full] /\ flight \in [Procs -> FlightSteps]

ProcTypes ==
    proc \in [Procs -> {"down", "pruning", "evicting", "removing", "serving"}]

CallTypes == call \in [Procs -> [Callers -> Calls]]

-----------------------------------------------------------------------------
(* The parts make the whole.                                               *)
LEMMA CacheTypesByPart ==
    TypeOK <=> DirTypes /\ FlightTypes /\ ProcTypes /\ CallTypes
BY DEF TypeOK, DirTypes, FlightTypes, ProcTypes, CallTypes, Layers, Calls

(* What a removal or a commit can do to the directory.                     *)
LEMMA DirTypesStay ==
    ASSUME DirTypes, NEW p \in Procs,
           \/ OpenDir(p) \/ NothingToOpen \/ RemoveEntry(p) \/ RemoveDir
           \/ UNCHANGED dir
    PROVE  DirTypes'
<1> USE DEF DirTypes, Empty
<1>1. CASE OpenDir(p) \/ NothingToOpen \/ UNCHANGED dir
  BY <1>1 DEF OpenDir, NothingToOpen, dir
<1>2. CASE RemoveEntry(p)
  <2>1. layer.there
    BY <1>2 DEF RemoveEntry
  <2>2. layer' \in Layers /\ layer'.there
    <3>1. CASE layer' = [layer EXCEPT !.marker = FALSE]
      BY <2>1, <3>1 DEF Layers
    <3>2. CASE layer.files > 0 /\ layer' = [layer EXCEPT !.files = layer.files - 1]
      <4>1. layer.files - 1 \in 0..Full
        BY <3>2, FullAssumption DEF Layers
      <4> QED
        BY <2>1, <3>2, <4>1 DEF Layers
    <3> QED
      BY <1>2, <3>1, <3>2 DEF RemoveEntry
  <2>3. torn' \in BOOLEAN
    BY <1>2 DEF RemoveEntry, Layers
  <2> QED
    BY <1>2, <2>2, <2>3 DEF RemoveEntry
<1>3. CASE RemoveDir
  BY <1>3, FullAssumption DEF RemoveDir, Absent, Layers
<1> QED
  BY <1>1, <1>2, <1>3

(* What a flight that commits leaves behind.                               *)
LEMMA CommitTypes ==
    ASSUME DirTypes, FlightTypes, NEW p \in Procs, Commit(p)
    PROVE  /\ DirTypes'
           /\ layer'.there /\ layer'.marker /\ layer'.files = temp[p] /\ ~torn'
BY DEF DirTypes, FlightTypes, Commit, Layers, Empty

(* Every change of the directory is one of these.                          *)
DirStep(p) ==
    \/ OpenDir(p) \/ NothingToOpen \/ RemoveEntry(p)
    \/ (flight[p] = "removing" \/ proc[p] = "removing") /\ RemoveDir
    \/ flight[p] \in {"rename", "again"} /\ Commit(p)
    \/ UNCHANGED dir

LEMMA EveryDirStep ==
    ASSUME NEW p \in Procs,
           \/ StartProcess(p) \/ Inspect(p) \/ Evict(p) \/ Flight(p)
           \/ \E c \in Callers : Ensure(p, c) \/ Leave(p, c) \/ EndTask(p, c)
    PROVE  DirStep(p)
<1>1. CASE StartProcess(p) \/ Inspect(p)
  BY <1>1 DEF StartProcess, Inspect, DirStep
<1>2. CASE Evict(p)
  BY <1>2 DEF Evict, RemovalEnds, RemovalFails, DirStep
<1>3. CASE LookUp(p) \/ Fetch(p) \/ Check(p) \/ LastCheck(p)
  BY <1>3 DEF LookUp, Fetch, Check, LastCheck, DirStep
<1>4. CASE Rename(p) \/ RenameAgain(p)
  BY <1>4 DEF Rename, RenameAgain, DirStep
<1>5. CASE Remove(p)
  BY <1>5 DEF Remove, RemovalEnds, RemovalFails, DirStep
<1>6. ASSUME NEW c \in Callers, Ensure(p, c) \/ Leave(p, c) \/ EndTask(p, c)
      PROVE  DirStep(p)
  BY <1>6 DEF Ensure, Leave, EndTask, DirStep
<1> QED
  BY <1>1, <1>2, <1>3, <1>4, <1>5, <1>6 DEF Flight

(* What becomes of flight, extraction directory and callers of a process.  *)
LEMMA DeliverTypes ==
    ASSUME FlightTypes, CallTypes, NEW p \in Procs,
           NEW result \in {"using", "failed"}, Deliver(p, result)
    PROVE  /\ FlightTypes' /\ CallTypes'
           /\ flight' = [flight EXCEPT ![p] = "none"]
           /\ temp' = [temp EXCEPT ![p] = 0]
           /\ \A q \in Procs \ {p}, c \in Callers : call'[q][c] = call[q][c]
           /\ \A c \in Callers :
                call'[p][c] = IF call[p][c] = "waiting" THEN result ELSE call[p][c]
<1>1. call' = [call EXCEPT ![p] =
                 [c \in Callers |-> IF call[p][c] = "waiting" THEN result
                                    ELSE call[p][c]]]
  BY DEF Deliver
<1>2. [c \in Callers |-> IF call[p][c] = "waiting" THEN result ELSE call[p][c]]
         \in [Callers -> Calls]
  BY DEF CallTypes, Calls
<1>3. CallTypes'
  BY <1>1, <1>2 DEF CallTypes
<1>4. FlightTypes'
  BY FullAssumption DEF FlightTypes, FlightSteps, Deliver, Fly
<1> QED
  BY <1>1, <1>2, <1>3, <1>4 DEF CallTypes, Deliver, Fly

(* One process's step.                                                     *)
Step(p) ==
    \/ StartProcess(p) \/ Inspect(p) \/ Evict(p) \/ Crash(p)
    \/ Flight(p)
    \/ \E c \in Callers : Ensure(p, c) \/ Leave(p, c) \/ EndTask(p, c)

(* How far a flight's step brings its process.                             *)
FlightStep(p) ==
    \/ \E result \in {"using", "failed"} : Deliver(p, result)
    \/ \E label \in FlightSteps : Continue(p, label)
    \/ /\ temp' = [temp EXCEPT ![p] = Full] /\ UNCHANGED call
       /\ flight' = [flight EXCEPT ![p] = "rename"]

LEMMA EveryFlightStep ==
    ASSUME NEW p \in Procs, Flight(p)
    PROVE  FlightStep(p) /\ UNCHANGED proc
<1> USE DEF FlightStep, FlightSteps, Local
<1>1. CASE LookUp(p) \/ Check(p) \/ LastCheck(p)
  BY <1>1 DEF LookUp, Check, LastCheck
<1>2. CASE Fetch(p)
  BY <1>2 DEF Fetch, FetchFailed, Fly
<1>3. CASE Rename(p) \/ RenameAgain(p)
  BY <1>3 DEF Rename, RenameAgain, Commit
<1>4. CASE Remove(p)
  BY <1>4 DEF Remove
<1> QED
  BY <1>1, <1>2, <1>3, <1>4 DEF Flight

(* Steps of callers.                                                       *)
LEMMA CallerSteps ==
    ASSUME FlightTypes, CallTypes, NEW p \in Procs, NEW c \in Callers,
           Ensure(p, c) \/ Leave(p, c) \/ EndTask(p, c)
    PROVE  /\ FlightTypes' /\ CallTypes' /\ UNCHANGED <<dir, temp, proc, failures>>
           /\ \A q \in Procs : \A d \in Callers :
                 call'[q][d] = call[q][d] \/ call'[q][d] \in {"idle", "waiting"}
           /\ \A q \in Procs : \/ flight'[q] = flight[q]
                              \/ /\ q = p /\ flight'[q] = "lookup"
                                 /\ flight[q] = "none" /\ proc[q] = "serving"
           /\ \A q \in Procs \ {p} : call'[q] = call[q]
<1> DEFINE Becomes(value) == call' = [call EXCEPT ![p][c] = value]
<1>1. ASSUME NEW value \in {"idle", "waiting"}, Becomes(value)
      PROVE  /\ CallTypes'
             /\ \A q \in Procs : \A d \in Callers :
                 call'[q][d] = call[q][d] \/ call'[q][d] \in {"idle", "waiting"}
             /\ \A q \in Procs \ {p} : call'[q] = call[q]
  <2>1. call[p] \in [Callers -> Calls]
    BY DEF CallTypes
  <2>2. [call[p] EXCEPT ![c] = value] \in [Callers -> Calls]
    BY <2>1 DEF Calls
  <2>3. call' = [call EXCEPT ![p] = [call[p] EXCEPT ![c] = value]]
    BY <1>1 DEF CallTypes
  <2>4. CallTypes'
    BY <2>2, <2>3 DEF CallTypes
  <2>5. /\ call'[p] = [call[p] EXCEPT ![c] = value]
        /\ \A q \in Procs \ {p} : call'[q] = call[q]
    BY <2>3 DEF CallTypes
  <2>6. \A d \in Callers :
           call'[p][d] = call[p][d] \/ call'[p][d] \in {"idle", "waiting"}
    BY <2>1, <2>5
  <2> QED
    BY <2>4, <2>5, <2>6
<1>2. CASE Ensure(p, c)
  BY <1>1, <1>2 DEF Ensure, Fly, FlightTypes, FlightSteps
<1>3. CASE Leave(p, c) \/ EndTask(p, c)
  BY <1>1, <1>3 DEF Leave, Leaving, EndTask, FlightTypes
<1> QED
  BY <1>2, <1>3

(* Every step keeps the types.                                             *)
LEMMA CacheTypesStay ==
    ASSUME TypeOK, [Next]_vars
    PROVE  TypeOK'
<1>0. DirTypes /\ FlightTypes /\ ProcTypes /\ CallTypes
  BY CacheTypesByPart
<1>1. ASSUME NEW p \in Procs, Flight(p)
      PROVE  TypeOK'
  <2>1. FlightStep(p) /\ UNCHANGED proc /\ DirStep(p)
    BY <1>1, EveryFlightStep, EveryDirStep
  <2>2. DirTypes'
    BY <1>0, <2>1, DirTypesStay, CommitTypes DEF DirStep
  <2>3. FlightTypes' /\ CallTypes'
    <3>1. ASSUME NEW result \in {"using", "failed"}, Deliver(p, result)
          PROVE  FlightTypes' /\ CallTypes'
      BY <1>0, <3>1, DeliverTypes
    <3>2. ASSUME NEW label \in FlightSteps, Continue(p, label)
          PROVE  FlightTypes' /\ CallTypes'
      BY <1>0, <3>2 DEF Continue, Fly, FlightTypes, CallTypes
    <3>3. CASE /\ temp' = [temp EXCEPT ![p] = Full] /\ UNCHANGED call
               /\ flight' = [flight EXCEPT ![p] = "rename"]
      BY <1>0, <3>3, FullAssumption DEF FlightTypes, CallTypes, FlightSteps
    <3> QED
      BY <2>1, <3>1, <3>2, <3>3 DEF FlightStep
  <2> QED
    BY <1>0, <2>1, <2>2, <2>3, CacheTypesByPart
       DEF ProcTypes, TypeOK, DirTypes, FlightTypes, CallTypes, Layers, Calls
<1>2. ASSUME NEW p \in Procs, StartProcess(p) \/ Inspect(p) \/ Evict(p)
      PROVE  TypeOK'
  <2>1. DirStep(p)
    BY <1>2, EveryDirStep
  <2>2. DirTypes'
    BY <1>0, <2>1, DirTypesStay, CommitTypes DEF DirStep
  <2>3. UNCHANGED <<temp, flight, call>> /\ ProcTypes'
    BY <1>0, <1>2 DEF StartProcess, Inspect, Evict, ProcGoes, ProcTypes
  <2> QED
    BY <1>0, <2>2, <2>3
       DEF TypeOK, DirTypes, FlightTypes, ProcTypes, CallTypes, Layers, Calls
<1>3. ASSUME NEW p \in Procs, NEW c \in Callers,
             Ensure(p, c) \/ Leave(p, c) \/ EndTask(p, c)
      PROVE  TypeOK'
  <2>1. FlightTypes' /\ CallTypes' /\ UNCHANGED <<dir, temp, proc>>
    BY <1>0, <1>3, CallerSteps
  <2> QED
    BY <1>0, <2>1
       DEF dir, TypeOK, DirTypes, FlightTypes, ProcTypes, CallTypes, Layers,
           Calls, Empty
<1>4. ASSUME NEW p \in Procs, Crash(p)
      PROVE  TypeOK'
  <2>1. DirTypes'
    BY <1>0, <1>4 DEF Crash, DirTypes, Empty
  <2>2. FlightTypes' /\ ProcTypes'
    BY <1>0, <1>4, FullAssumption
       DEF Crash, Fly, FlightTypes, ProcTypes, FlightSteps
  <2>3. CallTypes'
    BY <1>0, <1>4 DEF Crash, CallTypes, Calls
  <2> QED
    BY <2>1, <2>2, <2>3
       DEF TypeOK, DirTypes, FlightTypes, ProcTypes, CallTypes, Layers, Calls
<1>5. CASE UNCHANGED vars
  BY <1>5 DEF vars, dir, TypeOK, Empty
<1> QED
  BY <1>1, <1>2, <1>3, <1>4, <1>5 DEF Next

-----------------------------------------------------------------------------
(* Completeness                                                            *)

(* A marked layer is complete, unless it is being removed.                 *)
MarkedIsFull == layer.marker => layer.files = Full \/ torn

(* What is to be committed was extracted to the end.                       *)
Extracted ==
    \A p \in Procs : flight[p] \notin {"none", "lookup", "fetch"} => temp[p] = Full

(* Removing and committing keep that true, and keep it for those who use   *)
(* the layer.                                                              *)
LEMMA MarkedIsFullStays ==
    ASSUME TypeOK, MarkedIsFull, Extracted, NEW p \in Procs, DirStep(p)
    PROVE  /\ MarkedIsFull'
           /\ (Ready /\ layer.files = Full) \/ torn
                => (Ready' /\ layer'.files = Full) \/ torn'
<1>0. DirTypes /\ FlightTypes
  BY CacheTypesByPart
<1>1. CASE OpenDir(p) \/ NothingToOpen \/ UNCHANGED dir
  BY <1>1 DEF OpenDir, NothingToOpen, dir, MarkedIsFull, Ready
<1>2. CASE RemoveEntry(p)
  <2>1. torn' = (torn \/ layer.marker)
    BY <1>2 DEF RemoveEntry
  <2>2. CASE layer.marker
    BY <2>1, <2>2 DEF MarkedIsFull
  <2>3. CASE ~layer.marker
    <3>1. ~layer'.marker
      BY <1>0, <1>2, <2>3 DEF RemoveEntry, DirTypes, Layers
    <3> QED
      BY <2>1, <2>3, <3>1 DEF MarkedIsFull, Ready
  <2> QED
    BY <2>2, <2>3
<1>3. CASE RemoveDir
  BY <1>3 DEF RemoveDir, Absent, Empty, MarkedIsFull, Ready
<1>4. CASE flight[p] \in {"rename", "again"} /\ Commit(p)
  <2>1. temp[p] = Full
    BY <1>4 DEF Extracted
  <2>2. layer'.marker /\ layer'.files = Full
    BY <1>0, <1>4, <2>1, CommitTypes
  <2> QED
    BY <2>2 DEF MarkedIsFull, Ready
<1> QED
  BY <1>1, <1>2, <1>3, <1>4 DEF DirStep

(* Steps of a flight and their ends.                                       *)
LEMMA ExtractedStays ==
    ASSUME TypeOK, Extracted, [Next]_vars
    PROVE  Extracted'
<1>0. FlightTypes /\ CallTypes
  BY CacheTypesByPart
<1>1. ASSUME NEW p \in Procs, Flight(p)
      PROVE  Extracted'
  <2>1. ASSUME NEW result \in {"using", "failed"}, Deliver(p, result)
        PROVE  Extracted'
    BY <1>0, <2>1 DEF Deliver, Fly, Extracted, FlightTypes
  <2>2. ASSUME NEW label \in FlightSteps, Continue(p, label),
               label \notin {"lookup", "fetch", "none"} =>
                  flight[p] \notin {"lookup", "fetch", "none"}
        PROVE  Extracted'
    BY <1>0, <2>2 DEF Continue, Fly, Extracted, FlightTypes
  <2>3. CASE LookUp(p)
    BY <2>1, <2>2, <2>3 DEF LookUp, FlightSteps
  <2>4. CASE Fetch(p)
    BY <1>0, <2>1, <2>4 DEF Fetch, FetchFailed, Fly, Extracted, FlightTypes
  <2>5. CASE Rename(p) \/ RenameAgain(p)
    BY <2>1, <2>2, <2>5 DEF Rename, RenameAgain, Commit, FlightSteps
  <2>6. CASE Check(p) \/ LastCheck(p)
    BY <2>1, <2>2, <2>6 DEF Check, LastCheck, FlightSteps
  <2>7. CASE Remove(p)
    BY <2>1, <2>2, <2>7 DEF Remove, FlightSteps
  <2> QED
    BY <1>1, <2>3, <2>4, <2>5, <2>6, <2>7 DEF Flight
<1>2. ASSUME NEW p \in Procs, NEW c \in Callers,
             Ensure(p, c) \/ Leave(p, c) \/ EndTask(p, c)
      PROVE  Extracted'
  BY <1>0, <1>2, CallerSteps DEF Extracted
<1>3. ASSUME NEW p \in Procs, Crash(p)
      PROVE  Extracted'
  BY <1>0, <1>3 DEF Crash, Fly, Extracted, FlightTypes
<1>4. ASSUME NEW p \in Procs, StartProcess(p) \/ Inspect(p) \/ Evict(p)
      PROVE  Extracted'
  BY <1>4 DEF StartProcess, Inspect, Evict, ProcGoes, Extracted
<1>5. CASE UNCHANGED vars
  BY <1>5 DEF vars, Extracted
<1> QED
  BY <1>1, <1>2, <1>3, <1>4, <1>5 DEF Next

(* Who was given the layer goes on finding all of it.                      *)
LEMMA UsedIsCompleteStays ==
    ASSUME TypeOK, MarkedIsFull, Extracted, UsedIsComplete, [Next]_vars
    PROVE  MarkedIsFull' /\ UsedIsComplete'
<1>0. FlightTypes /\ CallTypes
  BY CacheTypesByPart
<1> DEFINE Good == (Ready /\ layer.files = Full) \/ torn
<1>a. ASSUME MarkedIsFull', Good => Good',
             \A p \in Procs, c \in Callers :
                call'[p][c] = "using" => call[p][c] = "using" \/ Good'
      PROVE  MarkedIsFull' /\ UsedIsComplete'
  BY <1>a DEF UsedIsComplete
<1>1. ASSUME NEW p \in Procs, Flight(p)
      PROVE  MarkedIsFull' /\ UsedIsComplete'
  <2>1. MarkedIsFull' /\ (Good => Good')
    BY <1>1, EveryDirStep, MarkedIsFullStays
  <2>2. ASSUME UNCHANGED call
        PROVE  MarkedIsFull' /\ UsedIsComplete'
    BY <1>a, <2>1, <2>2
  <2>3. ASSUME Deliver(p, "failed")
        PROVE  MarkedIsFull' /\ UsedIsComplete'
    BY <1>0, <1>a, <2>1, <2>3, DeliverTypes
  <2>4. ASSUME Deliver(p, "using"), Good'
        PROVE  MarkedIsFull' /\ UsedIsComplete'
    BY <1>a, <2>1, <2>4
  <2>5. Ready /\ UNCHANGED dir => Good'
    BY DEF MarkedIsFull, Ready, dir
  <2>6. ASSUME Commit(p), flight[p] \in {"rename", "again"}
        PROVE  Good'
    <3>1. temp[p] = Full
      BY <2>6 DEF Extracted
    <3>2. DirTypes
      BY CacheTypesByPart
    <3> QED
      BY <1>0, <2>6, <3>1, <3>2, CommitTypes DEF Ready
  <2>7. CASE LookUp(p) \/ Check(p) \/ LastCheck(p)
    BY <2>2, <2>3, <2>4, <2>5, <2>7 DEF LookUp, Check, LastCheck, Continue
  <2>8. CASE Fetch(p)
    BY <2>2, <2>3, <2>8 DEF Fetch, FetchFailed
  <2>9. CASE Rename(p) \/ RenameAgain(p)
    BY <2>2, <2>4, <2>6, <2>9 DEF Rename, RenameAgain, Commit, Continue
  <2>10. CASE Remove(p)
    BY <2>2, <2>3, <2>10 DEF Remove, Continue
  <2> QED
    BY <1>1, <2>7, <2>8, <2>9, <2>10 DEF Flight
<1>2. ASSUME NEW p \in Procs, NEW c \in Callers,
             Ensure(p, c) \/ Leave(p, c) \/ EndTask(p, c)
      PROVE  MarkedIsFull' /\ UsedIsComplete'
  <2>1. /\ UNCHANGED dir
        /\ \A q \in Procs, d \in Callers :
              call'[q][d] = "using" => call[q][d] = "using"
    BY <1>0, <1>2, CallerSteps
  <2> QED
    BY <1>a, <2>1 DEF dir, MarkedIsFull, Ready
<1>3. ASSUME NEW p \in Procs, Crash(p)
      PROVE  MarkedIsFull' /\ UsedIsComplete'
  <2>1. /\ layer' = layer /\ torn' = torn
        /\ \A q \in Procs, d \in Callers :
              call'[q][d] = "using" => call[q][d] = "using"
    BY <1>0, <1>3 DEF Crash, CallTypes
  <2> QED
    BY <1>a, <2>1 DEF MarkedIsFull, Ready
<1>4. ASSUME NEW p \in Procs, StartProcess(p) \/ Inspect(p) \/ Evict(p)
      PROVE  MarkedIsFull' /\ UsedIsComplete'
  <2>1. UNCHANGED call
    BY <1>4 DEF StartProcess, Inspect, Evict, ProcGoes
  <2>2. MarkedIsFull' /\ (Good => Good')
    BY <1>4, EveryDirStep, MarkedIsFullStays
  <2> QED
    BY <1>a, <2>1, <2>2
<1>5. CASE UNCHANGED vars
  BY <1>5 DEF vars, dir, MarkedIsFull, UsedIsComplete, Ready
<1> QED
  BY <1>1, <1>2, <1>3, <1>4, <1>5 DEF Next

-----------------------------------------------------------------------------
(* Causes of errors                                                        *)

(* Nobody but the process itself has begun to remove the layer.            *)
Alone(p) == removers \subseteq {p}

(* Flights are those of a process that serves; who has the directory open, *)
(* or is removing it, is known to have begun.                              *)
RemoversKnown ==
    /\ \A p \in Procs : flight[p] # "none" => proc[p] = "serving"
    /\ \A p \in Procs :
          flight[p] = "removing" \/ proc[p] = "removing" => p \in removers
    /\ opened \subseteq removers
    /\ failures \in Nat

(* What a flight finds when nobody else removes: the directory it has      *)
(* opened, and after that none but one that another process has committed. *)
AloneFindsItsOwn ==
    \A p \in Procs : Alone(p) =>
        /\ flight[p] = "removing" => p \in opened
        /\ flight[p] \in {"again", "lastcheck"} => (layer.there => layer.marker)
        /\ flight[p] = "lastcheck" => layer.there

CauseInv == RemoversKnown /\ AloneFindsItsOwn /\ FailureHasCause

(* Failures are only counted.                                              *)
LEMMA FailuresCounted ==
    ASSUME [Next]_vars
    PROVE  failures' \in {failures, failures + 1}
<1>1. ASSUME NEW p \in Procs, Flight(p)
      PROVE  failures' \in {failures, failures + 1}
  BY <1>1 DEF Flight, LookUp, Fetch, Rename, Check, Remove, RenameAgain,
              LastCheck, Local
<1>2. ASSUME NEW p \in Procs,
             StartProcess(p) \/ Inspect(p) \/ Evict(p) \/ Crash(p)
      PROVE  failures' = failures
  BY <1>2 DEF StartProcess, Inspect, Evict, ProcGoes, Crash
<1>3. ASSUME NEW p \in Procs, NEW c \in Callers,
             Ensure(p, c) \/ Leave(p, c) \/ EndTask(p, c)
      PROVE  failures' = failures
  BY <1>3 DEF Ensure, Leave, EndTask
<1> QED
  BY <1>1, <1>2, <1>3 DEF Next, vars

(* A process that takes something away has begun to remove.                *)
LEMMA RemoverIsKnown ==
    ASSUME TypeOK, RemoversKnown, [Next]_vars
    PROVE  RemoversKnown'
<1>0. FlightTypes /\ CallTypes /\ ProcTypes /\ DirTypes
  BY CacheTypesByPart
<1> USE DEF RemoversKnown
<1>f. failures' \in Nat
  BY FailuresCounted
<1>1. ASSUME NEW p \in Procs, Flight(p)
      PROVE  RemoversKnown'
  <2>1. UNCHANGED proc
    BY <1>1, EveryFlightStep
  <2>2. flight[p] # "none"
    BY <1>1 DEF Flight, LookUp, Fetch, Rename, Check, Remove, RenameAgain, LastCheck
  <2>3. \A q \in Procs \ {p} : flight'[q] = flight[q]
    BY <1>0, <1>1, EveryFlightStep
       DEF FlightStep, Deliver, Continue, Fly, FlightTypes
  <2>4. removers \subseteq removers' /\ opened' \subseteq removers'
    BY <1>1, EveryDirStep
       DEF DirStep, OpenDir, NothingToOpen, RemoveEntry, RemoveDir, Commit, dir
  <2>5. flight'[p] = "removing" => p \in removers'
    <3>1. CASE Remove(p)
      BY <1>0, <2>4, <3>1
         DEF Remove, OpenDir, Deliver, Continue, Fly, FlightTypes
    <3>2. CASE LookUp(p) \/ Fetch(p) \/ Rename(p) \/ Check(p) \/ RenameAgain(p)
                 \/ LastCheck(p)
      BY <1>0, <3>2
         DEF LookUp, Fetch, FetchFailed, Rename, Check, RenameAgain, LastCheck,
             Commit, Deliver, Continue, Fly, FlightTypes
    <3> QED
      BY <1>1, <3>1, <3>2 DEF Flight
  <2> QED
    BY <1>f, <2>1, <2>2, <2>3, <2>4, <2>5
<1>2. ASSUME NEW p \in Procs, NEW c \in Callers,
             Ensure(p, c) \/ Leave(p, c) \/ EndTask(p, c)
      PROVE  RemoversKnown'
  BY <1>0, <1>2, CallerSteps DEF dir
<1>3. ASSUME NEW p \in Procs, Crash(p)
      PROVE  RemoversKnown'
  BY <1>0, <1>3 DEF Crash, Fly, FlightTypes, ProcTypes
<1>4. ASSUME NEW p \in Procs, StartProcess(p) \/ Inspect(p) \/ Evict(p)
      PROVE  RemoversKnown'
  <2>1. removers \subseteq removers' /\ opened' \subseteq removers'
    BY <1>4, EveryDirStep
       DEF DirStep, OpenDir, NothingToOpen, RemoveEntry, RemoveDir, Commit, dir
  <2>2. flight' = flight /\ \E label : proc' = [proc EXCEPT ![p] = label]
    BY <1>4 DEF StartProcess, Inspect, Evict, ProcGoes
  <2>3. proc[p] # "serving" /\ (proc'[p] = "removing" => p \in removers')
    BY <1>0, <1>4, <2>1
       DEF StartProcess, Inspect, Evict, ProcGoes, OpenDir, ProcTypes
  <2> QED
    BY <1>0, <1>f, <2>1, <2>2, <2>3 DEF ProcTypes
<1>5. CASE UNCHANGED vars
  BY <1>5 DEF vars, dir
<1> QED
  BY <1>1, <1>2, <1>3, <1>4, <1>5 DEF Next

(* What others do leaves a flight that is alone with what it finds.        *)
LEMMA OthersLeaveAlone ==
    ASSUME TypeOK, RemoversKnown, NEW q \in Procs, DirStep(q) \/ Crash(q),
           NEW p \in Procs \ {q}
    PROVE  /\ Alone(p)' => Alone(p)
           /\ Alone(p)' /\ p \in opened => p \in opened'
           /\ Alone(p)' /\ (layer.there => layer.marker)
                => (layer'.there => layer'.marker)
           /\ Alone(p)' /\ layer.there => layer'.there
<1>0. DirTypes /\ FlightTypes
  BY CacheTypesByPart
<1>1. CASE OpenDir(q)
  BY <1>1 DEF OpenDir, Alone
<1>2. CASE NothingToOpen \/ UNCHANGED dir
  BY <1>2 DEF NothingToOpen, dir, Alone
<1>3. CASE RemoveEntry(q)
  BY <1>3 DEF RemoveEntry, Alone, RemoversKnown
<1>4. CASE (flight[q] = "removing" \/ proc[q] = "removing") /\ RemoveDir
  BY <1>4 DEF RemoveDir, Alone, RemoversKnown
<1>5. CASE Commit(q)
  <2>1. layer'.there /\ layer'.marker
    BY <1>0, <1>5, CommitTypes
  <2> QED
    BY <1>5, <2>1 DEF Commit, Alone
<1>6. CASE Crash(q)
  BY <1>6 DEF Crash, Alone
<1> QED
  BY <1>1, <1>2, <1>3, <1>4, <1>5, <1>6 DEF DirStep

OwnFind(p) ==
    /\ flight[p] = "removing" => p \in opened
    /\ flight[p] \in {"again", "lastcheck"} => (layer.there => layer.marker)
    /\ flight[p] = "lastcheck" => layer.there

(* A flight that is alone finds the directory it has opened, and then none *)
(* but a committed one.                                                    *)
LEMMA AloneFindsItsOwnStays ==
    ASSUME TypeOK, RemoversKnown, AloneFindsItsOwn, [Next]_vars
    PROVE  AloneFindsItsOwn'
<1>0. FlightTypes /\ CallTypes /\ ProcTypes /\ DirTypes
  BY CacheTypesByPart
<1>1. ASSUME NEW q \in Procs, DirStep(q) \/ Crash(q), NEW p \in Procs \ {q},
             flight'[p] = flight[p], Alone(p)'
      PROVE  OwnFind(p)'
  BY <1>1, OthersLeaveAlone DEF AloneFindsItsOwn, OwnFind
<1>2. ASSUME NEW p \in Procs, Flight(p), Alone(p)'
      PROVE  OwnFind(p)'
  <2>1. ASSUME NEW label \in FlightSteps, Continue(p, label)
        PROVE  flight'[p] = label
    BY <1>0, <2>1 DEF Continue, Fly, FlightTypes
  <2>2. ASSUME NEW result \in {"using", "failed"}, Deliver(p, result)
        PROVE  OwnFind(p)'
    BY <1>0, <2>2, DeliverTypes DEF OwnFind, FlightTypes
  <2>3. ASSUME flight'[p] \in {"lookup", "fetch", "rename", "check", "remove"}
        PROVE  OwnFind(p)'
    BY <2>3 DEF OwnFind
  <2>4. CASE LookUp(p) \/ Check(p)
    BY <2>1, <2>2, <2>3, <2>4 DEF LookUp, Check, FlightSteps
  <2>5. CASE Fetch(p)
    BY <1>0, <2>2, <2>3, <2>5 DEF Fetch, FetchFailed, Fly, FlightTypes
  <2>6. CASE Rename(p)
    BY <2>1, <2>2, <2>3, <2>6 DEF Rename, Commit, FlightSteps
  <2>7. CASE RenameAgain(p)
    <3>1. CASE layer.there /\ Continue(p, "lastcheck") /\ UNCHANGED dir
      <4>1. Alone(p) /\ flight[p] = "again"
        BY <1>2, <2>7, <3>1 DEF RenameAgain, Alone, dir
      <4>2. layer.marker
        BY <3>1, <4>1 DEF AloneFindsItsOwn
      <4> QED
        BY <2>1, <3>1, <4>2 DEF OwnFind, dir, FlightSteps
    <3> QED
      BY <2>2, <2>7, <3>1 DEF RenameAgain, Commit
  <2>8. CASE LastCheck(p)
    BY <2>2, <2>8 DEF LastCheck
  <2>9. CASE Remove(p)
    <3>1. CASE OpenDir(p) /\ Continue(p, "removing")
      BY <2>1, <3>1 DEF OpenDir, OwnFind, FlightSteps
    <3>2. CASE (NothingToOpen \/ RemovalEnds) /\ Continue(p, "again")
      <4>1. ~layer'.there
        BY <3>2 DEF NothingToOpen, RemovalEnds, RemoveDir, Absent, dir
      <4> QED
        BY <2>1, <3>2, <4>1 DEF OwnFind, FlightSteps
    <3>3. CASE RemoveEntry(p) /\ Continue(p, "removing")
      BY <2>1, <3>3 DEF RemoveEntry, OwnFind, FlightSteps
    <3> QED
      BY <2>2, <2>9, <3>1, <3>2, <3>3 DEF Remove
  <2> QED
    BY <1>2, <2>4, <2>5, <2>6, <2>7, <2>8, <2>9 DEF Flight
<1>3. ASSUME NEW q \in Procs, Flight(q), NEW p \in Procs, Alone(p)'
      PROVE  OwnFind(p)'
  <2>1. p # q => flight'[p] = flight[p]
    BY <1>0, <1>3, EveryFlightStep
       DEF FlightStep, Deliver, Continue, Fly, FlightTypes
  <2>2. DirStep(q)
    BY <1>3, EveryDirStep
  <2> QED
    BY <1>1, <1>2, <1>3, <2>1, <2>2
<1>4. ASSUME NEW q \in Procs, NEW c \in Callers,
             Ensure(q, c) \/ Leave(q, c) \/ EndTask(q, c),
             NEW p \in Procs, Alone(p)'
      PROVE  OwnFind(p)'
  <2>1. UNCHANGED dir /\ (flight'[p] = flight[p] \/ flight'[p] = "lookup")
    BY <1>0, <1>4, CallerSteps
  <2> QED
    BY <1>4, <2>1 DEF AloneFindsItsOwn, OwnFind, Alone, dir
<1>5. ASSUME NEW q \in Procs, Crash(q), NEW p \in Procs, Alone(p)'
      PROVE  OwnFind(p)'
  <2>1. CASE p = q
    BY <1>0, <1>5, <2>1 DEF Crash, Fly, OwnFind, FlightTypes
  <2>2. CASE p # q
    BY <1>0, <1>1, <1>5, <2>2 DEF Crash, Fly, FlightTypes
  <2> QED
    BY <2>1, <2>2
<1>6. ASSUME NEW q \in Procs, StartProcess(q) \/ Inspect(q) \/ Evict(q),
             NEW p \in Procs, Alone(p)'
      PROVE  OwnFind(p)'
  <2>1. flight' = flight /\ proc[q] # "serving"
    BY <1>6 DEF StartProcess, Inspect, Evict, ProcGoes
  <2>2. CASE p = q
    BY <2>1, <2>2 DEF OwnFind, RemoversKnown
  <2>3. CASE p # q
    BY <1>1, <1>6, <2>1, <2>3, EveryDirStep
  <2> QED
    BY <2>2, <2>3
<1>7. ASSUME UNCHANGED vars, NEW p \in Procs, Alone(p)'
      PROVE  OwnFind(p)'
  BY <1>7 DEF vars, dir, AloneFindsItsOwn, OwnFind, Alone
<1>8. ASSUME NEW p \in Procs, Alone(p)'
      PROVE  OwnFind(p)'
  BY <1>3, <1>4, <1>5, <1>6, <1>7, <1>8 DEF Next
<1> QED
  BY <1>8 DEF AloneFindsItsOwn, OwnFind

(* Whoever gets an error gets it for a reason.                             *)
LEMMA FailureHasCauseStays ==
    ASSUME TypeOK, RemoversKnown, AloneFindsItsOwn, FailureHasCause, [Next]_vars
    PROVE  FailureHasCause'
<1>0. FlightTypes /\ CallTypes /\ ProcTypes /\ DirTypes
  BY CacheTypesByPart
<1> DEFINE Cause(p) == failures > 0 \/ removers \ {p} # {}
<1>1. failures' >= failures /\ failures' \in Nat /\ removers \subseteq removers'
  <2>1. ASSUME NEW p \in Procs, DirStep(p) \/ Crash(p)
        PROVE  removers \subseteq removers'
    BY <2>1 DEF DirStep, OpenDir, NothingToOpen, RemoveEntry, RemoveDir, Commit,
                Crash, dir
  <2>2. CASE UNCHANGED vars
    BY <2>2 DEF vars, dir, RemoversKnown
  <2>3. CASE \E p \in Procs : Step(p)
    <3>1. PICK p \in Procs : Step(p)
      BY <2>3
    <3>2. DirStep(p) \/ Crash(p)
      BY <3>1, EveryDirStep DEF Step
    <3>3. failures \in Nat
      BY DEF RemoversKnown
    <3> QED
      BY <2>1, <3>2, <3>3, FailuresCounted
  <2> QED
    BY <2>2, <2>3 DEF Next, Step
<1>2. ASSUME NEW p \in Procs, Cause(p)
      PROVE  Cause(p)'
  BY <1>1, <1>2 DEF RemoversKnown
<1>a. ASSUME \A p \in Procs, c \in Callers :
                call'[p][c] = "failed" => call[p][c] = "failed" \/ Cause(p)'
      PROVE  FailureHasCause'
  <2> SUFFICES ASSUME NEW p \in Procs, NEW c \in Callers, call'[p][c] = "failed"
               PROVE  Cause(p)'
    BY DEF FailureHasCause
  <2>1. call[p][c] = "failed" => Cause(p)
    BY DEF FailureHasCause
  <2> QED
    BY <1>2, <1>a, <2>1
<1>3. ASSUME NEW p \in Procs, Flight(p)
      PROVE  FailureHasCause'
  <2>1. ASSUME UNCHANGED call
        PROVE  FailureHasCause'
    BY <1>a, <2>1
  <2>2. ASSUME Deliver(p, "using")
        PROVE  FailureHasCause'
    BY <1>0, <1>a, <2>2, DeliverTypes
  <2>3. ASSUME Deliver(p, "failed"), Cause(p)'
        PROVE  FailureHasCause'
    <3>1. \A q \in Procs \ {p}, c \in Callers : call'[q][c] = call[q][c]
      BY <1>0, <2>3, DeliverTypes
    <3> QED
      BY <1>a, <2>3, <3>1
  <2>4. ~Alone(p) => Cause(p)'
    BY <1>1 DEF Alone
  <2>5. CASE LookUp(p) \/ Check(p)
    BY <2>1, <2>2, <2>5 DEF LookUp, Check, Continue
  <2>6. CASE Fetch(p)
    <3>1. failures' = failures + 1 => Cause(p)'
      BY <1>1 DEF RemoversKnown
    <3> QED
      BY <2>1, <2>3, <2>6, <3>1 DEF Fetch, FetchFailed
  <2>7. CASE Rename(p) \/ RenameAgain(p)
    BY <2>1, <2>2, <2>7 DEF Rename, RenameAgain, Commit, Continue
  <2>8. CASE LastCheck(p)
    <3>1. ~Ready => ~Alone(p)
      BY <2>8 DEF LastCheck, Ready, AloneFindsItsOwn
    <3> QED
      BY <2>2, <2>3, <2>4, <2>8, <3>1 DEF LastCheck
  <2>9. CASE Remove(p)
    <3>1. flight[p] = "removing" /\ RemovalFails(p) => ~Alone(p)
      BY DEF RemovalFails, AloneFindsItsOwn
    <3> QED
      BY <2>1, <2>3, <2>4, <2>9, <3>1 DEF Remove, Continue
  <2> QED
    BY <1>3, <2>5, <2>6, <2>7, <2>8, <2>9 DEF Flight
<1>4. ASSUME NEW p \in Procs, NEW c \in Callers,
             Ensure(p, c) \/ Leave(p, c) \/ EndTask(p, c)
      PROVE  FailureHasCause'
  <2>1. \A q \in Procs, d \in Callers :
           call'[q][d] = call[q][d] \/ call'[q][d] \in {"idle", "waiting"}
    BY <1>0, <1>4, CallerSteps
  <2> QED
    BY <1>a, <2>1
<1>5. ASSUME NEW p \in Procs, Crash(p)
      PROVE  FailureHasCause'
  BY <1>0, <1>5, <1>a DEF Crash, CallTypes
<1>6. ASSUME NEW p \in Procs, StartProcess(p) \/ Inspect(p) \/ Evict(p)
      PROVE  FailureHasCause'
  BY <1>6, <1>a DEF StartProcess, Inspect, Evict, ProcGoes
<1>7. CASE UNCHANGED vars
  BY <1>7, <1>a DEF vars
<1> QED
  BY <1>3, <1>4, <1>5, <1>6, <1>7 DEF Next

-----------------------------------------------------------------------------
CacheInv == /\ TypeOK /\ MarkedIsFull /\ Extracted /\ UsedIsComplete
            /\ CauseInv

(* The invariant holds at first and every step keeps it.                   *)
LEMMA CacheInvHolds == Spec => []CacheInv
<1>1. Init => CacheInv
  <2> SUFFICES ASSUME Init PROVE CacheInv
    OBVIOUS
  <2>1. layer \in Layers /\ (~layer.there => Empty) /\ ~layer.marker
    <3>1. CASE layer = Absent
      BY <3>1, FullAssumption DEF Absent, Layers, Empty
    <3>2. ASSUME NEW n \in 0..Full, layer = Leftover(n)
          PROVE  layer \in Layers /\ layer.there /\ ~layer.marker
      BY <3>2 DEF Leftover, Layers
    <3> QED
      BY <3>1, <3>2 DEF Init
  <2>2. TypeOK
    <3>1. FlightTypes /\ ProcTypes /\ CallTypes
      BY FullAssumption
         DEF Init, FlightTypes, ProcTypes, CallTypes, FlightSteps, Calls
    <3>2. DirTypes
      BY <2>1 DEF Init, DirTypes
    <3> QED
      BY <3>1, <3>2, CacheTypesByPart
  <2>3. MarkedIsFull /\ Extracted /\ UsedIsComplete
    BY <2>1 DEF Init, MarkedIsFull, Extracted, UsedIsComplete
  <2>4. CauseInv
    BY DEF Init, CauseInv, RemoversKnown, AloneFindsItsOwn, FailureHasCause
  <2> QED
    BY <2>2, <2>3, <2>4 DEF CacheInv
<1>2. CacheInv /\ [Next]_vars => CacheInv'
  <2> SUFFICES ASSUME CacheInv, [Next]_vars PROVE CacheInv'
    OBVIOUS
  <2>1. TypeOK' /\ Extracted' /\ MarkedIsFull' /\ UsedIsComplete'
    BY CacheTypesStay, ExtractedStays, UsedIsCompleteStays DEF CacheInv
  <2>2. CauseInv'
    BY RemoverIsKnown, AloneFindsItsOwnStays, FailureHasCauseStays
       DEF CacheInv, CauseInv
  <2> QED
    BY <2>1, <2>2 DEF CacheInv
<1> QED
  BY <1>1, <1>2, PTL DEF Spec

(* The directory and the processes keep their types.                       *)
THEOREM CacheTypeOK == Spec => []TypeOK
<1>1. CacheInv => TypeOK
  BY DEF CacheInv
<1> QED
  BY <1>1, CacheInvHolds, PTL

(* A task that was given the layer finds all of it, as long as nobody has  *)
(* begun to remove a marked layer.                                         *)
THEOREM CacheUsedIsComplete == Spec => []UsedIsComplete
<1>1. CacheInv => UsedIsComplete
  BY DEF CacheInv
<1> QED
  BY <1>1, CacheInvHolds, PTL

(* An error has a cause: a failed download, or another process that has    *)
(* begun to remove the layer.                                              *)
THEOREM CacheFailureHasCause == Spec => []FailureHasCause
<1>1. CacheInv => FailureHasCause
  BY DEF CacheInv, CauseInv
<1> QED
  BY <1>1, CacheInvHolds, PTL
=============================================================================
