---------------------------- MODULE UploadPipeline ----------------------------
(***************************************************************************)
(* NodepotServer and CapeForwarder together: nodepot_logs, which the one   *)
(* appends to and the other works off, and the uploads directory, which    *)
(* the forwarder reads while the server writes.  That the forwarder sees   *)
(* the server's directory is the operator's affair (its UPLOADS_DIR).      *)
(***************************************************************************)
EXTENDS NodepotServer

CONSTANTS
  Workers, DedupWindow, LockExpire,   \* see CapeForwarder
  MaxTime, MaxFaults, MaxCrashes, MaxTasks   \* bounds

ASSUME PipelineAssumption ==
  {DedupWindow, LockExpire, MaxTime, MaxFaults, MaxCrashes, MaxTasks}
    \subseteq Nat

VARIABLES
  logs, worker, tasks, results, now, faults, crashes, lapsed, misread,
  damage   \* history: how often logged uploads and their files came apart

forwarderVars ==
  <<logs, worker, tasks, results, now, faults, crashes, lapsed, misread>>
vars == <<serverVars, forwarderVars, damage>>

(* The files of the logged uploads.                                        *)
Stored == [k \in 1..Len(uploads) |-> disk[uploads[k].name]]

Forwarder == INSTANCE CapeForwarder WITH
  Contents <- Contents \cup {Partial}, MaxUploads <- MaxRequests,
  stored   <- Stored

Init == ServerInit /\ Forwarder!Init /\ damage = 0

(* The document of an upload as the forwarder finds it.                    *)
Fresh(k) ==
  LET d == uploads'[k] IN
  [sha256 |-> d.sum, filename |-> requests[d.request].filename,
   timestamp |-> now, forwarded |-> FALSE, dead |-> FALSE,
   processing |-> FALSE, processing_at |-> 0, updated_at |-> None,
   cape_sha256 |-> None, duplicate_of |-> None]

Grows == Len(uploads') > Len(uploads)

Damages ==
  \/ \E k \in 1..Len(uploads) : Stored'[k] # Stored[k]
  \/ Grows /\ Stored'[Len(uploads')] # uploads'[Len(uploads')].sum

ServerStep ==
  /\ ServerNext
  /\ logs' = IF Grows THEN Append(logs, Fresh(Len(uploads'))) ELSE logs
  /\ damage' = IF Damages THEN damage + 1 ELSE damage
  /\ UNCHANGED <<worker, tasks, results, now, faults, crashes, lapsed,
                 misread>>

ForwarderStep(w) ==
  /\ UNCHANGED <<serverVars, damage>>
  /\ Forwarder!WorkerStep(w)

WorkerDies(w) ==
  /\ UNCHANGED <<serverVars, damage>>
  /\ Forwarder!Crash(w)

Elsewhere ==
  /\ UNCHANGED <<serverVars, damage>>
  /\ Forwarder!CapeReport \/ Forwarder!Tick

Next ==
  \/ ServerStep \/ Elsewhere
  \/ \E w \in Workers : ForwarderStep(w) \/ WorkerDies(w)

Spec == Init /\ [][Next]_vars

-----------------------------------------------------------------------------
(* What CapeForwarder takes the server for: uploads appear at once, and    *)
(* everything that can go wrong with their files is one of its faults.     *)
Abstract == INSTANCE CapeForwarder WITH
  Contents <- Contents \cup {Partial}, MaxUploads <- MaxRequests,
  stored   <- Stored,
  faults   <- faults + damage, MaxFaults <- MaxFaults + 3 * MaxRequests

(* Whatever the server's requests do to each other, the forwarder sees one *)
(* of the behaviours CapeForwarder has.                                    *)
IsForwarder == Abstract!Spec
=============================================================================
