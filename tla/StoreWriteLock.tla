--------------------------- MODULE StoreWriteLock ---------------------------
(***************************************************************************)
(* The lock every store writer takes (src/core/store-write-lock.ts):       *)
(* .ragit/runtime/store-write.lock, created with the exclusive flag, its   *)
(* owner written after that, inspected by whoever finds it, and removed by *)
(* its owner after reading it again.  Each element of Procs is one run of  *)
(* a writing command, and stands for the random token it draws.            *)
(*                                                                         *)
(* A writer may die anywhere.  Nothing in ragit removes the file it leaves *)
(* behind: an operator does, told by STORE_WRITE_LOCK_STALE to inspect it  *)
(* first, and looks and removes in two steps.  Operators work in turns:    *)
(* there is one at a time.                                                 *)
(***************************************************************************)
EXTENDS Naturals

CONSTANTS
    Procs, \* runs of writing commands
    Pids,  \* process ids, reused after a process ends
    Hosts, \* machines that share the repository
    Nobody

ASSUME ProcAssumption == Procs \cap {Nobody, "missing", "torn"} = {}

VARIABLES
    lockFile, \* "missing", "torn" (created, owner not written), or its owner
    stage,    \* where each process is
    pid,      \* the process id of each process
    host,     \* the machine it runs on
    found,    \* the owner each process read when it found the file taken
    operator  \* the owner whose death the operator has verified, or Nobody

lockVars == <<lockFile, stage, pid, host, found, operator>>

Running  == {"create", "write", "inspect", "probe", "work", "release", "remove"}
Finished == {"busy", "stale", "done", "dead"}
Holding  == {"work", "release", "remove"}
Owning   == {"write"} \cup Holding
Alive(p) == stage[p] \in Running

LockInit ==
    /\ lockFile = "missing"
    /\ stage = [p \in Procs |-> "new"]
    /\ pid \in [Procs -> Pids]
    /\ host \in [Procs -> Hosts]
    /\ found = [p \in Procs |-> Nobody]
    /\ operator = Nobody

Goto(p, label) == stage' = [stage EXCEPT ![p] = label]
Leave(p, from, to) == stage[p] = from /\ Goto(p, to)

\* A process id is free once its process has ended.
Start(p) ==
    /\ Leave(p, "new", "create")
    /\ \A q \in Procs : ~ (Alive(q) /\ pid[q] = pid[p] /\ host[q] = host[p])
    /\ UNCHANGED <<lockFile, pid, host, found, operator>>

CreateShared(p) == \* mutant: the file is opened without the exclusive flag
    /\ Leave(p, "create", "write")
    /\ lockFile' = "torn"
    /\ UNCHANGED <<pid, host, found, operator>>

\* writeFile with flag wx: creates the file, or fails with EEXIST.
Create(p) ==
    /\ IF lockFile = "missing"
       THEN Leave(p, "create", "write") /\ lockFile' = "torn"
       ELSE Leave(p, "create", "inspect") /\ UNCHANGED lockFile
    /\ UNCHANGED <<pid, host, found, operator>>

WriteOwner(p) ==
    /\ Leave(p, "write", "work")
    /\ lockFile' = p
    /\ UNCHANGED <<pid, host, found, operator>>

\* inspectStoreWriteLock reads the file: missing, unreadable and foreign owners
\* all end in STORE_WRITE_BUSY without a probe.
Inspect(p) ==
    /\ IF lockFile \in Procs /\ host[lockFile] = host[p]
       THEN Leave(p, "inspect", "probe") /\ found' = [found EXCEPT ![p] = lockFile]
       ELSE Leave(p, "inspect", "busy") /\ UNCHANGED found
    /\ UNCHANGED <<lockFile, pid, host, operator>>

\* process.kill(pid, 0) on host h: whoever has that id by now answers.
PidAlive(q, h) == \E r \in Procs : Alive(r) /\ host[r] = h /\ pid[r] = pid[q]

ProbeNothing(p) == \* mutant: a lock found on this host counts as stale
    /\ Leave(p, "probe", "stale")
    /\ UNCHANGED <<lockFile, pid, host, found, operator>>

Probe(p) ==
    /\ Leave(p, "probe", IF PidAlive(found[p], host[p]) THEN "busy" ELSE "stale")
    /\ UNCHANGED <<lockFile, pid, host, found, operator>>

\* The operation of withStoreWriteLock returns or throws.
Finish(p) ==
    /\ Leave(p, "work", "release")
    /\ UNCHANGED <<lockFile, pid, host, found, operator>>

KeepLock(p) == \* mutant: the operation throws past the release
    /\ Leave(p, "release", "done")
    /\ UNCHANGED <<lockFile, pid, host, found, operator>>

\* releaseStoreWriteLock: the owner is read and its token compared ...
ReadOwner(p) ==
    /\ Leave(p, "release", IF lockFile = p THEN "remove" ELSE "done")
    /\ UNCHANGED <<lockFile, pid, host, found, operator>>

\* ... and only then, in a later step, is the file removed.
RemoveLock(p) ==
    /\ Leave(p, "remove", "done")
    /\ lockFile' = "missing"
    /\ UNCHANGED <<pid, host, found, operator>>

\* A kill, or an I/O error in a step of the lock itself.
Die(p) ==
    /\ Alive(p)
    /\ Goto(p, "dead")
    /\ UNCHANGED <<lockFile, pid, host, found, operator>>

\* The operator reads the file and sees that its process is gone.
OperatorInspect ==
    /\ operator = Nobody
    /\ lockFile \in Procs
    /\ ~ PidAlive(lockFile, host[lockFile])
    /\ operator' = lockFile
    /\ UNCHANGED <<lockFile, stage, pid, host, found>>

\* rm of whatever is there by then.
OperatorRemove ==
    /\ operator # Nobody
    /\ operator' = Nobody
    /\ lockFile' = "missing"
    /\ UNCHANGED <<stage, pid, host, found>>

Step(p) == Create(p) \/ WriteOwner(p) \/ Inspect(p) \/ Probe(p)
           \/ Finish(p) \/ ReadOwner(p) \/ RemoveLock(p)

LockNext ==
    \/ \E p \in Procs : Start(p) \/ Step(p) \/ Die(p)
    \/ OperatorInspect \/ OperatorRemove

LockSpec == LockInit /\ [][LockNext]_lockVars

\* Processes that do not die keep running; nothing makes the operator come.
FairLockSpec == LockSpec /\ \A p \in Procs : WF_lockVars(Step(p))

-----------------------------------------------------------------------------
\* The state has its type.
LockTypeOK ==
    /\ lockFile \in {"missing", "torn"} \cup Procs
    /\ stage \in [Procs -> {"new"} \cup Running \cup Finished]
    /\ pid \in [Procs -> Pids] /\ host \in [Procs -> Hosts]
    /\ found \in [Procs -> Procs \cup {Nobody}]
    /\ operator \in Procs \cup {Nobody}

\* Never do two writers own the lock: not in the window between the creation
\* of the file and the writing of its owner, not after a crash and the removal
\* of the stale file, not when a process id is reused.  This is what
\* IngestTransaction assumes.
MutualExclusion ==
    \A p, q \in Procs : stage[p] \in Owning /\ stage[q] \in Owning => p = q

\* Whoever works under the lock is the owner the file names, so every other
\* command that looks is told of the right process.
HolderIsNamed == \A p \in Procs : stage[p] \in Holding => lockFile = p

\* STORE_WRITE_LOCK_STALE is never raised about a process that still works:
\* however late the probe answers, the owner that was read is gone.
StaleOwnerIsGone ==
    \A p \in Procs : stage[p] = "stale" => stage[found[p]] \in Finished

\* A writer that does not die gives the lock back, however its operation ends,
\* and without an operator's help.
LockIsGivenBack == \A p \in Procs : lockFile = p ~> lockFile # p \/ stage[p] = "dead"
=============================================================================
