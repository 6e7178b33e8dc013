---------------------------- MODULE SessionLease ----------------------------
(***************************************************************************)
(* One stored session, several processes: the cross-process lock of        *)
(* maki-storage/src/session_lock.rs, the heartbeat thread that keeps it,   *)
(* and the checkpoints that are published under it                         *)
(* (maki-agent/src/session_checkpoint.rs), as the ACP server uses them.    *)
(*                                                                         *)
(* A lease stands for one attempt to open the session and for the token    *)
(* that attempt would write, so it is never reused; its process id may be  *)
(* shared with other leases, of the same process or of one that has the    *)
(* id after a restart.  The lock is two files, written in several steps    *)
(* under an advisory file lock that the system drops when its holder dies. *)
(* A process may crash, or a read or write fail, between any two of them.  *)
(* Time is one fact, whether the record is younger than STALE_AFTER, and   *)
(* it may end whenever: a holder may be slow, stopped or gone.             *)
(***************************************************************************)
EXTENDS Naturals

CONSTANTS Leases,          \* attempts to open the session, by their token
          Pids,            \* process ids
          PidOf,           \* the process id of each lease
          NoOne,           \* nobody: no holder of the file lock, no claimant
          MaxPublications, \* bound: checkpoints a lease tries to publish
          Faulty           \* bound: the leases that may see one beat or release fail

ASSUME LeaseAssumption ==
    /\ PidOf \in [Leases -> Pids]
    /\ Pids \cap {"absent", "empty", "released"} = {}
    /\ Leases \cap {"absent", "torn", NoOne} = {}
    /\ MaxPublications \in Nat /\ Faulty \subseteq Leases

VARIABLES
    record,    \* <id>.lock: a process id, or a content that is none
    sidecar,   \* <id>.lock.owner: whose token it holds
    fresh,     \* the record's mtime is at most STALE_AFTER away
    flock,     \* who has the file lock
    disk,      \* the leases whose turns the stored history contains
    stage,     \* how far each lease has come
    loaded,    \* the history it was opened with
    beat,      \* its heartbeat thread
    save,      \* its checkpoint worker
    saves,     \* bound: checkpoints it has tried to publish
    failed,    \* ghost: the leases with a beat or release that failed
    claimant   \* ghost: the last lease that began to overwrite the record

fileVars == <<record, sidecar, fresh, flock>>
leaseVars == <<stage, loaded, beat, save, saves, failed>>
vars == <<fileVars, disk, leaseVars, claimant>>

Init ==
    /\ record = "absent" /\ sidecar = "absent" /\ fresh = FALSE /\ flock = NoOne
    /\ disk = {}
    /\ stage = [l \in Leases |-> "new"] /\ loaded = [l \in Leases |-> {}]
    /\ beat = [l \in Leases |-> "off"]
    /\ save = [l \in Leases |-> "idle"] /\ saves = [l \in Leases |-> 0]
    /\ failed = {} /\ claimant = NoOne

(* Mutant: the token is not compared.                                       *)
OwnsByPid(l) == record = PidOf[l]

(* read_owner compared with the lease's own identity: the record has its    *)
(* pid and the sidecar, when it belongs to that record, its token.          *)
Owns(l) == record = PidOf[l] /\ sidecar = l

(* A record with a process id that is not too old is somebody's, with or    *)
(* without a token; anything else may be claimed.                           *)
Taken == record \in Pids /\ fresh

Goes(l, s) == stage' = [stage EXCEPT ![l] = s]
Beats(l, s) == beat' = [beat EXCEPT ![l] = s]
Saves(l, s) == save' = [save EXCEPT ![l] = s]

(* Every write to the record's file renews its mtime.                       *)
Write(content) == record' = content /\ fresh' = TRUE

----------------------------------------------------------------------------
(* Opening the session.                                                    *)

(* The history is loaded first ...                                          *)
Load(l) ==
    /\ stage[l] = "new"
    /\ Goes(l, "loaded")
    /\ loaded' = [loaded EXCEPT ![l] = disk]
    /\ UNCHANGED <<fileVars, disk, beat, save, saves, failed, claimant>>

(* ... then open_elsewhere looks at the record without any lock.            *)
CheckElsewhere(l) ==
    /\ stage[l] = "loaded"
    /\ Goes(l, IF Taken /\ record # PidOf[l] THEN "refused" ELSE "checked")
    /\ UNCHANGED <<fileVars, disk, loaded, beat, save, saves, failed, claimant>>

(* claim opens or creates the file and tries the file lock; it does not     *)
(* wait for it.                                                             *)
ClaimLocks(l) ==
    /\ stage[l] = "checked"
    /\ IF record = "absent" THEN Write("empty") ELSE UNCHANGED <<record, fresh>>
    /\ IF flock = NoOne THEN flock' = l /\ Goes(l, "locked")
                        ELSE UNCHANGED flock /\ Goes(l, "refused")
    /\ UNCHANGED <<sidecar, disk, loaded, beat, save, saves, failed, claimant>>

ClaimRefused(l) ==
    /\ stage[l] = "locked" /\ Taken
    /\ Goes(l, "refused")
    /\ flock' = NoOne
    /\ UNCHANGED <<record, sidecar, fresh, disk, loaded, beat, save, saves, failed, claimant>>

(* The record is not held: write_owner starts with the sidecar, which       *)
(* fs::write truncates first.                                               *)
ClaimBegins(l) ==
    /\ stage[l] = "locked" /\ ~Taken
    /\ Goes(l, "sidecar")
    /\ sidecar' = "torn"
    /\ claimant' = l
    /\ UNCHANGED <<record, fresh, flock, disk, loaded, beat, save, saves, failed>>

ClaimSidecar(l) ==
    /\ stage[l] = "sidecar"
    /\ Goes(l, "record")
    /\ sidecar' = l
    /\ UNCHANGED <<record, fresh, flock, disk, loaded, beat, save, saves, failed, claimant>>

(* write_record: truncate, then write.                                      *)
ClaimTruncates(l) ==
    /\ stage[l] = "record"
    /\ Goes(l, "pid")
    /\ Write("empty")
    /\ UNCHANGED <<sidecar, flock, disk, loaded, beat, save, saves, failed, claimant>>

(* The claim returns its lease; LockHeartbeat::spawn starts the thread.     *)
ClaimEnds(l) ==
    /\ stage[l] = "pid"
    /\ Goes(l, "held") /\ Beats(l, "asleep")
    /\ Write(PidOf[l])
    /\ flock' = NoOne
    /\ UNCHANGED <<sidecar, disk, loaded, save, saves, failed, claimant>>

(* A read or a write fails: the claim returns an error, its file is closed  *)
(* and what it had written stays.                                           *)
ClaimFails(l) ==
    /\ stage[l] \in {"locked", "sidecar", "record", "pid"}
    /\ Goes(l, "refused")
    /\ flock' = NoOne
    /\ UNCHANGED <<record, sidecar, fresh, disk, loaded, beat, save, saves, failed, claimant>>

----------------------------------------------------------------------------
(* The heartbeat thread.                                                   *)

(* Every HEARTBEAT_INTERVAL; a beat that does not get the file lock is an   *)
(* error that changes nothing.                                              *)
BeatLocks(l) ==
    /\ beat[l] = "asleep" /\ flock = NoOne
    /\ flock' = l
    /\ Beats(l, "locked")
    /\ UNCHANGED <<record, sidecar, fresh, disk, stage, loaded, save, saves, failed, claimant>>

(* Mutant: another owner's record is logged like a failed beat.             *)
BeatEndsKeepsOn(l) ==
    /\ beat[l] = "locked"
    /\ IF Owns(l) THEN Write("empty") /\ UNCHANGED flock /\ Beats(l, "write")
                  ELSE UNCHANGED <<record, fresh>> /\ flock' = NoOne /\ Beats(l, "asleep")
    /\ UNCHANGED <<sidecar, disk, stage, loaded, save, saves, failed, claimant>>

(* The beat rewrites the record while it is the lease's own.  Otherwise the *)
(* lease is lost: on_lost retires the coordinator and the thread ends.      *)
BeatEnds(l) ==
    /\ beat[l] = "locked"
    /\ IF Owns(l) THEN Write("empty") /\ UNCHANGED flock /\ Beats(l, "write")
                  ELSE UNCHANGED <<record, fresh>> /\ flock' = NoOne /\ Beats(l, "lost")
    /\ UNCHANGED <<sidecar, disk, stage, loaded, save, saves, failed, claimant>>

BeatWrites(l) ==
    /\ beat[l] = "write"
    /\ Write(PidOf[l])
    /\ flock' = NoOne
    /\ Beats(l, "asleep")
    /\ UNCHANGED <<sidecar, disk, stage, loaded, save, saves, failed, claimant>>

(* The session is closed, or the lost thread returns: the lease is dropped. *)
(* The release tries the file lock once; when it is taken the error is      *)
(* swallowed and the record stays as it is.                                 *)
Stop(l) ==
    /\ beat[l] \in {"asleep", "lost"}
    /\ IF flock = NoOne THEN flock' = l /\ Beats(l, "release")
                        ELSE UNCHANGED flock /\ Beats(l, "gone")
    /\ UNCHANGED <<record, sidecar, fresh, disk, stage, loaded, save, saves, failed, claimant>>

(* Mutant: whatever the record says is replaced.                            *)
ReleaseAny(l) ==
    /\ beat[l] = "release"
    /\ Write("empty") /\ UNCHANGED flock /\ Beats(l, "mark")
    /\ UNCHANGED <<sidecar, disk, stage, loaded, save, saves, failed, claimant>>

Release(l) ==
    /\ beat[l] = "release"
    /\ IF Owns(l) THEN Write("empty") /\ UNCHANGED flock /\ Beats(l, "mark")
                  ELSE UNCHANGED <<record, fresh>> /\ flock' = NoOne /\ Beats(l, "gone")
    /\ UNCHANGED <<sidecar, disk, stage, loaded, save, saves, failed, claimant>>

ReleaseMarks(l) ==
    /\ beat[l] = "mark"
    /\ Write("released")
    /\ flock' = NoOne
    /\ Beats(l, "gone")
    /\ UNCHANGED <<sidecar, disk, stage, loaded, save, saves, failed, claimant>>

(* A read or a write fails.  A thread that beats logs it and goes on, with  *)
(* the record truncated if the write was to follow; a release swallows it.  *)
BeatFails(l) ==
    /\ beat[l] \in {"locked", "write", "release", "mark"} /\ l \in Faulty \ failed
    /\ failed' = failed \cup {l}
    /\ flock' = NoOne
    /\ Beats(l, IF beat[l] \in {"locked", "write"} THEN "asleep" ELSE "gone")
    /\ UNCHANGED <<record, sidecar, fresh, disk, stage, loaded, save, saves, claimant>>

----------------------------------------------------------------------------
(* The checkpoint worker, one job at a time.  It outlives the heartbeat     *)
(* thread: jobs may be queued when the lease is lost or released.           *)

(* Mutant: the publication does not wait for the file lock.                 *)
PublishNoWait(l) ==
    /\ stage[l] = "held" /\ save[l] = "idle" /\ saves[l] < MaxPublications
    /\ Saves(l, "locked")
    /\ saves' = [saves EXCEPT ![l] = @ + 1]
    /\ UNCHANGED <<fileVars, disk, stage, loaded, beat, failed, claimant>>

(* SessionPublicationGuard::publish waits for the file lock.                *)
PublishLocks(l) ==
    /\ stage[l] = "held" /\ save[l] = "idle" /\ saves[l] < MaxPublications
    /\ flock = NoOne
    /\ flock' = l
    /\ Saves(l, "locked")
    /\ saves' = [saves EXCEPT ![l] = @ + 1]
    /\ UNCHANGED <<record, sidecar, fresh, disk, stage, loaded, beat, failed, claimant>>

(* It saves the history of the session, in place of the stored one.  The    *)
(* job is given up when the lease is no longer the record's, or the record  *)
(* cannot be read or the history written.                                   *)
Publish(l) ==
    /\ save[l] = "locked"
    /\ \/ Owns(l) /\ Saves(l, "saved") /\ disk' = loaded[l] \cup {l} /\ UNCHANGED flock
       \/ Saves(l, "idle") /\ flock' = NoOne /\ UNCHANGED disk
    /\ UNCHANGED <<record, sidecar, fresh, stage, loaded, beat, saves, failed, claimant>>

PublishUnlocks(l) ==
    /\ save[l] = "saved"
    /\ Saves(l, "idle")
    /\ flock' = NoOne
    /\ UNCHANGED <<record, sidecar, fresh, disk, stage, loaded, beat, saves, failed, claimant>>

----------------------------------------------------------------------------
(* A process dies with its threads and memory; the system releases its     *)
(* file lock.                                                              *)
Died(p) == {l \in Leases : PidOf[l] = p /\ stage[l] \notin {"new", "refused", "dead"}}

Crash(p) ==
    /\ Died(p) # {}
    /\ stage' = [l \in Leases |-> IF l \in Died(p) THEN "dead" ELSE stage[l]]
    /\ beat' = [l \in Leases |-> IF l \in Died(p) THEN "off" ELSE beat[l]]
    /\ save' = [l \in Leases |-> IF l \in Died(p) THEN "idle" ELSE save[l]]
    /\ loaded' = [l \in Leases |-> IF l \in Died(p) THEN {} ELSE loaded[l]]
    /\ saves' = [l \in Leases |-> IF l \in Died(p) THEN 0 ELSE saves[l]]
    /\ flock' = IF flock \in Died(p) THEN NoOne ELSE flock
    /\ UNCHANGED <<record, sidecar, fresh, disk, failed, claimant>>

(* STALE_AFTER passes without a write.                                      *)
Expire ==
    /\ fresh
    /\ fresh' = FALSE
    /\ UNCHANGED <<record, sidecar, flock, disk, leaseVars, claimant>>

----------------------------------------------------------------------------
Open(l) ==
    \/ Load(l) \/ CheckElsewhere(l) \/ ClaimLocks(l) \/ ClaimRefused(l) \/ ClaimBegins(l)
    \/ ClaimSidecar(l) \/ ClaimTruncates(l) \/ ClaimEnds(l) \/ ClaimFails(l)

Thread(l) == BeatLocks(l) \/ BeatEnds(l) \/ BeatWrites(l) \/ Release(l) \/ ReleaseMarks(l)

Worker(l) == Publish(l) \/ PublishUnlocks(l)

Next ==
    \/ \E l \in Leases :
          Open(l) \/ Thread(l) \/ Stop(l) \/ BeatFails(l) \/ PublishLocks(l) \/ Worker(l)
    \/ \E p \in Pids : Crash(p)
    \/ Expire

Spec == Init /\ [][Next]_vars

(* Whoever has the file lock goes on or dies, and a beat that finds it      *)
(* taken does not find it taken every time; time is not obliged to pass the *)
(* limit, nobody to open, close or publish.                                 *)
LiveSpec ==
    /\ Spec
    /\ \A l \in Leases :
          /\ WF_vars(flock = l /\ (Open(l) \/ Thread(l) \/ Worker(l)))
          /\ SF_vars(BeatLocks(l))

----------------------------------------------------------------------------
Claiming(l) == stage[l] \in {"locked", "sidecar", "record", "pid"}
Beating(l) == beat[l] \in {"locked", "write", "release", "mark"}
Saving(l) == save[l] \in {"locked", "saved"}

(* Every variable has its type.                                             *)
Typed ==
    /\ record \in Pids \cup {"absent", "empty", "released"}
    /\ sidecar \in Leases \cup {"absent", "torn"}
    /\ fresh \in BOOLEAN /\ flock \in Leases \cup {NoOne}
    /\ disk \subseteq Leases /\ loaded \in [Leases -> SUBSET Leases]
    /\ stage \in [Leases -> {"new", "loaded", "checked", "locked", "sidecar", "record", "pid",
                             "held", "refused", "dead"}]
    /\ beat \in [Leases -> {"off", "asleep", "locked", "write", "lost", "release", "mark", "gone"}]
    /\ save \in [Leases -> {"idle", "locked", "saved"}]
    /\ saves \in [Leases -> 0..MaxPublications] /\ failed \subseteq Faulty
    /\ claimant \in Leases \cup {NoOne}

(* The file lock protects the two files and the history: of all the claims, *)
(* beats, releases and publications, the ones of the same process included, *)
(* at most one is under way.                                                *)
FileLockExcludes ==
    \A l \in Leases :
       /\ flock = l <=> Claiming(l) \/ Beating(l) \/ Saving(l)
       /\ ~(Claiming(l) /\ (Beating(l) \/ Saving(l))) /\ ~(Beating(l) /\ Saving(l))

(* The state is well typed and the file lock excludes.                      *)
TypeOK == Typed /\ FileLockExcludes

(* A lease publishes nothing once another attempt has begun to take the     *)
(* session over, however far that attempt got: it may be complete, have     *)
(* failed or died with one of the two files written, or be one of the same  *)
(* process, whose pid is the same.                                          *)
OnlyClaimantPublishes == \A l \in Leases : save[l] = "saved" => claimant = l

(* A heartbeat tells its session that the lease is lost only when somebody  *)
(* began to take it over, or a write of its own had failed and left no      *)
(* record: not because of contention, of another lease's late beat or       *)
(* release, or of what a dead process left behind.                          *)
LossIsReal == \A l \in Leases : beat[l] = "lost" => claimant # l \/ l \in failed

(* A session that was taken over finds out, unless it is closed first or    *)
(* its process dies.                                                        *)
LossNoticed ==
    \A l \in Leases :
        (stage[l] = "held" /\ claimant # l) ~> (beat[l] \in {"lost", "gone"} \/ stage[l] = "dead")

(* A checkpoint never drops what another lease has published.  The history  *)
(* is loaded before the claim, so this does not hold.                       *)
NothingOverwritten == [][disk \subseteq disk']_vars
=============================================================================
