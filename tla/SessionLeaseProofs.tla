------------------------- MODULE SessionLeaseProofs -------------------------
(***************************************************************************)
(* The session lease is safe for any number of processes and leases, any   *)
(* sharing of process ids, and any crashes and failures: the file lock     *)
(* excludes, only the last claimant publishes, and a heartbeat reports a   *)
(* loss only when there is one.                                            *)
(***************************************************************************)
EXTENDS SessionLease, TLAPS

\* Thread and worker exist only while the lease is held.
WorksOnlyHeld ==
    \A l \in Leases : stage[l] # "held" => beat[l] = "off" /\ save[l] = "idle"

\* The token in the sidecar, and whoever writes the files, are the claimant's.
TokenIsClaimants ==
    /\ sidecar \in Leases => claimant = sidecar
    /\ \A l \in Leases :
          /\ stage[l] \in {"sidecar", "record", "pid"} => claimant = l
          /\ stage[l] \in {"record", "pid"} => sidecar = l
          /\ beat[l] \in {"write", "mark"} => sidecar = l

\* A claimant whose writes have all succeeded still has its record when it
\* beats.
RecordIsKept ==
    \A l \in Leases :
        beat[l] \in {"asleep", "locked"} /\ claimant = l => Owns(l) \/ l \in failed

LeaseInv ==
    /\ Typed /\ FileLockExcludes /\ WorksOnlyHeld /\ TokenIsClaimants
    /\ RecordIsKept /\ OnlyClaimantPublishes /\ LossIsReal

-----------------------------------------------------------------------------
LEMMA LoadStep == ASSUME LeaseInv, NEW l \in Leases, Load(l) PROVE LeaseInv'
<1> USE LeaseAssumption DEF LeaseInv, Load, Goes, fileVars
<1>1. Typed'
  BY DEF Typed
<1>2. FileLockExcludes' /\ WorksOnlyHeld'
  BY DEF Typed, FileLockExcludes, WorksOnlyHeld, Claiming, Beating, Saving
<1>3. TokenIsClaimants'
  BY DEF Typed, TokenIsClaimants, FileLockExcludes, Claiming, Beating, Saving
<1>4. RecordIsKept'
  BY DEF Typed, RecordIsKept, TokenIsClaimants, WorksOnlyHeld, FileLockExcludes, Claiming, Beating, Saving, Owns
<1>5. OnlyClaimantPublishes' /\ LossIsReal'
  BY DEF Typed, OnlyClaimantPublishes, LossIsReal, RecordIsKept, TokenIsClaimants, WorksOnlyHeld, FileLockExcludes,
         Claiming, Beating, Saving, Owns
<1> QED  BY <1>1, <1>2, <1>3, <1>4, <1>5

LEMMA CheckElsewhereStep == ASSUME LeaseInv, NEW l \in Leases, CheckElsewhere(l) PROVE LeaseInv'
<1> USE LeaseAssumption DEF LeaseInv, CheckElsewhere, Goes, Taken, fileVars
<1>1. Typed'
  BY DEF Typed
<1>2. FileLockExcludes' /\ WorksOnlyHeld'
  BY DEF Typed, FileLockExcludes, WorksOnlyHeld, Claiming, Beating, Saving
<1>3. TokenIsClaimants'
  BY DEF Typed, TokenIsClaimants, FileLockExcludes, Claiming, Beating, Saving
<1>4. RecordIsKept'
  BY DEF Typed, RecordIsKept, TokenIsClaimants, WorksOnlyHeld, FileLockExcludes, Claiming, Beating, Saving, Owns
<1>5. OnlyClaimantPublishes' /\ LossIsReal'
  BY DEF Typed, OnlyClaimantPublishes, LossIsReal, RecordIsKept, TokenIsClaimants, WorksOnlyHeld, FileLockExcludes,
         Claiming, Beating, Saving, Owns
<1> QED  BY <1>1, <1>2, <1>3, <1>4, <1>5

LEMMA ClaimLocksStep == ASSUME LeaseInv, NEW l \in Leases, ClaimLocks(l) PROVE LeaseInv'
<1> USE LeaseAssumption DEF LeaseInv, ClaimLocks, Goes, Write, fileVars
<1>1. Typed'
  BY DEF Typed
<1>2. FileLockExcludes' /\ WorksOnlyHeld'
  BY DEF Typed, FileLockExcludes, WorksOnlyHeld, Claiming, Beating, Saving
<1>3. TokenIsClaimants'
  BY DEF Typed, TokenIsClaimants, FileLockExcludes, Claiming, Beating, Saving
<1>4. RecordIsKept'
  BY DEF Typed, RecordIsKept, TokenIsClaimants, WorksOnlyHeld, FileLockExcludes, Claiming, Beating, Saving, Owns
<1>5. OnlyClaimantPublishes' /\ LossIsReal'
  BY DEF Typed, OnlyClaimantPublishes, LossIsReal, RecordIsKept, TokenIsClaimants, WorksOnlyHeld, FileLockExcludes,
         Claiming, Beating, Saving, Owns
<1> QED  BY <1>1, <1>2, <1>3, <1>4, <1>5

LEMMA ClaimRefusedStep == ASSUME LeaseInv, NEW l \in Leases, ClaimRefused(l) PROVE LeaseInv'
<1> USE LeaseAssumption DEF LeaseInv, ClaimRefused, Goes, fileVars
<1>1. Typed'
  BY DEF Typed
<1>2. FileLockExcludes' /\ WorksOnlyHeld'
  BY DEF Typed, FileLockExcludes, WorksOnlyHeld, Claiming, Beating, Saving
<1>3. TokenIsClaimants'
  BY DEF Typed, TokenIsClaimants, FileLockExcludes, Claiming, Beating, Saving
<1>4. RecordIsKept'
  BY DEF Typed, RecordIsKept, TokenIsClaimants, WorksOnlyHeld, FileLockExcludes, Claiming, Beating, Saving, Owns
<1>5. OnlyClaimantPublishes' /\ LossIsReal'
  BY DEF Typed, OnlyClaimantPublishes, LossIsReal, RecordIsKept, TokenIsClaimants, WorksOnlyHeld, FileLockExcludes,
         Claiming, Beating, Saving, Owns
<1> QED  BY <1>1, <1>2, <1>3, <1>4, <1>5

LEMMA ClaimBeginsStep == ASSUME LeaseInv, NEW l \in Leases, ClaimBegins(l) PROVE LeaseInv'
<1> USE LeaseAssumption DEF LeaseInv, ClaimBegins, Goes, fileVars
<1>1. Typed'
  BY DEF Typed
<1>2. FileLockExcludes' /\ WorksOnlyHeld'
  BY DEF Typed, FileLockExcludes, WorksOnlyHeld, Claiming, Beating, Saving
<1>3. TokenIsClaimants'
  BY DEF Typed, TokenIsClaimants, FileLockExcludes, Claiming, Beating, Saving
<1>4. RecordIsKept'
  BY DEF Typed, RecordIsKept, TokenIsClaimants, WorksOnlyHeld, FileLockExcludes, Claiming, Beating, Saving, Owns
<1>5. OnlyClaimantPublishes' /\ LossIsReal'
  BY DEF Typed, OnlyClaimantPublishes, LossIsReal, RecordIsKept, TokenIsClaimants, WorksOnlyHeld, FileLockExcludes,
         Claiming, Beating, Saving, Owns
<1> QED  BY <1>1, <1>2, <1>3, <1>4, <1>5

LEMMA ClaimSidecarStep == ASSUME LeaseInv, NEW l \in Leases, ClaimSidecar(l) PROVE LeaseInv'
<1> USE LeaseAssumption DEF LeaseInv, ClaimSidecar, Goes, fileVars
<1>1. Typed'
  BY DEF Typed
<1>2. FileLockExcludes' /\ WorksOnlyHeld'
  BY DEF Typed, FileLockExcludes, WorksOnlyHeld, Claiming, Beating, Saving
<1>3. TokenIsClaimants'
  BY DEF Typed, TokenIsClaimants, FileLockExcludes, Claiming, Beating, Saving
<1>4. RecordIsKept'
  BY DEF Typed, RecordIsKept, TokenIsClaimants, WorksOnlyHeld, FileLockExcludes, Claiming, Beating, Saving, Owns
<1>5. OnlyClaimantPublishes' /\ LossIsReal'
  BY DEF Typed, OnlyClaimantPublishes, LossIsReal, RecordIsKept, TokenIsClaimants, WorksOnlyHeld, FileLockExcludes,
         Claiming, Beating, Saving, Owns
<1> QED  BY <1>1, <1>2, <1>3, <1>4, <1>5

LEMMA ClaimTruncatesStep == ASSUME LeaseInv, NEW l \in Leases, ClaimTruncates(l) PROVE LeaseInv'
<1> USE LeaseAssumption DEF LeaseInv, ClaimTruncates, Goes, Write, fileVars
<1>1. Typed'
  BY DEF Typed
<1>2. FileLockExcludes' /\ WorksOnlyHeld'
  BY DEF Typed, FileLockExcludes, WorksOnlyHeld, Claiming, Beating, Saving
<1>3. TokenIsClaimants'
  BY DEF Typed, TokenIsClaimants, FileLockExcludes, Claiming, Beating, Saving
<1>4. RecordIsKept'
  BY DEF Typed, RecordIsKept, TokenIsClaimants, WorksOnlyHeld, FileLockExcludes, Claiming, Beating, Saving, Owns
<1>5. OnlyClaimantPublishes' /\ LossIsReal'
  BY DEF Typed, OnlyClaimantPublishes, LossIsReal, RecordIsKept, TokenIsClaimants, WorksOnlyHeld, FileLockExcludes,
         Claiming, Beating, Saving, Owns
<1> QED  BY <1>1, <1>2, <1>3, <1>4, <1>5

LEMMA ClaimEndsStep == ASSUME LeaseInv, NEW l \in Leases, ClaimEnds(l) PROVE LeaseInv'
<1> USE LeaseAssumption DEF LeaseInv, ClaimEnds, Goes, Beats, Write, fileVars
<1>1. Typed'
  BY DEF Typed
<1>2. FileLockExcludes' /\ WorksOnlyHeld'
  BY DEF Typed, FileLockExcludes, WorksOnlyHeld, Claiming, Beating, Saving
<1>3. TokenIsClaimants'
  BY DEF Typed, TokenIsClaimants, FileLockExcludes, Claiming, Beating, Saving
<1>4. RecordIsKept'
  BY DEF Typed, RecordIsKept, TokenIsClaimants, WorksOnlyHeld, FileLockExcludes, Claiming, Beating, Saving, Owns
<1>5. OnlyClaimantPublishes' /\ LossIsReal'
  BY DEF Typed, OnlyClaimantPublishes, LossIsReal, RecordIsKept, TokenIsClaimants, WorksOnlyHeld, FileLockExcludes,
         Claiming, Beating, Saving, Owns
<1> QED  BY <1>1, <1>2, <1>3, <1>4, <1>5

LEMMA ClaimFailsStep == ASSUME LeaseInv, NEW l \in Leases, ClaimFails(l) PROVE LeaseInv'
<1> USE LeaseAssumption DEF LeaseInv, ClaimFails, Goes, fileVars
<1>1. Typed'
  BY DEF Typed
<1>2. FileLockExcludes' /\ WorksOnlyHeld'
  BY DEF Typed, FileLockExcludes, WorksOnlyHeld, Claiming, Beating, Saving
<1>3. TokenIsClaimants'
  BY DEF Typed, TokenIsClaimants, FileLockExcludes, Claiming, Beating, Saving
<1>4. RecordIsKept'
  BY DEF Typed, RecordIsKept, TokenIsClaimants, WorksOnlyHeld, FileLockExcludes, Claiming, Beating, Saving, Owns
<1>5. OnlyClaimantPublishes' /\ LossIsReal'
  BY DEF Typed, OnlyClaimantPublishes, LossIsReal, RecordIsKept, TokenIsClaimants, WorksOnlyHeld, FileLockExcludes,
         Claiming, Beating, Saving, Owns
<1> QED  BY <1>1, <1>2, <1>3, <1>4, <1>5

LEMMA BeatLocksStep == ASSUME LeaseInv, NEW l \in Leases, BeatLocks(l) PROVE LeaseInv'
<1> USE LeaseAssumption DEF LeaseInv, BeatLocks, Beats, fileVars
<1>1. Typed'
  BY DEF Typed
<1>2. FileLockExcludes' /\ WorksOnlyHeld'
  BY DEF Typed, FileLockExcludes, WorksOnlyHeld, Claiming, Beating, Saving
<1>3. TokenIsClaimants'
  BY DEF Typed, TokenIsClaimants, FileLockExcludes, Claiming, Beating, Saving
<1>4. RecordIsKept'
  BY DEF Typed, RecordIsKept, TokenIsClaimants, WorksOnlyHeld, FileLockExcludes, Claiming, Beating, Saving, Owns
<1>5. OnlyClaimantPublishes' /\ LossIsReal'
  BY DEF Typed, OnlyClaimantPublishes, LossIsReal, RecordIsKept, TokenIsClaimants, WorksOnlyHeld, FileLockExcludes,
         Claiming, Beating, Saving, Owns
<1> QED  BY <1>1, <1>2, <1>3, <1>4, <1>5

LEMMA BeatEndsStep == ASSUME LeaseInv, NEW l \in Leases, BeatEnds(l) PROVE LeaseInv'
<1> USE LeaseAssumption DEF LeaseInv, BeatEnds, Beats, Write, Owns, fileVars
<1>1. Typed'
  BY DEF Typed
<1>2. FileLockExcludes' /\ WorksOnlyHeld'
  BY DEF Typed, FileLockExcludes, WorksOnlyHeld, Claiming, Beating, Saving
<1>3. TokenIsClaimants'
  BY DEF Typed, TokenIsClaimants, FileLockExcludes, Claiming, Beating, Saving
<1>4. RecordIsKept'
  BY DEF Typed, RecordIsKept, TokenIsClaimants, WorksOnlyHeld, FileLockExcludes, Claiming, Beating, Saving, Owns
<1>5. OnlyClaimantPublishes' /\ LossIsReal'
  BY DEF Typed, OnlyClaimantPublishes, LossIsReal, RecordIsKept, TokenIsClaimants, WorksOnlyHeld, FileLockExcludes,
         Claiming, Beating, Saving, Owns
<1> QED  BY <1>1, <1>2, <1>3, <1>4, <1>5

LEMMA BeatWritesStep == ASSUME LeaseInv, NEW l \in Leases, BeatWrites(l) PROVE LeaseInv'
<1> USE LeaseAssumption DEF LeaseInv, BeatWrites, Beats, Write, fileVars
<1>1. Typed'
  BY DEF Typed
<1>2. FileLockExcludes' /\ WorksOnlyHeld'
  BY DEF Typed, FileLockExcludes, WorksOnlyHeld, Claiming, Beating, Saving
<1>3. TokenIsClaimants'
  BY DEF Typed, TokenIsClaimants, FileLockExcludes, Claiming, Beating, Saving
<1>4. RecordIsKept'
  BY DEF Typed, RecordIsKept, TokenIsClaimants, WorksOnlyHeld, FileLockExcludes, Claiming, Beating, Saving, Owns
<1>5. OnlyClaimantPublishes' /\ LossIsReal'
  BY DEF Typed, OnlyClaimantPublishes, LossIsReal, RecordIsKept, TokenIsClaimants, WorksOnlyHeld, FileLockExcludes,
         Claiming, Beating, Saving, Owns
<1> QED  BY <1>1, <1>2, <1>3, <1>4, <1>5

LEMMA ReleaseStep == ASSUME LeaseInv, NEW l \in Leases, Release(l) PROVE LeaseInv'
<1> USE LeaseAssumption DEF LeaseInv, Release, Beats, Write, Owns, fileVars
<1>1. Typed'
  BY DEF Typed
<1>2. FileLockExcludes' /\ WorksOnlyHeld'
  BY DEF Typed, FileLockExcludes, WorksOnlyHeld, Claiming, Beating, Saving
<1>3. TokenIsClaimants'
  BY DEF Typed, TokenIsClaimants, FileLockExcludes, Claiming, Beating, Saving
<1>4. RecordIsKept'
  BY DEF Typed, RecordIsKept, TokenIsClaimants, WorksOnlyHeld, FileLockExcludes, Claiming, Beating, Saving, Owns
<1>5. OnlyClaimantPublishes' /\ LossIsReal'
  BY DEF Typed, OnlyClaimantPublishes, LossIsReal, RecordIsKept, TokenIsClaimants, WorksOnlyHeld, FileLockExcludes,
         Claiming, Beating, Saving, Owns
<1> QED  BY <1>1, <1>2, <1>3, <1>4, <1>5

LEMMA ReleaseMarksStep == ASSUME LeaseInv, NEW l \in Leases, ReleaseMarks(l) PROVE LeaseInv'
<1> USE LeaseAssumption DEF LeaseInv, ReleaseMarks, Beats, Write, fileVars
<1>1. Typed'
  BY DEF Typed
<1>2. FileLockExcludes' /\ WorksOnlyHeld'
  BY DEF Typed, FileLockExcludes, WorksOnlyHeld, Claiming, Beating, Saving
<1>3. TokenIsClaimants'
  BY DEF Typed, TokenIsClaimants, FileLockExcludes, Claiming, Beating, Saving
<1>4. RecordIsKept'
  BY DEF Typed, RecordIsKept, TokenIsClaimants, WorksOnlyHeld, FileLockExcludes, Claiming, Beating, Saving, Owns
<1>5. OnlyClaimantPublishes' /\ LossIsReal'
  BY DEF Typed, OnlyClaimantPublishes, LossIsReal, RecordIsKept, TokenIsClaimants, WorksOnlyHeld, FileLockExcludes,
         Claiming, Beating, Saving, Owns
<1> QED  BY <1>1, <1>2, <1>3, <1>4, <1>5

LEMMA StopStep == ASSUME LeaseInv, NEW l \in Leases, Stop(l) PROVE LeaseInv'
<1> USE LeaseAssumption DEF LeaseInv, Stop, Beats, fileVars
<1>1. Typed'
  BY DEF Typed
<1>2. FileLockExcludes' /\ WorksOnlyHeld'
  BY DEF Typed, FileLockExcludes, WorksOnlyHeld, Claiming, Beating, Saving
<1>3. TokenIsClaimants'
  BY DEF Typed, TokenIsClaimants, FileLockExcludes, Claiming, Beating, Saving
<1>4. RecordIsKept'
  BY DEF Typed, RecordIsKept, TokenIsClaimants, WorksOnlyHeld, FileLockExcludes, Claiming, Beating, Saving, Owns
<1>5. OnlyClaimantPublishes' /\ LossIsReal'
  BY DEF Typed, OnlyClaimantPublishes, LossIsReal, RecordIsKept, TokenIsClaimants, WorksOnlyHeld, FileLockExcludes,
         Claiming, Beating, Saving, Owns
<1> QED  BY <1>1, <1>2, <1>3, <1>4, <1>5

LEMMA BeatFailsStep == ASSUME LeaseInv, NEW l \in Leases, BeatFails(l) PROVE LeaseInv'
<1> USE LeaseAssumption DEF LeaseInv, BeatFails, Beats, fileVars
<1>1. Typed'
  BY DEF Typed
<1>2. FileLockExcludes' /\ WorksOnlyHeld'
  BY DEF Typed, FileLockExcludes, WorksOnlyHeld, Claiming, Beating, Saving
<1>3. TokenIsClaimants'
  BY DEF Typed, TokenIsClaimants, FileLockExcludes, Claiming, Beating, Saving
<1>4. RecordIsKept'
  BY DEF Typed, RecordIsKept, TokenIsClaimants, WorksOnlyHeld, FileLockExcludes, Claiming, Beating, Saving, Owns
<1>5. OnlyClaimantPublishes' /\ LossIsReal'
  BY DEF Typed, OnlyClaimantPublishes, LossIsReal, RecordIsKept, TokenIsClaimants, WorksOnlyHeld, FileLockExcludes,
         Claiming, Beating, Saving, Owns
<1> QED  BY <1>1, <1>2, <1>3, <1>4, <1>5

LEMMA PublishLocksStep == ASSUME LeaseInv, NEW l \in Leases, PublishLocks(l) PROVE LeaseInv'
<1> USE LeaseAssumption DEF LeaseInv, PublishLocks, Saves, fileVars
<1>1. Typed'
  BY DEF Typed
<1>2. FileLockExcludes' /\ WorksOnlyHeld'
  BY DEF Typed, FileLockExcludes, WorksOnlyHeld, Claiming, Beating, Saving
<1>3. TokenIsClaimants'
  BY DEF Typed, TokenIsClaimants, FileLockExcludes, Claiming, Beating, Saving
<1>4. RecordIsKept'
  BY DEF Typed, RecordIsKept, TokenIsClaimants, WorksOnlyHeld, FileLockExcludes, Claiming, Beating, Saving, Owns
<1>5. OnlyClaimantPublishes' /\ LossIsReal'
  BY DEF Typed, OnlyClaimantPublishes, LossIsReal, RecordIsKept, TokenIsClaimants, WorksOnlyHeld, FileLockExcludes,
         Claiming, Beating, Saving, Owns
<1> QED  BY <1>1, <1>2, <1>3, <1>4, <1>5

LEMMA PublishStep == ASSUME LeaseInv, NEW l \in Leases, Publish(l) PROVE LeaseInv'
<1> USE LeaseAssumption DEF LeaseInv, Publish, Saves, Owns, fileVars
<1>1. Typed'
  BY DEF Typed
<1>2. FileLockExcludes' /\ WorksOnlyHeld'
  BY DEF Typed, FileLockExcludes, WorksOnlyHeld, Claiming, Beating, Saving
<1>3. TokenIsClaimants'
  BY DEF Typed, TokenIsClaimants, FileLockExcludes, Claiming, Beating, Saving
<1>4. RecordIsKept'
  BY DEF Typed, RecordIsKept, TokenIsClaimants, WorksOnlyHeld, FileLockExcludes, Claiming, Beating, Saving, Owns
<1>5. OnlyClaimantPublishes' /\ LossIsReal'
  BY DEF Typed, OnlyClaimantPublishes, LossIsReal, RecordIsKept, TokenIsClaimants, WorksOnlyHeld, FileLockExcludes,
         Claiming, Beating, Saving, Owns
<1> QED  BY <1>1, <1>2, <1>3, <1>4, <1>5

LEMMA PublishUnlocksStep == ASSUME LeaseInv, NEW l \in Leases, PublishUnlocks(l) PROVE LeaseInv'
<1> USE LeaseAssumption DEF LeaseInv, PublishUnlocks, Saves, fileVars
<1>1. Typed'
  BY DEF Typed
<1>2. FileLockExcludes' /\ WorksOnlyHeld'
  BY DEF Typed, FileLockExcludes, WorksOnlyHeld, Claiming, Beating, Saving
<1>3. TokenIsClaimants'
  BY DEF Typed, TokenIsClaimants, FileLockExcludes, Claiming, Beating, Saving
<1>4. RecordIsKept'
  BY DEF Typed, RecordIsKept, TokenIsClaimants, WorksOnlyHeld, FileLockExcludes, Claiming, Beating, Saving, Owns
<1>5. OnlyClaimantPublishes' /\ LossIsReal'
  BY DEF Typed, OnlyClaimantPublishes, LossIsReal, RecordIsKept, TokenIsClaimants, WorksOnlyHeld, FileLockExcludes,
         Claiming, Beating, Saving, Owns
<1> QED  BY <1>1, <1>2, <1>3, <1>4, <1>5

\* A crash takes every lease of the process, and with it whatever holds the
\* file lock, out of all the clauses.
LEMMA CrashStep == ASSUME LeaseInv, NEW p \in Pids, Crash(p) PROVE LeaseInv'
<1> USE LeaseAssumption DEF LeaseInv, Crash, Died
<1>1. Typed'
  BY DEF Typed
<1>2. FileLockExcludes' /\ WorksOnlyHeld'
  BY DEF Typed, FileLockExcludes, WorksOnlyHeld, Claiming, Beating, Saving
<1>3. TokenIsClaimants'
  BY DEF Typed, TokenIsClaimants
<1>4. RecordIsKept'
  BY DEF Typed, RecordIsKept, Owns
<1>5. OnlyClaimantPublishes' /\ LossIsReal'
  BY DEF Typed, OnlyClaimantPublishes, LossIsReal
<1> QED  BY <1>1, <1>2, <1>3, <1>4, <1>5

LEMMA ExpireStep == ASSUME LeaseInv, Expire \/ UNCHANGED vars PROVE LeaseInv'
<1>1. UNCHANGED <<record, sidecar, flock, disk, leaseVars, claimant>>
  BY DEF Expire, vars, fileVars
<1>2. fresh' \in BOOLEAN
  BY DEF Expire, vars, fileVars, LeaseInv, Typed
<1> USE <1>1 DEF LeaseInv, leaseVars
<1>3. Typed' /\ FileLockExcludes'
  <2>1. Typed'
    BY <1>2, Zenon DEF Typed
  <2> QED  BY <2>1 DEF FileLockExcludes, Claiming, Beating, Saving
<1>4. WorksOnlyHeld' /\ TokenIsClaimants' /\ RecordIsKept'
  BY DEF WorksOnlyHeld, TokenIsClaimants, RecordIsKept, Claiming, Beating, Saving, Owns
<1>5. OnlyClaimantPublishes' /\ LossIsReal'
  BY DEF OnlyClaimantPublishes, LossIsReal
<1> QED  BY <1>3, <1>4, <1>5

LEMMA InitLease == ASSUME Init PROVE LeaseInv
<1> USE LeaseAssumption DEF Init
<1>1. Typed
  <2>1. saves \in [Leases -> 0..MaxPublications]
    OBVIOUS
  <2> QED  BY <2>1 DEF Typed
<1>2. FileLockExcludes /\ WorksOnlyHeld
  BY DEF FileLockExcludes, WorksOnlyHeld, Claiming, Beating, Saving
<1>3. TokenIsClaimants /\ RecordIsKept
  BY DEF TokenIsClaimants, RecordIsKept
<1>4. OnlyClaimantPublishes /\ LossIsReal
  BY DEF OnlyClaimantPublishes, LossIsReal
<1> QED  BY <1>1, <1>2, <1>3, <1>4 DEF LeaseInv

LEMMA LeaseAlways == Spec => []LeaseInv
<1>1. ASSUME LeaseInv, [Next]_vars PROVE LeaseInv'
  <2>1. ASSUME NEW l \in Leases, Open(l) PROVE LeaseInv'
    BY <1>1, <2>1, LoadStep, CheckElsewhereStep, ClaimLocksStep, ClaimRefusedStep, ClaimBeginsStep,
       ClaimSidecarStep, ClaimTruncatesStep, ClaimEndsStep, ClaimFailsStep DEF Open
  <2>2. ASSUME NEW l \in Leases, Thread(l) \/ Stop(l) \/ BeatFails(l) PROVE LeaseInv'
    BY <1>1, <2>2, BeatLocksStep, BeatEndsStep, BeatWritesStep, ReleaseStep, ReleaseMarksStep, StopStep,
       BeatFailsStep DEF Thread
  <2>3. ASSUME NEW l \in Leases, PublishLocks(l) \/ Worker(l) PROVE LeaseInv'
    BY <1>1, <2>3, PublishLocksStep, PublishStep, PublishUnlocksStep DEF Worker
  <2>4. ASSUME NEW p \in Pids, Crash(p) PROVE LeaseInv'
    BY <1>1, <2>4, CrashStep
  <2>5. CASE Expire \/ UNCHANGED vars
    BY <1>1, <2>5, ExpireStep
  <2> QED  BY <1>1, <2>1, <2>2, <2>3, <2>4, <2>5 DEF Next
<1> QED  BY InitLease, <1>1, PTL DEF Spec

-----------------------------------------------------------------------------
\* For any leases and process ids, crashes and failing writes: the state is
\* well typed, and of the claims, beats, releases and publications at most
\* one is under way (the advisory lock of session_lock.rs is never held twice,
\* nor its files touched without it).
THEOREM LeaseTypeCorrect == Spec => []TypeOK
<1>1. LeaseInv => TypeOK
  BY DEF LeaseInv, TypeOK
<1> QED  BY LeaseAlways, <1>1, PTL

\* No checkpoint is published by a lease another attempt has begun to take
\* over (SessionPublicationGuard::publish compares pid and token under the
\* file lock).
THEOREM PublicationIsClaimants == Spec => []OnlyClaimantPublishes
<1>1. LeaseInv => OnlyClaimantPublishes
  BY DEF LeaseInv
<1> QED  BY LeaseAlways, <1>1, PTL

\* on_lost is called only for a lease that somebody began to take over, or
\* that failed to write its own record.
THEOREM LossCorrect == Spec => []LossIsReal
<1>1. LeaseInv => LossIsReal
  BY DEF LeaseInv
<1> QED  BY LeaseAlways, <1>1, PTL
=============================================================================
