------------------------------ MODULE DiskErrors ------------------------------
(* GlobalLogger when a write fails (PageFile::Exception: the disk is full). *)
EXTENDS MCGlobalLogger

\* prepare or commit answers CORRUPT; StorageEnv::checkpoint releases the snapshot
\* and returns false.  A failure of init_log_file and of the last write of commit
\* are left out: they leave the cached key page and the disk apart.
DiskError ==
    /\ ~redoing
    /\ pc \in {"begin", "save", "restore"} \/ (pc = "commit" /\ it \in Table)
    /\ snapshot' = [t \in Table |-> NoPatch]
    /\ pc' = "run"
    /\ UNCHANGED <<disk, redoing, cache, dirty, logger_id, log_file, need_rotate,
                   it, todo, shot>>

\* A checkpoint either installs its snapshot or ends with the process: what the
\* messages of checkpoint() and BackupThread say of a disk error.
DiskErrorAborts ==
    [][pc \notin {"down", "run"} /\ pc' = "run" => Recovered' = shot]_vars

ErrorSpec == MCInit /\ [][MCNext \/ DiskError]_vars
===============================================================================
