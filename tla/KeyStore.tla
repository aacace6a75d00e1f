------------------------------ MODULE KeyStore ------------------------------
(***************************************************************************)
(* The administration of the API-key file, src/python/cuda_db/security/    *)
(* keys.py: processes that run `generate` or `revoke` take the file lock,  *)
(* read the store, write a temporary file and rename it over the store.    *)
(* A process may be killed at any step, a system call may fail, and the    *)
(* machine may lose power.                                                 *)
(*                                                                         *)
(* The store is the set of its key ids, Absent, or Torn when a rename      *)
(* survived a power loss and the data it points to did not.                *)
(***************************************************************************)
EXTENDS Integers, FiniteSets

CONSTANTS
    Processes,  \* the runs of the command
    Generates,  \* those that run `generate`; the others run `revoke`
    Key,        \* the --key-id of each
    NoFile, Garbage  \* marks of a store that is not a set of ids

Keys == {Key[p] : p \in Processes}
Absent == {NoFile}
Torn == {Garbage}

ASSUME KeyStoreAssumption ==
    /\ Generates \subseteq Processes
    /\ Key \in [Processes -> Keys]
    /\ NoFile # Garbage
    /\ {NoFile, Garbage} \cap Keys = {}

VARIABLES
    store,    \* what the path names now
    disk,     \* what it may name after a power loss
    lock,     \* the processes that hold the flock
    pc,       \* where each process is
    records,  \* the records it is about to write
    temp,     \* its temporary file: none, written or flushed
    result    \* what the command reported

diskVars == <<store, disk>>
vars == <<diskVars, lock, pc, records, temp, result>>

Init ==
    /\ store \in (SUBSET Keys) \union {Absent}
    /\ disk = {store}
    /\ lock = {}
    /\ pc = [p \in Processes |-> "start"]
    /\ records = [p \in Processes |-> {}]
    /\ temp = [p \in Processes |-> "none"]
    /\ result = [p \in Processes |-> "none"]

Goto(p, place) == pc' = [pc EXCEPT ![p] = place]
Report(p, r) == result' = [result EXCEPT ![p] = r]

\* Mutant: the read-modify-replace is not serialised.
LockShared(p) ==
    /\ pc[p] = "start"
    /\ lock' = lock \union {p}
    /\ Goto(p, "locked")
    /\ UNCHANGED <<diskVars, records, temp, result>>

\* _store_lock: flock(LOCK_EX) waits until nobody holds the lock.
Lock(p) ==
    /\ pc[p] = "start"
    /\ lock = {}
    /\ lock' = {p}
    /\ Goto(p, "locked")
    /\ UNCHANGED <<diskVars, records, temp, result>>

\* The lock file cannot be opened or locked.
LockFails(p) ==
    /\ pc[p] = "start"
    /\ Goto(p, "done")
    /\ Report(p, "error")
    /\ UNCHANGED <<diskVars, lock, records, temp>>

\* generate_key and revoke_key up to _write_key_file: generate takes a missing
\* store for an empty one and refuses an id that exists; revoke needs one that
\* does.
Read(p) ==
    /\ pc[p] = "locked"
    /\ \/ /\ p \in Generates
          /\ store # Torn
          /\ store = Absent \/ Key[p] \notin store
          /\ records' = [records EXCEPT ![p] =
                           (IF store = Absent THEN {} ELSE store) \union {Key[p]}]
       \/ /\ p \notin Generates
          /\ store \notin {Absent, Torn}
          /\ Key[p] \in store
          /\ records' = [records EXCEPT ![p] = store \ {Key[p]}]
    /\ Goto(p, "write")
    /\ UNCHANGED <<diskVars, lock, temp, result>>

\* A missing or invalid store, an unsuitable id, or a read error: the command
\* raises KeyFileError with the lock held, and the context manager releases it.
Refuse(p) ==
    /\ pc[p] = "locked"
    /\ Goto(p, "unlock")
    /\ Report(p, "error")
    /\ UNCHANGED <<diskVars, lock, records, temp>>

\* The temporary file is written, then flushed with fsync.
Write(p) ==
    /\ pc[p] = "write"
    /\ temp' = [temp EXCEPT ![p] = "written"]
    /\ Goto(p, "flush")
    /\ UNCHANGED <<diskVars, lock, records, result>>

\* Mutant: the temporary file is renamed without fsync.
FlushNothing(p) ==
    /\ pc[p] = "flush"
    /\ Goto(p, "replace")
    /\ UNCHANGED <<diskVars, lock, records, temp, result>>

Flush(p) ==
    /\ pc[p] = "flush"
    /\ temp' = [temp EXCEPT ![p] = "flushed"]
    /\ Goto(p, "replace")
    /\ UNCHANGED <<diskVars, lock, records, result>>

\* os.replace: the path names the new file at once, the directory entry is
\* not on the disk yet.
Replace(p) ==
    /\ pc[p] = "replace"
    /\ store' = records[p]
    /\ disk' = disk \union {records[p]} \union (IF temp[p] = "flushed" THEN {} ELSE {Torn})
    /\ temp' = [temp EXCEPT ![p] = "none"]
    /\ Goto(p, "settle")
    /\ UNCHANGED <<lock, records, result>>

\* Mutant: the directory is not flushed.
SettleWithoutSync(p) ==
    /\ pc[p] = "settle"
    /\ Goto(p, "unlock")
    /\ Report(p, "ok")
    /\ UNCHANGED <<diskVars, lock, records, temp>>

\* chmod and fsync of the directory, and the command succeeds.
Settle(p) ==
    /\ pc[p] = "settle"
    /\ disk' = {store} \union (disk \cap {Torn})
    /\ Goto(p, "unlock")
    /\ Report(p, "ok")
    /\ UNCHANGED <<store, lock, records, temp>>

\* A system call of _write_key_file fails: the temporary file, if there still
\* is one, is removed, and the command reports an error, also when the store
\* has been replaced already.
WriteFails(p) ==
    /\ pc[p] \in {"write", "flush", "replace", "settle"}
    /\ temp' = [temp EXCEPT ![p] = "none"]
    /\ Goto(p, "unlock")
    /\ Report(p, "error")
    /\ UNCHANGED <<diskVars, lock, records>>

\* Mutant: an error leaves the lock held.
UnlockOnSuccess(p) ==
    /\ pc[p] = "unlock"
    /\ lock' = IF result[p] = "ok" THEN lock \ {p} ELSE lock
    /\ Goto(p, "done")
    /\ records' = [records EXCEPT ![p] = {}]
    /\ UNCHANGED <<diskVars, temp, result>>

Unlock(p) ==
    /\ pc[p] = "unlock"
    /\ lock' = lock \ {p}
    /\ Goto(p, "done")
    /\ records' = [records EXCEPT ![p] = {}]
    /\ UNCHANGED <<diskVars, temp, result>>

Running(p) == pc[p] \notin {"start", "done", "killed"}

\* The process is killed: the kernel drops its lock, its temporary file stays.
Kill(p) ==
    /\ Running(p)
    /\ lock' = lock \ {p}
    /\ Goto(p, "killed")
    /\ UNCHANGED <<diskVars, records, temp, result>>

\* The machine goes down and comes back: renames the directory was not flushed
\* after may be lost, and so may data that was not flushed.
PowerLoss ==
    /\ store' \in disk
    /\ disk' = {store'}
    /\ lock' = {}
    /\ pc' = [p \in Processes |-> IF Running(p) THEN "killed" ELSE pc[p]]
    /\ UNCHANGED <<records, temp, result>>

Command(p) ==
    \/ Lock(p) \/ LockFails(p) \/ Read(p) \/ Refuse(p) \/ Write(p) \/ Flush(p)
    \/ Replace(p) \/ Settle(p) \/ WriteFails(p) \/ Unlock(p)

Next ==
    \/ \E p \in Processes : Command(p) \/ Kill(p)
    \/ PowerLoss

Spec == Init /\ [][Next]_vars

\* A running command goes on, and one that waits gets a lock that stays free;
\* nothing obliges a system call to fail or a process to die.
Fairness ==
    \A p \in Processes : WF_vars(Running(p) /\ Command(p)) /\ WF_vars(Lock(p))

FairSpec == Spec /\ Fairness
-----------------------------------------------------------------------------
(* Properties. *)

\* The server and the command never find half a file, whatever is killed and
\* whenever the power fails: "Atomically replace".
NeverTorn == store # Torn

\* No update is lost between two commands that run at once: whatever a command
\* does to the store changes the one id it was given.
OneKeyPerUpdate ==
    [][\A p \in Processes :
          pc[p] = "replace" /\ pc'[p] = "settle" =>
              LET old == IF store = Absent THEN {} ELSE store IN
              store' = IF p \in Generates THEN old \union {Key[p]} ELSE old \ {Key[p]}]_vars

\* A key whose token was printed stays in the store, also after a power loss,
\* unless somebody has begun to revoke it; and a revoked key stays out unless
\* somebody has begun to generate it.
AcknowledgedStays ==
    \A p \in Processes :
        /\ result[p] = "ok"
        /\ \A q \in Processes \ {p} :
              Key[q] = Key[p] => pc[q] = "start"
        => \A after \in disk : /\ after \notin {Absent, Torn}
                              /\ (Key[p] \in after) = (p \in Generates)

\* No command waits for ever on a lock whose holder failed or was killed: every
\* command that was started ends.
EveryCommandEnds == \A p \in Processes : <>(pc[p] \in {"done", "killed"})
=============================================================================
