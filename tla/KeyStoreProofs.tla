--------------------------- MODULE KeyStoreProofs ---------------------------
(***************************************************************************)
(* For any number of commands on any ids: the store is never torn, no      *)
(* update is lost, and what was acknowledged survives kills, failures and  *)
(* power losses.                                                           *)
(*                                                                         *)
(* The argument: the commands between Lock and Unlock are exactly the      *)
(* holders of the lock, and there is at most one.  So what a command read  *)
(* is still the store when it replaces it (PlanInv), and every content the *)
(* disk may come back with is a document some command wrote in full.       *)
(***************************************************************************)
EXTENDS KeyStore, TLAPS

Documents == (SUBSET Keys) \union {Absent}

KTypeOK ==
    /\ store \in Documents
    /\ disk \in SUBSET Documents
    /\ lock \in SUBSET Processes
    /\ pc \in [Processes -> {"start", "locked", "write", "flush", "replace", "settle", "unlock",
                             "done", "killed"}]
    /\ records \in [Processes -> SUBSET Keys]
    /\ temp \in [Processes -> {"none", "written", "flushed"}]
    /\ result \in [Processes -> {"none", "ok", "error"}]

\* The flock serialises the commands.
LockInv ==
    /\ \A p \in Processes : Running(p) <=> p \in lock
    /\ \A p, q \in lock : p = q

Old == IF store = Absent THEN {} ELSE store
Update(p) == IF p \in Generates THEN Old \union {Key[p]} ELSE Old \ {Key[p]}

\* What a command is about to write, or has written, is the store with its own
\* change.
PlanInv(p) ==
    /\ pc[p] \in {"write", "flush", "replace"} => records[p] = Update(p)
    /\ pc[p] = "replace" => temp[p] = "flushed"
    /\ pc[p] = "settle" => store = records[p]
    /\ pc[p] \in {"write", "flush", "replace", "settle"} =>
          (Key[p] \in records[p]) = (p \in Generates)
    /\ result[p] = "ok" => pc[p] \in {"unlock", "done", "killed"}

KInv ==
    /\ KTypeOK /\ LockInv /\ store \in disk
    /\ \A p \in Processes : PlanInv(p)

\* A document is neither of the two marks, unless it is the missing one.
LEMMA Marks ==
    /\ Absent \notin SUBSET Keys
    /\ Torn \notin Documents
<1>1. NoFile \notin Keys /\ Garbage \notin Keys /\ NoFile # Garbage
    BY KeyStoreAssumption
<1>2. Absent \notin SUBSET Keys
    BY <1>1 DEF Absent
<1>3. Torn \notin SUBSET Keys /\ Torn # Absent
    BY <1>1 DEF Absent, Torn
<1>. QED
    BY <1>2, <1>3 DEF Documents

\* Every command was given an id.
LEMMA OwnKey == \A p \in Processes : Key[p] \in Keys
BY KeyStoreAssumption

\* The invariant holds before any command starts.
LEMMA InvariantInitially == Init => KInv
BY DEF Init, KInv, KTypeOK, LockInv, PlanInv, Documents, Running

\* A step of p leaves the other commands' places, plans and results alone.
Local(p) ==
    \A q \in Processes \ {p} :
        /\ pc'[q] = pc[q] /\ records'[q] = records[q] /\ temp'[q] = temp[q]
        /\ result'[q] = result[q]

\* Command and Kill assign only the entries of the process that takes the step.
LEMMA StepIsLocal ==
    ASSUME KTypeOK, NEW p \in Processes, Command(p) \/ Kill(p)
    PROVE  Local(p)
BY DEF KTypeOK, Command, Kill, Local, Goto, Report, Lock, LockFails, Read, Refuse, Write, Flush,
       Replace, Settle, WriteFails, Unlock

\* A command's step, or its kill, leaves a whole document at the path and on the
\* disk.
LEMMA TypesKept ==
    ASSUME KInv, NEW p \in Processes, Command(p) \/ Kill(p)
    PROVE  KTypeOK' /\ (store \in disk)'
<1> USE DEF KInv, KTypeOK, Goto, Report, diskVars
<1>1. CASE Lock(p)
    BY <1>1 DEF Lock
<1>2. CASE LockFails(p)
    BY <1>2 DEF LockFails
<1>3. CASE Read(p)
  <2>1. store = Absent \/ store \in SUBSET Keys
      BY DEF Documents
  <2>2. records' \in [Processes -> SUBSET Keys]
      BY <1>3, <2>1, OwnKey DEF Read
  <2>. QED
      BY <1>3, <2>2 DEF Read
<1>4. CASE Refuse(p)
    BY <1>4 DEF Refuse
<1>5. CASE Write(p)
    BY <1>5 DEF Write
<1>6. CASE Flush(p)
    BY <1>6 DEF Flush
<1>7. CASE Replace(p)
  <2>1. temp[p] = "flushed"
      BY <1>7 DEF Replace, PlanInv
  <2>. QED
      BY <1>7, <2>1 DEF Replace, Documents
<1>8. CASE Settle(p)
    BY <1>8, Marks DEF Settle
<1>9. CASE WriteFails(p)
    BY <1>9 DEF WriteFails
<1>10. CASE Unlock(p)
    BY <1>10 DEF Unlock
<1>11. CASE Kill(p)
    BY <1>11 DEF Kill
<1>. QED
    BY <1>1, <1>2, <1>3, <1>4, <1>5, <1>6, <1>7, <1>8, <1>9, <1>10, <1>11 DEF Command

\* Only Lock makes a command running, and only while nobody holds the lock;
\* Unlock and a kill give the lock back.
LEMMA LockKept ==
    ASSUME KInv, NEW p \in Processes, Command(p) \/ Kill(p)
    PROVE  LockInv'
<1> USE DEF KInv, KTypeOK, LockInv, Running, Goto
<1>1. CASE Lock(p)
    BY <1>1 DEF Lock
<1>2. CASE LockFails(p)
    BY <1>2 DEF LockFails
<1>3. CASE Read(p)
    BY <1>3 DEF Read
<1>4. CASE Refuse(p)
    BY <1>4 DEF Refuse
<1>5. CASE Write(p)
    BY <1>5 DEF Write
<1>6. CASE Flush(p)
    BY <1>6 DEF Flush
<1>7. CASE Replace(p)
    BY <1>7 DEF Replace
<1>8. CASE Settle(p)
    BY <1>8 DEF Settle
<1>9. CASE WriteFails(p)
    BY <1>9 DEF WriteFails
<1>10. CASE Unlock(p)
    BY <1>10 DEF Unlock
<1>11. CASE Kill(p)
    BY <1>11 DEF Kill
<1>. QED
    BY <1>1, <1>2, <1>3, <1>4, <1>5, <1>6, <1>7, <1>8, <1>9, <1>10, <1>11 DEF Command

\* The plan of the command that takes the step.
LEMMA OwnPlanKept ==
    ASSUME KInv, NEW p \in Processes, Command(p) \/ Kill(p)
    PROVE  PlanInv(p)'
<1>0. PlanInv(p)
    BY DEF KInv
<1> USE DEF KInv, KTypeOK, PlanInv, Update, Old, Goto, Report, diskVars
<1>1. CASE Lock(p)
    BY <1>0, <1>1 DEF Lock
<1>2. CASE LockFails(p)
    BY <1>0, <1>2 DEF LockFails
<1>3. CASE Read(p)
  <2>1. store' = store /\ temp' = temp /\ result' = result /\ pc'[p] = "write"
      BY <1>3 DEF Read
  <2>2. records'[p] = Update(p)
      BY <1>3, Zenon DEF Read
  <2>3. (Key[p] \in records'[p]) = (p \in Generates)
      BY <2>2
  <2>4. result[p] # "ok"
      BY <1>0, <1>3 DEF Read
  <2>. QED
      BY <2>1, <2>2, <2>3, <2>4
<1>4. CASE Refuse(p)
    BY <1>0, <1>4 DEF Refuse
<1>5. CASE Write(p)
    BY <1>0, <1>5 DEF Write
<1>6. CASE Flush(p)
    BY <1>0, <1>6 DEF Flush
<1>7. CASE Replace(p)
    BY <1>0, <1>7 DEF Replace
<1>8. CASE Settle(p)
    BY <1>0, <1>8 DEF Settle
<1>9. CASE WriteFails(p)
    BY <1>0, <1>9 DEF WriteFails
<1>10. CASE Unlock(p)
    BY <1>0, <1>10 DEF Unlock
<1>11. CASE Kill(p)
    BY <1>0, <1>11 DEF Kill
<1>. QED
    BY <1>1, <1>2, <1>3, <1>4, <1>5, <1>6, <1>7, <1>8, <1>9, <1>10, <1>11 DEF Command

\* Only the holder of the lock changes the store, so no other command has a
\* plan that the change could spoil.
LEMMA OtherPlansKept ==
    ASSUME KInv, NEW p \in Processes, Command(p) \/ Kill(p), NEW q \in Processes \ {p}
    PROVE  PlanInv(q)'
<1>1. PlanInv(q)
    BY DEF KInv
<1>2. /\ pc'[q] = pc[q] /\ records'[q] = records[q] /\ temp'[q] = temp[q]
      /\ result'[q] = result[q]
    BY StepIsLocal DEF KInv, Local
<1>3. CASE store' = store
    BY <1>1, <1>2, <1>3 DEF PlanInv, Update, Old
<1>4. CASE pc[p] = "replace"
  <2>1. p \in lock /\ q \notin lock
      BY <1>4 DEF KInv, LockInv, Running
  <2>2. ~Running(q)
      BY <2>1 DEF KInv, LockInv
  <2>3. pc[q] \in {"start", "done", "killed"}
      BY <2>2 DEF Running
  <2>. QED
      BY <1>1, <1>2, <2>3 DEF PlanInv
<1>. QED
    BY <1>3, <1>4 DEF Command, Kill, Lock, LockFails, Read, Refuse, Write, Flush, Replace, Settle,
                      WriteFails, Unlock, diskVars

\* A power loss ends every running command and brings back one of the documents
\* of the disk.
LEMMA PowerLossKeeps == KInv /\ PowerLoss => KInv'
<1> SUFFICES ASSUME KInv, PowerLoss PROVE KInv'
    OBVIOUS
<1>1. KTypeOK' /\ (store \in disk)'
    BY DEF KInv, KTypeOK, PowerLoss, Running
<1>2. \A p \in Processes : pc'[p] \in {"start", "done", "killed"}
    BY DEF KInv, KTypeOK, PowerLoss, Running
<1>3. LockInv'
    BY <1>2 DEF PowerLoss, LockInv, Running
<1>4. ASSUME NEW p \in Processes PROVE result'[p] = "ok" => pc'[p] # "start"
    BY DEF KInv, KTypeOK, PowerLoss, PlanInv, Running
<1>5. \A p \in Processes : PlanInv(p)'
    BY <1>2, <1>4 DEF PlanInv
<1>. QED
    BY <1>1, <1>3, <1>5 DEF KInv

\* Every step keeps the invariant.
LEMMA InvariantKept == KInv /\ [Next]_vars => KInv'
<1> SUFFICES ASSUME KInv, [Next]_vars PROVE KInv'
    OBVIOUS
<1>1. ASSUME NEW p \in Processes, Command(p) \/ Kill(p) PROVE KInv'
  <2>1. \A q \in Processes : PlanInv(q)'
      BY <1>1, OwnPlanKept, OtherPlansKept
  <2>. QED
      BY <1>1, <2>1, TypesKept, LockKept DEF KInv
<1>2. CASE PowerLoss
    BY <1>2, PowerLossKeeps
<1>3. CASE UNCHANGED vars
    BY <1>3 DEF KInv, KTypeOK, LockInv, PlanInv, Update, Old, Running, vars, diskVars
<1>. QED
    BY <1>1, <1>2, <1>3 DEF Next

\* The lock serialises the commands, and each writes the store it read with its
\* own change.
THEOREM StoreInvariant == Spec => []KInv
BY InvariantInitially, InvariantKept, PTL DEF Spec

\* Whatever is killed and whenever the power fails, the path never names half a
\* file.
THEOREM StoreNeverTorn == Spec => []NeverTorn
<1>1. KInv => NeverTorn
    BY Marks DEF KInv, KTypeOK, NeverTorn
<1>. QED
    BY <1>1, StoreInvariant, PTL

\* No update is lost: a rename changes the one id its command was given.
THEOREM NoLostUpdate == Spec => OneKeyPerUpdate
<1>1. ASSUME KInv, [Next]_vars, NEW p \in Processes, pc[p] = "replace", pc'[p] = "settle"
      PROVE  store' = Update(p)
  <2>1. records[p] = Update(p)
      BY <1>1 DEF KInv, PlanInv
  <2>2. Replace(p)
    <3>1. ASSUME NEW q \in Processes, Command(q) \/ Kill(q) PROVE q = p
        BY <1>1, <3>1, StepIsLocal DEF KInv, Local
    <3>2. ~PowerLoss
        BY <1>1 DEF PowerLoss, Running, KInv, KTypeOK
    <3>3. pc' # pc
        BY <1>1
    <3>4. Command(p) \/ Kill(p)
        BY <1>1, <3>1, <3>2, <3>3 DEF Next, vars
    <3>. QED
        BY <1>1, <3>4 DEF KInv, KTypeOK, Command, Kill, Goto, Lock, LockFails, Read, Refuse, Write,
                          Flush, Settle, WriteFails, Unlock
  <2>. QED
      BY <2>1, <2>2 DEF Replace
<1>2. KInv /\ [Next]_vars =>
         [\A p \in Processes :
             pc[p] = "replace" /\ pc'[p] = "settle" =>
                 LET old == IF store = Absent THEN {} ELSE store IN
                 store' = IF p \in Generates THEN old \union {Key[p]} ELSE old \ {Key[p]}]_vars
    BY <1>1 DEF Update, Old
<1>. QED
    BY <1>2, StoreInvariant, PTL DEF Spec, OneKeyPerUpdate

\* What every content the disk may come back with is, once p is acknowledged and
\* nobody else has begun on its id.
Undisputed(p) ==
    /\ result[p] = "ok"
    /\ \A q \in Processes \ {p} : Key[q] = Key[p] => pc[q] = "start"
Shows(p, after) ==
    /\ after \notin {Absent, Torn}
    /\ (Key[p] \in after) = (p \in Generates)

\* The command's own steps: it is acknowledged after the directory is flushed,
\* when the new document is all the disk can hold.
LEMMA OwnStepShows ==
    ASSUME KInv, AcknowledgedStays, NEW p \in Processes, Command(p) \/ Kill(p), Undisputed(p)'
    PROVE  \A after \in disk' : Shows(p, after)
<1>0. PlanInv(p)
    BY DEF KInv
<1>1. \A q \in Processes \ {p} : pc'[q] = pc[q]
    BY StepIsLocal DEF KInv, Local
<1>2. CASE Settle(p)
  <2>1. disk' = {store} /\ store = records[p]
      BY <1>0, <1>2, Marks DEF Settle, PlanInv, KInv, KTypeOK
  <2>2. records[p] \in SUBSET Keys /\ (Key[p] \in records[p]) = (p \in Generates)
      BY <1>0, <1>2 DEF Settle, PlanInv, KInv, KTypeOK
  <2>3. records[p] \notin {Absent, Torn}
      BY <2>2, Marks DEF Documents
  <2>. QED
      BY <2>1, <2>2, <2>3 DEF Shows
<1>3. CASE ~Settle(p)
  <2>1. result[p] = "ok"
      BY <1>3 DEF Undisputed, KInv, KTypeOK, Command, Kill, Report, Lock, LockFails, Read, Refuse,
                  Write, Flush, Replace, WriteFails, Unlock
  <2>2. disk' = disk
      BY <1>0, <1>3, <2>1 DEF PlanInv, Command, Kill, Lock, LockFails, Read, Refuse, Write, Flush,
                              Replace, WriteFails, Unlock, diskVars
  <2>3. Undisputed(p)
      BY <1>1, <2>1 DEF Undisputed
  <2>. QED
      BY <2>2, <2>3 DEF AcknowledgedStays, Undisputed, Shows
<1>. QED
    BY <1>2, <1>3

\* Another command's steps: it works on another id, and starts from a store
\* that shows p's change.
LEMMA OtherStepShows ==
    ASSUME KInv, AcknowledgedStays, NEW q \in Processes, Command(q) \/ Kill(q),
           NEW p \in Processes \ {q}, Undisputed(p)'
    PROVE  \A after \in disk' : Shows(p, after)
<1>1. /\ result'[p] = result[p]
      /\ \A r \in Processes \ {q} : pc'[r] = pc[r]
    BY StepIsLocal DEF KInv, Local
<1>2. pc'[q] # "start"
    BY DEF KInv, KTypeOK, Command, Kill, Goto, Lock, LockFails, Read, Refuse, Write, Flush, Replace,
           Settle, WriteFails, Unlock
<1>3. Key[q] # Key[p]
    BY <1>2 DEF Undisputed
<1>4. Undisputed(p)
    BY <1>1, <1>3 DEF Undisputed
<1>5. \A after \in disk : Shows(p, after)
    BY <1>4 DEF AcknowledgedStays, Undisputed, Shows
<1>6. CASE Replace(q)
  <2>1. /\ temp[q] = "flushed" /\ records[q] = Update(q)
      BY <1>6 DEF Replace, KInv, PlanInv
  <2>2. disk' = disk \union {records[q]}
      BY <1>6, <2>1 DEF Replace
  <2>3. Shows(p, store)
      BY <1>5 DEF KInv
  <2>4. (Key[p] \in records[q]) = (p \in Generates)
      BY <1>3, <2>1, <2>3 DEF Update, Old, Shows
  <2>5. records[q] \notin {Absent, Torn}
      BY Marks DEF KInv, KTypeOK, Documents
  <2>. QED
      BY <1>5, <2>2, <2>4, <2>5 DEF Shows
<1>7. CASE Settle(q)
    BY <1>5, <1>7 DEF Settle, KInv
<1>8. CASE ~Replace(q) /\ ~Settle(q)
  <2>1. disk' = disk
      BY <1>8 DEF Command, Kill, Lock, LockFails, Read, Refuse, Write, Flush, WriteFails, Unlock,
                  diskVars
  <2>. QED
      BY <1>5, <2>1
<1>. QED
    BY <1>6, <1>7, <1>8

\* Every step keeps what was acknowledged, a power loss included.
LEMMA AcknowledgedKept == KInv /\ AcknowledgedStays /\ [Next]_vars => AcknowledgedStays'
<1> SUFFICES ASSUME KInv, AcknowledgedStays, [Next]_vars, NEW p \in Processes, Undisputed(p)'
             PROVE  \A after \in disk' : Shows(p, after)
    BY DEF AcknowledgedStays, Undisputed, Shows
<1>1. ASSUME NEW q \in Processes, Command(q) \/ Kill(q)
      PROVE  \A after \in disk' : Shows(p, after)
    BY <1>1, OwnStepShows, OtherStepShows
<1>2. CASE PowerLoss
  <2>1. Undisputed(p)
      BY <1>2 DEF Undisputed, PowerLoss, KInv, KTypeOK, Running
  <2>2. disk' \subseteq disk
      BY <1>2 DEF PowerLoss
  <2>. QED
      BY <2>1, <2>2 DEF AcknowledgedStays, Undisputed, Shows
<1>3. CASE UNCHANGED vars
    BY <1>3 DEF vars, diskVars, AcknowledgedStays, Undisputed, Shows
<1>. QED
    BY <1>1, <1>2, <1>3 DEF Next

\* What a command acknowledged is in every content a power loss can leave, as
\* long as nobody else begins on the same id.
THEOREM AcknowledgedAlways == Spec => []AcknowledgedStays
<1>1. Init => AcknowledgedStays
    BY DEF Init, AcknowledgedStays
<1>. QED
    BY <1>1, StoreInvariant, AcknowledgedKept, PTL DEF Spec
=============================================================================
