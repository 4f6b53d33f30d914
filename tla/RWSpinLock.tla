----------------------------- MODULE RWSpinLock -----------------------------
(***************************************************************************)
(* RWSpinLock (src/quantumvk/utils/read_write_lock.hpp): a reader-writer   *)
(* spin lock in one atomic word.  Bit 0 is the writer, the bits above it   *)
(* count the readers, those that still spin included.  `holds' is where    *)
(* each thread stands; the code keeps it in the program counter alone.     *)
(* The word has 32 bits, far more than two per thread.                     *)
(***************************************************************************)
EXTENDS Integers, FiniteSets

CONSTANT Threads
ASSUME ThreadsAssumption == IsFiniteSet(Threads)

VARIABLES counter, holds
lockVars == <<counter, holds>>

Reader == 2
Writer == 1
HasWriter == counter % 2 = 1

LockInit == /\ counter = 0
            /\ holds = [t \in Threads |-> "free"]

\* lock_read: the count goes up at once, whatever the writer bit says.
LockRead(t) ==
    /\ holds[t] = "free"
    /\ counter' = counter + Reader
    /\ holds' = [holds EXCEPT ![t] = IF HasWriter THEN "spinning" ELSE "reading"]

\* lock_read: the loop sees the writer bit clear.
SpinRead(t) ==
    /\ holds[t] = "spinning"
    /\ ~HasWriter
    /\ holds' = [holds EXCEPT ![t] = "reading"]
    /\ UNCHANGED counter

UnlockRead(t) ==
    /\ holds[t] = "reading"
    /\ counter' = counter - Reader
    /\ holds' = [holds EXCEPT ![t] = "free"]

\* A slip: only another writer keeps a writer out.
BugLockWrite(t) ==
    /\ holds[t] = "free"
    /\ ~HasWriter
    /\ counter' = counter + Writer
    /\ holds' = [holds EXCEPT ![t] = "writing"]

\* lock_write: the exchange succeeds on an unused lock only.
LockWrite(t) ==
    /\ holds[t] = "free"
    /\ counter = 0
    /\ counter' = Writer
    /\ holds' = [holds EXCEPT ![t] = "writing"]

\* A slip: the subtraction of unlock_read, copied.
BugUnlockWrite(t) ==
    /\ holds[t] = "writing"
    /\ counter' = counter - Reader
    /\ holds' = [holds EXCEPT ![t] = "free"]

\* A slip: the mask is not inverted.
BugUnlockWriteMask(t) ==
    /\ holds[t] = "writing"
    /\ counter' = counter % 2
    /\ holds' = [holds EXCEPT ![t] = "free"]

\* unlock_write: fetch_and(~Writer).
UnlockWrite(t) ==
    /\ holds[t] = "writing"
    /\ counter' = counter - (counter % 2)
    /\ holds' = [holds EXCEPT ![t] = "free"]

\* promote_reader_to_writer, the only reader: the exchange succeeds.  When it
\* fails the code runs UnlockRead and LockWrite.
Promote(t) ==
    /\ holds[t] = "reading"
    /\ counter = Reader
    /\ counter' = Writer
    /\ holds' = [holds EXCEPT ![t] = "writing"]

LockNext == \E t \in Threads :
    \/ LockRead(t) \/ SpinRead(t) \/ UnlockRead(t)
    \/ LockWrite(t) \/ UnlockWrite(t) \/ Promote(t)

LockSpec == LockInit /\ [][LockNext]_lockVars

-----------------------------------------------------------------------------
Holding(states) == {t \in Threads : holds[t] \in states}

LockTypeOK == /\ counter \in Nat
              /\ holds \in [Threads -> {"free", "spinning", "reading", "writing"}]

\* The word counts exactly those who hold it or wait for it.
WordCounts ==
    counter = Reader * Cardinality(Holding({"spinning", "reading"}))
                + Writer * Cardinality(Holding({"writing"}))

\* The spin lock keeps a writer alone: nobody reads a hash map that is being
\* changed, and no two threads change it.
MutualExclusion ==
    \A t, u \in Threads :
        holds[t] = "writing" /\ holds[u] \in {"reading", "writing"} => t = u

LockInv == LockTypeOK /\ WordCounts /\ MutualExclusion
=============================================================================
