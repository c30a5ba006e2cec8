------------------------------ MODULE PortLock ------------------------------
(***************************************************************************)
(* Filelock.py and its callers in UART.py: the lock file of one serial     *)
(* port, shared by processes that open the port to look for a sniffer      *)
(* (find_sniffer) or to capture from it, on Linux.                         *)
(*                                                                         *)
(* The file is tested, read, removed, created and written in separate      *)
(* steps, and a process may die between any two of them.  A process that   *)
(* has opened the file writes to it even after another has removed it.     *)
(* The operating system lets one process at a time open the port           *)
(* (exclusive=True).                                                       *)
(***************************************************************************)
EXTENDS Naturals, TLAPS

CONSTANTS
  Process,   (* process identifiers                                        *)
  None       (* no file; no process                                        *)

ASSUME PortLockAssumption == None \notin Process \cup {"empty"} /\ "empty" \notin Process

VARIABLES
  pc,        (* where each process is                                      *)
  call,      (* the call of Filelock it is in: lock, or unlock from close  *)
             (* or from __del__                                            *)
  file,      (* what the lock file holds: a pid, or nothing yet            *)
  handle,    (* the processes that have the present file open              *)
  lockedpid, (* what each process has read                                 *)
  port,      (* the process that has the port open                         *)
  disturbed  (* history: those whose lock overlapped another call          *)

vars == <<pc, call, file, handle, lockedpid, port, disturbed>>

PC == {"absent", "other", "start", "isfile", "read", "invalid", "decide", "stale",
       "create", "recreate", "write", "open", "port", "remove", "closed"}
Call == {"none", "lock", "close", "del"}

Init == /\ pc = [p \in Process |-> "absent"]
        /\ call = [p \in Process |-> "none"]
        /\ file = None
        /\ handle = {}
        /\ lockedpid = [p \in Process |-> None]
        /\ port = None
        /\ disturbed = {}
-----------------------------------------------------------------------------
At(p, l) == pc[p] = l
Goto(p, l) == pc' = [pc EXCEPT ![p] = l]
FileIdle == UNCHANGED <<file, handle>>

Touching(p) == pc[p] \in {"isfile", "read", "invalid", "decide", "stale", "create",
                          "recreate", "write", "remove"}

(* A call of lock or unlock begins. *)
Enter(p, c) ==
  /\ pc' = [pc EXCEPT ![p] = "isfile"]
  /\ call' = [call EXCEPT ![p] = c]
  /\ lockedpid' = [lockedpid EXCEPT ![p] = None]
  /\ LET rivals == {q \in Process \ {p} : Touching(q)}
     IN disturbed' = (disturbed \ {p}) \cup rivals \cup {q \in {p} : rivals # {}}

(* A call of unlock ends, or either ends with an exception.  A Uart that   *)
(* was not opened, or was closed, is collected at once, and __del__ closes *)
(* it again; exceptions in __del__ are ignored.                            *)
Leave(p) == IF call[p] = "del"
            THEN /\ Goto(p, "closed")
                 /\ call' = [call EXCEPT ![p] = "none"]
                 /\ lockedpid' = [lockedpid EXCEPT ![p] = None]
                 /\ UNCHANGED disturbed
            ELSE Enter(p, "del")

(* os.remove: the file goes, whoever has it open. *)
RemoveFile == file # None /\ file' = None /\ handle' = {}

(* FileNotFoundError: another process has removed the file. *)
NotFound(p) == /\ file = None
               /\ Leave(p)
               /\ UNCHANGED <<file, handle, port>>
-----------------------------------------------------------------------------
(* Uart.__init__ and Uart.close. *)

Lock(p) == /\ pc[p] \in {"start", "closed"}
           /\ Enter(p, "lock")
           /\ UNCHANGED <<file, handle, port>>

OpenPort(p) == /\ At(p, "open")
               /\ port = None
               /\ port' = p
               /\ Goto(p, "port")
               /\ call' = [call EXCEPT ![p] = "none"]
               /\ UNCHANGED <<file, handle, lockedpid, disturbed>>

\* Mutant: the lock is not given back when the port cannot be opened.
OpenPortFailsLocked(p) == /\ At(p, "open")
                          /\ port # None
                          /\ Goto(p, "closed")
                          /\ call' = [call EXCEPT ![p] = "none"]
                          /\ lockedpid' = [lockedpid EXCEPT ![p] = None]
                          /\ UNCHANGED <<file, handle, port, disturbed>>

OpenPortFails(p) == /\ At(p, "open")
                    /\ port # None
                    /\ Leave(p)
                    /\ UNCHANGED <<file, handle, port>>

ClosePort(p) == /\ At(p, "port")
                /\ port' = None
                /\ Enter(p, "close")
                /\ UNCHANGED <<file, handle>>
-----------------------------------------------------------------------------
(* lockpid, for lock and unlock. *)

IsFile(p) == /\ At(p, "isfile")
             /\ Goto(p, IF file = None THEN "decide" ELSE "read")
             /\ UNCHANGED <<call, file, handle, lockedpid, port, disturbed>>

Read(p) == /\ At(p, "read")
           /\ file # None
           /\ IF file = "empty"
              THEN Goto(p, "invalid") /\ UNCHANGED lockedpid
              ELSE /\ Goto(p, "decide")
                   /\ lockedpid' = [lockedpid EXCEPT ![p] = file]
           /\ UNCHANGED <<call, file, handle, port, disturbed>>

\* Mutant: the error of int() is not caught.
InvalidRaises(p) == /\ At(p, "invalid")
                    /\ file # None
                    /\ Leave(p)
                    /\ UNCHANGED <<file, handle, port>>

RemoveInvalid(p) == /\ At(p, "invalid")
                    /\ RemoveFile
                    /\ Goto(p, "decide")
                    /\ UNCHANGED <<call, lockedpid, port, disturbed>>

FileNotFound(p) == /\ pc[p] \in {"read", "invalid", "stale", "remove"}
                   /\ NotFound(p)
-----------------------------------------------------------------------------
(* lock. *)

PidExists(q) == pc[q] # "absent"

(* There was no lock, or it is this process's own. *)
Unlocked(p) == /\ At(p, "decide") /\ call[p] = "lock"
               /\ lockedpid[p] \in {None, p}
               /\ Goto(p, IF lockedpid[p] = p THEN "open" ELSE "create")
               /\ UNCHANGED <<call, file, handle, lockedpid, port, disturbed>>

(* LockedException. *)
Locked(p) == /\ At(p, "decide") /\ call[p] = "lock"
             /\ lockedpid[p] \notin {None, p}
             /\ PidExists(lockedpid[p])
             /\ Leave(p)
             /\ UNCHANGED <<file, handle, port>>

\* Mutant: whether the process still exists is not asked.
StaleAlways(p) == /\ At(p, "decide") /\ call[p] = "lock"
                  /\ lockedpid[p] \notin {None, p}
                  /\ Goto(p, "stale")
                  /\ UNCHANGED <<call, file, handle, lockedpid, port, disturbed>>

Stale(p) == /\ At(p, "decide") /\ call[p] = "lock"
            /\ lockedpid[p] \notin {None, p}
            /\ ~PidExists(lockedpid[p])
            /\ Goto(p, "stale")
            /\ UNCHANGED <<call, file, handle, lockedpid, port, disturbed>>

RemoveStale(p) == /\ At(p, "stale")
                  /\ RemoveFile
                  /\ Goto(p, "create")
                  /\ UNCHANGED <<call, lockedpid, port, disturbed>>

(* The file is opened for writing twice, which empties it. *)
Create(p) == /\ pc[p] \in {"create", "recreate"}
             /\ Goto(p, IF At(p, "create") THEN "recreate" ELSE "write")
             /\ file' = "empty"
             /\ handle' = handle \cup {p}
             /\ UNCHANGED <<call, lockedpid, port, disturbed>>

WritePid(p) == /\ At(p, "write")
               /\ Goto(p, "open")
               /\ file' = IF p \in handle THEN p ELSE file
               /\ handle' = handle \ {p}
               /\ UNCHANGED <<call, lockedpid, port, disturbed>>
-----------------------------------------------------------------------------
(* unlock. *)

UnlockOwn(p) == /\ At(p, "decide") /\ call[p] # "lock"
                /\ lockedpid[p] = p
                /\ Goto(p, "remove")
                /\ UNCHANGED <<call, file, handle, lockedpid, port, disturbed>>

UnlockOther(p) == /\ At(p, "decide") /\ call[p] # "lock"
                  /\ lockedpid[p] # p
                  /\ Leave(p)
                  /\ UNCHANGED <<file, handle, port>>

Remove(p) == /\ At(p, "remove")
             /\ RemoveFile
             /\ Leave(p)
             /\ UNCHANGED port
-----------------------------------------------------------------------------
(* The operating system: a process starts, exits or dies, or its pid is    *)
(* given to another program.  The port of a dead process is closed.        *)
Start(p) == /\ At(p, "absent")
            /\ Goto(p, "start")
            /\ UNCHANGED <<call, file, handle, lockedpid, port, disturbed>>

Exit(p) == /\ pc[p] \in {"start", "closed", "other"}
           /\ Goto(p, "absent")
           /\ UNCHANGED <<call, file, handle, lockedpid, port, disturbed>>

Crash(p) == /\ pc[p] \notin {"absent", "other", "start", "closed"}
            /\ Goto(p, "absent")
            /\ call' = [call EXCEPT ![p] = "none"]
            /\ lockedpid' = [lockedpid EXCEPT ![p] = None]
            /\ handle' = handle \ {p}
            /\ port' = IF port = p THEN None ELSE port
            /\ UNCHANGED <<file, disturbed>>

Other(p) == /\ At(p, "absent")
            /\ Goto(p, "other")
            /\ UNCHANGED <<call, file, handle, lockedpid, port, disturbed>>
-----------------------------------------------------------------------------
Step(p) == \/ IsFile(p) \/ Read(p) \/ RemoveInvalid(p) \/ FileNotFound(p)
           \/ Unlocked(p) \/ Locked(p) \/ Stale(p) \/ RemoveStale(p)
           \/ Create(p) \/ WritePid(p) \/ OpenPort(p) \/ OpenPortFails(p)
           \/ UnlockOwn(p) \/ UnlockOther(p) \/ Remove(p)

Next == \E p \in Process :
          \/ Step(p) \/ Lock(p) \/ ClosePort(p)
          \/ Start(p) \/ Exit(p) \/ Crash(p) \/ Other(p)

Spec == Init /\ [][Next]_vars

Fairness == WF_vars(\E p \in Process : Step(p))

FairSpec == Spec /\ Fairness
-----------------------------------------------------------------------------
(* Types. *)
TypeOK == /\ pc \in [Process -> PC]
          /\ call \in [Process -> Call]
          /\ file \in Process \cup {None, "empty"}
          /\ handle \subseteq Process
          /\ lockedpid \in [Process -> Process \cup {None}]
          /\ port \in Process \cup {None}
          /\ disturbed \subseteq Process

(* A process that has closed the port, or could not open it, leaves no     *)
(* lock file with its pid behind: none of the ways out of Uart.__init__    *)
(* and close forgets unlock, and no delayed write brings the file back.    *)
LockReleased == \A p \in Process : pc[p] = "closed" => file # p

(* The lock file names the process that has the port open, if its lock did *)
(* not overlap a call of another process: later calls respect it.          *)
LockKept == \A p \in Process : (port = p /\ p \notin disturbed) => file = p

Alone(p) == \A q \in Process \ {p} : pc[q] = "absent"

(* Whatever lock file dead processes have left, empty, stale or with the   *)
(* pid of the process itself, a process that begins to lock gets the port  *)
(* as long as nobody else turns up.                                        *)
StaleLockRecovered ==
  \A p \in Process :
    (pc[p] = "isfile" /\ call[p] = "lock" /\ Alone(p))
      ~> (port = p \/ ~Alone(p) \/ pc[p] = "absent")
-----------------------------------------------------------------------------
(* Proofs, for any number of processes.                                    *)

(* From the stale lock file to the open port a process is in lock.         *)
Locking == \A p \in Process :
             pc[p] \in {"stale", "create", "recreate", "write", "open"} => call[p] = "lock"

(* Once unlock has found that the file is not this process's, it stays so. *)
Released == \A p \in Process :
              (\/ pc[p] = "closed"
               \/ call[p] # "lock" /\ pc[p] = "invalid"
               \/ call[p] # "lock" /\ pc[p] = "decide" /\ lockedpid[p] # p)
                => file # p

(* A call has read nothing before it has read a pid.                       *)
Unread == \A p \in Process :
            pc[p] \in {"isfile", "read", "invalid"} => lockedpid[p] = None

(* Calls that overlap are all disturbed.                                   *)
Overlap == \A p, q \in Process : p # q /\ Touching(p) /\ Touching(q) => p \in disturbed

(* What an undisturbed process has read or written is there.               *)
Written == \A p \in Process \ disturbed :
             /\ pc[p] = "write" => p \in handle
             /\ pc[p] = "decide" /\ lockedpid[p] = p => file = p
             /\ pc[p] \in {"open", "port"} => file = p

(* The others have not read anything but its pid.                          *)
Respected == \A p \in Process \ disturbed : \A q \in Process \ {p} :
               pc[p] \in {"open", "port"} =>
                 /\ pc[q] \notin {"invalid", "stale", "create", "recreate", "write", "remove"}
                 /\ pc[q] = "decide" => lockedpid[q] = p

Holder == \A p \in Process : port = p => pc[p] = "port"

IInv == TypeOK /\ Locking /\ Released /\ Unread /\ Overlap /\ Written /\ Respected /\ Holder
-----------------------------------------------------------------------------
(* The initial states satisfy the invariant. *)
LEMMA InitIInv == Init => IInv
  <1> SUFFICES ASSUME Init PROVE IInv
    OBVIOUS
  <1> USE PortLockAssumption DEF Init
  <1>1. TypeOK
    BY DEF TypeOK, PC, Call
  <1>2. Locking /\ Released /\ Unread /\ Overlap /\ Written /\ Respected /\ Holder
    BY DEF Locking, Released, Unread, Overlap, Written, Respected, Holder, Touching
  <1> QED BY <1>1, <1>2 DEF IInv

(* Every step preserves the types. *)
LEMMA NextTypeOK == TypeOK /\ [Next]_vars => TypeOK'
  <1> SUFFICES ASSUME TypeOK, [Next]_vars PROVE TypeOK'
    OBVIOUS
  <1> USE DEF TypeOK, PC, Call, At, Goto, Enter, Leave, RemoveFile, NotFound
  <1>1. CASE UNCHANGED vars
    BY <1>1 DEF vars
  <1>2. ASSUME NEW p \in Process,
               Step(p) \/ Lock(p) \/ ClosePort(p) \/ Start(p) \/ Exit(p) \/ Crash(p) \/ Other(p)
        PROVE TypeOK'
    <2>1. CASE IsFile(p)
      BY <2>1 DEF IsFile
    <2>2. CASE Read(p)
      BY <2>2 DEF Read
    <2>3. CASE RemoveInvalid(p)
      BY <2>3 DEF RemoveInvalid
    <2>4. CASE FileNotFound(p)
      BY <2>4 DEF FileNotFound
    <2>5. CASE Unlocked(p)
      BY <2>5 DEF Unlocked
    <2>6. CASE Locked(p)
      BY <2>6 DEF Locked
    <2>7. CASE Stale(p)
      BY <2>7 DEF Stale
    <2>8. CASE RemoveStale(p)
      BY <2>8 DEF RemoveStale
    <2>9. CASE Create(p)
      BY <2>9 DEF Create
    <2>10. CASE WritePid(p)
      BY <2>10 DEF WritePid
    <2>11. CASE OpenPort(p)
      BY <2>11 DEF OpenPort
    <2>12. CASE OpenPortFails(p)
      BY <2>12 DEF OpenPortFails
    <2>13. CASE UnlockOwn(p)
      BY <2>13 DEF UnlockOwn
    <2>14. CASE UnlockOther(p)
      BY <2>14 DEF UnlockOther
    <2>15. CASE Remove(p)
      BY <2>15 DEF Remove
    <2>16. CASE Lock(p)
      BY <2>16 DEF Lock
    <2>17. CASE ClosePort(p)
      BY <2>17 DEF ClosePort
    <2>18. CASE Start(p)
      BY <2>18 DEF Start
    <2>19. CASE Exit(p)
      BY <2>19 DEF Exit
    <2>20. CASE Crash(p)
      BY <2>20 DEF Crash
    <2>21. CASE Other(p)
      BY <2>21 DEF Other
    <2> QED BY <1>2, <2>1, <2>2, <2>3, <2>4, <2>5, <2>6, <2>7, <2>8, <2>9, <2>10, <2>11, <2>12, <2>13, <2>14, <2>15, <2>16, <2>17, <2>18, <2>19, <2>20, <2>21 DEF Step
  <1> QED BY <1>1, <1>2 DEF Next

(* Every step preserves the rest of the invariant. *)
LEMMA NextIInv == IInv /\ [Next]_vars => IInv'
  <1> SUFFICES ASSUME IInv, [Next]_vars PROVE IInv'
    OBVIOUS
  <1>t. TypeOK'
    BY NextTypeOK DEF IInv
  <1> USE PortLockAssumption DEF IInv, TypeOK, PC, Call, At, Goto, Enter, Leave, RemoveFile, NotFound,
          Locking, Released, Unread, Overlap, Written, Respected, Holder, Touching
  <1>1. CASE UNCHANGED vars
    BY <1>1 DEF vars
  <1>2. ASSUME NEW p \in Process,
               Step(p) \/ Lock(p) \/ ClosePort(p) \/ Start(p) \/ Exit(p) \/ Crash(p) \/ Other(p)
        PROVE IInv'
    <2>1. CASE IsFile(p)
      BY <1>t, <2>1 DEF IsFile, PidExists
    <2>2. CASE Read(p)
      BY <1>t, <2>2 DEF Read, PidExists
    <2>3. CASE RemoveInvalid(p)
      BY <1>t, <2>3 DEF RemoveInvalid, PidExists
    <2>4. CASE FileNotFound(p)
      BY <1>t, <2>4 DEF FileNotFound, PidExists
    <2>5. CASE Unlocked(p)
      BY <1>t, <2>5 DEF Unlocked, PidExists
    <2>6. CASE Locked(p)
      BY <1>t, <2>6 DEF Locked, PidExists
    <2>7. CASE Stale(p)
      BY <1>t, <2>7 DEF Stale, PidExists
    <2>8. CASE RemoveStale(p)
      BY <1>t, <2>8 DEF RemoveStale, PidExists
    <2>9. CASE Create(p)
      BY <1>t, <2>9 DEF Create, PidExists
    <2>10. CASE WritePid(p)
      BY <1>t, <2>10 DEF WritePid, PidExists
    <2>11. CASE OpenPort(p)
      BY <1>t, <2>11 DEF OpenPort, PidExists
    <2>12. CASE OpenPortFails(p)
      BY <1>t, <2>12 DEF OpenPortFails, PidExists
    <2>13. CASE UnlockOwn(p)
      BY <1>t, <2>13 DEF UnlockOwn, PidExists
    <2>14. CASE UnlockOther(p)
      BY <1>t, <2>14 DEF UnlockOther, PidExists
    <2>15. CASE Remove(p)
      BY <1>t, <2>15 DEF Remove, PidExists
    <2>16. CASE Lock(p)
      BY <1>t, <2>16 DEF Lock, PidExists
    <2>17. CASE ClosePort(p)
      BY <1>t, <2>17 DEF ClosePort, PidExists
    <2>18. CASE Start(p)
      BY <1>t, <2>18 DEF Start, PidExists
    <2>19. CASE Exit(p)
      BY <1>t, <2>19 DEF Exit, PidExists
    <2>20. CASE Crash(p)
      BY <1>t, <2>20 DEF Crash, PidExists
    <2>21. CASE Other(p)
      BY <1>t, <2>21 DEF Other, PidExists
    <2> QED BY <1>2, <2>1, <2>2, <2>3, <2>4, <2>5, <2>6, <2>7, <2>8, <2>9, <2>10, <2>11, <2>12, <2>13, <2>14, <2>15, <2>16, <2>17, <2>18, <2>19, <2>20, <2>21 DEF Step
  <1> QED BY <1>1, <1>2 DEF Next
-----------------------------------------------------------------------------
(* The inductive invariant holds in every behaviour.                       *)
THEOREM Invariance == Spec => []IInv
  BY InitIInv, NextIInv, PTL DEF Spec

(* Every variable of the lock keeps its type.                              *)
THEOREM TypeCorrect == Spec => []TypeOK
  <1>1. IInv => TypeOK
    BY DEF IInv
  <1> QED BY <1>1, Invariance, PTL

(* No process that has closed the port leaves a lock file with its pid     *)
(* (Uart.__init__, close and __del__), however the calls interleave.       *)
THEOREM ReleasedAlways == Spec => []LockReleased
  <1>1. IInv => LockReleased
    BY DEF IInv, Released, LockReleased
  <1> QED BY <1>1, Invariance, PTL

(* A lock taken while no other call was under way is respected until the   *)
(* port is closed (Filelock.lock and unlock), for any number of processes. *)
THEOREM KeptAlways == Spec => []LockKept
  <1>1. IInv => LockKept
    BY DEF IInv, Written, Holder, TypeOK, LockKept
  <1> QED BY <1>1, Invariance, PTL
=============================================================================
