----------------------------- MODULE CaptureFile -----------------------------
(***************************************************************************)
(* SnifferAPI/CaptureFiles.py, CaptureFileHandler, in several processes    *)
(* that record into one file: every capture of every dongle uses the same  *)
(* path.  The constructor starts the file or moves a file that has grown   *)
(* too large to a backup; writePacket opens the file by its name for each  *)
(* packet.  Each call to the file system is a step; what is written to an  *)
(* open file reaches it when it is closed.  A process may die anywhere.    *)
(*                                                                         *)
(* A name refers to an inode and so does an open file: whoever has opened  *)
(* a file writes to it whatever its name has become (Linux; Windows does   *)
(* not rename open files).  A packet is its number, and is longer than the *)
(* header of the file.  The directory exists; clear is never given.        *)
(***************************************************************************)
EXTENDS Integers, Sequences, FiniteSets

CONSTANTS Process,
          Limit,       (* 20000000: a longer file is moved away             *)
          MaxPackets   (* bound: packets written                            *)

ASSUME CaptureFileAssumption == /\ IsFiniteSet(Process)
                                /\ Limit \in Nat \ {0}
                                /\ MaxPackets \in Nat

Inode == 1..(Cardinality(Process) + 2)
NoInode == 0
Name == {"file", "backup"}

Header == 0
Torn == -1        (* the rest of a packet whose beginning is overwritten   *)

VARIABLES
  dir,          (* the inode of each name                                  *)
  content,      (* of each inode                                           *)
  pc,           (* where each process is                                   *)
  fd,           (* the file it has open                                    *)
  written,      (* history: the packets written                            *)
  disturbed,    (* history: a file was started or moved by one process     *)
                (* while another one was running                           *)
  abandoned     (* history: a process died between two steps of this       *)

vars == <<dir, content, pc, fd, written, disturbed, abandoned>>

(* About to start a new file, or about to give it its header.              *)
Starting == {"new_open", "new_write"}
Changing == Starting \cup {"roll_remove", "roll_rename"}

Init == /\ dir = [n \in Name |-> NoInode]
        /\ content = [i \in Inode |-> <<>>]
        /\ pc = [p \in Process |-> "off"]
        /\ fd = [p \in Process |-> NoInode]
        /\ written = <<>>
        /\ disturbed = FALSE
        /\ abandoned = FALSE

-----------------------------------------------------------------------------
Goto(p, l) == /\ pc' = [pc EXCEPT ![p] = l]
              /\ disturbed' = (disturbed \/ \E q, r \in Process :
                                 q # r /\ pc'[q] \in Changing /\ pc'[r] # "off")

(* A file without a name that nobody has open is gone.                     *)
Files(d, f, c) ==
  /\ dir' = d
  /\ fd' = f
  /\ content' = [i \in Inode |-> IF \/ \E n \in Name : d[n] = i
                                    \/ \E p \in Process : f[p] = i
                                 THEN c[i] ELSE <<>>]

NewInode == CHOOSE i \in Inode : /\ \A n \in Name : dir[n] # i
                                 /\ \A p \in Process : fd[p] # i

\* Mutant: the file is emptied for every packet.
OpenEmpties(p, mode) ==
  LET i == IF dir["file"] = NoInode THEN NewInode ELSE dir["file"]
  IN  Files([dir EXCEPT !["file"] = i], [fd EXCEPT ![p] = i], [content EXCEPT ![i] = <<>>])

(* open(self.filename, mode): "wb" empties the file, both modes create it. *)
Open(p, mode) ==
  LET i == IF dir["file"] = NoInode THEN NewInode ELSE dir["file"]
  IN  Files([dir EXCEPT !["file"] = i], [fd EXCEPT ![p] = i],
            IF mode = "wb" THEN [content EXCEPT ![i] = <<>>] ELSE content)

(* The buffer is written and the file closed: at its beginning, or at its  *)
(* end whatever others have written to it meanwhile.                       *)
Close(p, new) == Files(dir, [fd EXCEPT ![p] = NoInode], [content EXCEPT ![fd[p]] = new])

Overwritten(c) == <<Header>> \o (IF c = <<>> THEN <<>>
                                 ELSE IF c[1] = Header THEN Tail(c)
                                 ELSE <<Torn>> \o Tail(c))

Start(p) == /\ pc[p] = "off"
            /\ Goto(p, "check")
            /\ UNCHANGED <<dir, content, fd, written, abandoned>>

IsFile(p) == /\ pc[p] = "check"
             /\ Goto(p, IF dir["file"] = NoInode THEN "new_open" ELSE "size")
             /\ UNCHANGED <<dir, content, fd, written, abandoned>>

(* getsize raises if the file has been moved away meanwhile.               *)
GetSize(p) == /\ pc[p] = "size"
              /\ Goto(p, IF dir["file"] = NoInode THEN "off"
                         ELSE IF Len(content[dir["file"]]) > Limit THEN "roll_remove"
                         ELSE "ready")
              /\ UNCHANGED <<dir, content, fd, written, abandoned>>

\* Mutant: the file is removed instead of the backup.
RollRemoveFile(p) == /\ pc[p] = "roll_remove"
                     /\ Files([dir EXCEPT !["file"] = NoInode], fd, content)
                     /\ Goto(p, "roll_rename")
                     /\ UNCHANGED <<written, abandoned>>

(* Whether or not there was a backup.                                      *)
RollRemove(p) == /\ pc[p] = "roll_remove"
                 /\ Files([dir EXCEPT !["backup"] = NoInode], fd, content)
                 /\ Goto(p, "roll_rename")
                 /\ UNCHANGED <<written, abandoned>>

RollRename(p) == /\ pc[p] = "roll_rename"
                 /\ dir["file"] # NoInode
                 /\ Files([file |-> NoInode, backup |-> dir["file"]], fd, content)
                 /\ Goto(p, "new_open")
                 /\ UNCHANGED <<written, abandoned>>

(* Another process was faster: no new file is started.                     *)
RollFails(p) == /\ pc[p] = "roll_rename"
                /\ dir["file"] = NoInode
                /\ Goto(p, "ready")
                /\ UNCHANGED <<dir, content, fd, written, abandoned>>

NewOpen(p) == /\ pc[p] = "new_open"
              /\ Open(p, "wb")
              /\ Goto(p, "new_write")
              /\ UNCHANGED <<written, abandoned>>

\* Mutant: the header is written where the file ends by then.
NewWriteAppends(p) == /\ pc[p] = "new_write"
                      /\ Close(p, Append(content[fd[p]], Header))
                      /\ Goto(p, "ready")
                      /\ UNCHANGED <<written, abandoned>>

NewWrite(p) == /\ pc[p] = "new_write"
               /\ Close(p, Overwritten(content[fd[p]]))
               /\ Goto(p, "ready")
               /\ UNCHANGED <<written, abandoned>>

WriteOpen(p) == /\ pc[p] = "ready"
                /\ Len(written) < MaxPackets
                /\ Open(p, "ab")
                /\ Goto(p, "write")
                /\ UNCHANGED <<written, abandoned>>

WritePacket(p) == /\ pc[p] = "write"
                  /\ Len(written) < MaxPackets
                  /\ LET packet == Len(written) + 1
                     IN  /\ Close(p, Append(content[fd[p]], packet))
                         /\ written' = Append(written, packet)
                  /\ Goto(p, "ready")
                  /\ UNCHANGED abandoned

(* The capture ends, or the process dies with what it has not yet closed.  *)
Stop(p) == /\ pc[p] # "off"
           /\ Files(dir, [fd EXCEPT ![p] = NoInode], content)
           /\ Goto(p, "off")
           /\ abandoned' = (abandoned \/ pc[p] \in Starting)
           /\ UNCHANGED written

Next == \E p \in Process :
          \/ Start(p) \/ IsFile(p) \/ GetSize(p)
          \/ RollRemove(p) \/ RollRename(p) \/ RollFails(p)
          \/ NewOpen(p) \/ NewWrite(p)
          \/ WriteOpen(p) \/ WritePacket(p) \/ Stop(p)

Spec == Init /\ [][Next]_vars
-----------------------------------------------------------------------------
(* Types.                                                                  *)
TypeOK == /\ dir \in [Name -> Inode \cup {NoInode}]
          /\ content \in [Inode -> Seq({Torn, Header} \cup 1..MaxPackets)]
          /\ pc \in [Process -> {"off", "check", "size", "ready", "write"} \cup Changing]
          /\ fd \in [Process -> Inode \cup {NoInode}]
          /\ written \in Seq(1..MaxPackets)
          /\ disturbed \in BOOLEAN
          /\ abandoned \in BOOLEAN

(* However many processes start, move and fill the file at once, it begins *)
(* with a header, so that it can be read as a capture, whenever nobody is  *)
(* busy starting it, unless somebody died while starting it.               *)
HeaderFirst ==
  (~abandoned /\ \A p \in Process : pc[p] \notin Starting) =>
    \/ dir["file"] = NoInode
    \/ content[dir["file"]] # <<>> /\ content[dir["file"]][1] = Header

(* What follows the header of a file, if it has one.                       *)
AfterHeader(c) == IF c # <<>> /\ c[1] = Header THEN Tail(c) ELSE c

Packets(name) == IF dir[name] = NoInode THEN <<>> ELSE AfterHeader(content[dir[name]])

IsSuffix(s, t) == Len(s) <= Len(t) /\ s = SubSeq(t, Len(t) - Len(s) + 1, Len(t))

(* While no file is started or moved beside another running process, the   *)
(* backup and the file after it hold the packets written last, whole, in   *)
(* their order and without a gap, even if processes die.                   *)
Recorded ==
  ~disturbed => LET kept == Packets("backup") \o Packets("file")
                IN  IsSuffix(kept, written) /\ (kept = <<>> => written = <<>>)

(* In the same case no step loses a packet of the file, and a step loses   *)
(* those of the backup only when a file that has grown too large takes its *)
(* place (doRollover).                                                     *)
Held(name) == LET s == Packets(name) IN {s[i] : i \in DOMAIN s}

PacketsKept ==
  [][~disturbed' => /\ Held("file") \subseteq Held("file")' \cup Held("backup")'
                    /\ Held("backup") \subseteq Held("backup")'
                       \/ Len(content[dir["file"]]) > Limit]_vars
=============================================================================
