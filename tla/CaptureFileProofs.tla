-------------------------- MODULE CaptureFileProofs --------------------------
(***************************************************************************)
(* Proofs about CaptureFile for any number of processes, any limit and any *)
(* number of packets.                                                      *)
(***************************************************************************)
EXTENDS CaptureFile, FiniteSetTheorems, SequenceTheorems, TLAPS

Begins(c) == c # <<>> /\ c[1] = Header

(* A file that does not begin with a header is about to be started or to   *)
(* be given its header by a process that has it open.                      *)
BeingStarted ==
  dir["file"] # NoInode /\ ~Begins(content[dir["file"]]) =>
    \E p \in Process : \/ pc[p] = "new_open"
                       \/ pc[p] = "new_write" /\ fd[p] = dir["file"]

(* A file that was moved away while somebody may open its name without     *)
(* looking is about to be started anew.                                    *)
Renewed ==
  /\ dir["file"] = NoInode
  /\ \E p \in Process : pc[p] \in {"ready", "write", "new_write", "roll_remove", "roll_rename"}
  => \E q \in Process : pc[q] = "new_open"

IInv == TypeOK /\ (~abandoned => BeingStarted /\ Renewed)
-----------------------------------------------------------------------------
(* A new file has an inode nobody uses: there are always enough of them.   *)
LEMMA NewInodeFree ==
  ASSUME TypeOK, dir["file"] = NoInode
  PROVE  /\ NewInode \in Inode
         /\ \A n \in Name : dir[n] # NewInode
         /\ \A p \in Process : fd[p] # NewInode
  <1> DEFINE Open1 == {fd[p] : p \in Process}
             Used == Open1 \cup {dir["backup"]}
             n == Cardinality(Process)
  <1>1. IsFiniteSet(Open1) /\ Cardinality(Open1) <= n
    <2>1. fd \in Surjection(Process, Open1)
      BY DEF TypeOK, Surjection
    <2> QED BY <2>1, FS_Surjection, CaptureFileAssumption
  <1>2. /\ IsFiniteSet(Used)
        /\ Cardinality(Used) = IF dir["backup"] \in Open1 THEN Cardinality(Open1)
                               ELSE Cardinality(Open1) + 1
    BY <1>1, FS_AddElement
  <1>3. n \in Nat /\ Cardinality(Open1) \in Nat /\ Cardinality(Used) \in Nat
    BY <1>1, <1>2, FS_CardinalityType, CaptureFileAssumption
  <1>4. Cardinality(Inode) = n + 2
    BY <1>3, FS_Interval DEF Inode
  <1>5. ~(Inode \subseteq Used)
    <2> SUFFICES ASSUME Inode \subseteq Used PROVE FALSE
      OBVIOUS
    <2>1. Cardinality(Inode) <= Cardinality(Used)
      BY <1>2, FS_Subset
    <2> HIDE DEF Used, Open1, n
    <2> QED BY <2>1, <1>1, <1>2, <1>3, <1>4
  <1>6. PICK i \in Inode : i \notin Used
    BY <1>5
  <1>7. i # NoInode
    BY <1>6, <1>3 DEF Inode, NoInode
  <1>8. (\A m \in Name : dir[m] # i) /\ (\A p \in Process : fd[p] # i)
    BY <1>6, <1>7 DEF Name
  <1> QED BY <1>6, <1>8 DEF NewInode

(* The initial states satisfy the invariant. *)
LEMMA InitIInv == Init => IInv
  <1> SUFFICES ASSUME Init PROVE IInv
    OBVIOUS
  <1>1. TypeOK
    <2> DEFINE Word == Seq({Torn, Header} \cup 1..MaxPackets)
    <2>1. <<>> \in Word /\ <<>> \in Seq(1..MaxPackets)
      OBVIOUS
    <2> HIDE DEF Word
    <2>2. content \in [Inode -> Word]
      BY <2>1 DEF Init
    <2> QED BY <2>1, <2>2 DEF Init, TypeOK, Word
  <1>2. BeingStarted /\ Renewed
    BY DEF Init, BeingStarted, Renewed, Name
  <1> QED BY <1>1, <1>2 DEF IInv

(* What Files does to the three variables, whatever it is given. *)
LEMMA FilesType ==
  ASSUME NEW d \in [Name -> Inode \cup {NoInode}],
         NEW f \in [Process -> Inode \cup {NoInode}],
         NEW c \in [Inode -> Seq({Torn, Header} \cup 1..MaxPackets)],
         Files(d, f, c)
  PROVE  /\ dir' \in [Name -> Inode \cup {NoInode}]
         /\ fd' \in [Process -> Inode \cup {NoInode}]
         /\ content' \in [Inode -> Seq({Torn, Header} \cup 1..MaxPackets)]
         /\ dir' = d
         /\ fd' = f
         /\ d["file"] # NoInode => content'[d["file"]] = c[d["file"]]
  <1> DEFINE Word == Seq({Torn, Header} \cup 1..MaxPackets)
  <1>1. <<>> \in Word
    OBVIOUS
  <1> HIDE DEF Word
  <1>2. content' \in [Inode -> Word]
    BY <1>1 DEF Files, Word
  <1>3. ASSUME d["file"] # NoInode PROVE content'[d["file"]] = c[d["file"]]
    BY <1>3 DEF Files, Name
  <1> QED BY <1>2, <1>3 DEF Files, Word

(* A file opened for writing is the one the name stands for; "wb" empties  *)
(* it. *)
LEMMA OpenType ==
  ASSUME TypeOK, NEW p \in Process, NEW mode, Open(p, mode)
  PROVE  /\ dir' \in [Name -> Inode \cup {NoInode}]
         /\ fd' \in [Process -> Inode \cup {NoInode}]
         /\ content' \in [Inode -> Seq({Torn, Header} \cup 1..MaxPackets)]
         /\ dir'["file"] # NoInode
         /\ dir["file"] # NoInode => dir'["file"] = dir["file"]
         /\ fd' = [fd EXCEPT ![p] = dir'["file"]]
         /\ dir["file"] # NoInode /\ mode # "wb"
              => content'[dir'["file"]] = content[dir["file"]]
  <1> DEFINE i == IF dir["file"] = NoInode THEN NewInode ELSE dir["file"]
             d == [dir EXCEPT !["file"] = i]
             f == [fd EXCEPT ![p] = i]
             c == IF mode = "wb" THEN [content EXCEPT ![i] = <<>>] ELSE content
  <1>1. i \in Inode
    BY NewInodeFree DEF TypeOK, Name
  <1>2. i # NoInode
    BY <1>1, CaptureFileAssumption, FS_CardinalityType DEF Inode, NoInode
  <1>3. d \in [Name -> Inode \cup {NoInode}] /\ d["file"] = i
    BY <1>1 DEF TypeOK, Name
  <1>4. f \in [Process -> Inode \cup {NoInode}]
    BY <1>1 DEF TypeOK
  <1>5. c \in [Inode -> Seq({Torn, Header} \cup 1..MaxPackets)]
    BY <1>1 DEF TypeOK
  <1>6. Files(d, f, c)
    BY DEF Open
  <1>7. dir["file"] # NoInode => i = dir["file"]
    OBVIOUS
  <1>8. mode # "wb" => c = content
    OBVIOUS
  <1> HIDE DEF i, d, f, c
  <1>9. dir' = d /\ fd' = f /\ content'[i] = c[i]
    BY <1>2, <1>3, <1>4, <1>5, <1>6, FilesType
  <1> QED BY <1>2, <1>3, <1>4, <1>5, <1>6, <1>7, <1>8, <1>9, FilesType DEF f

(* Closing changes what is in the file that was open. *)
LEMMA CloseType ==
  ASSUME TypeOK, NEW p \in Process,
         NEW new \in Seq({Torn, Header} \cup 1..MaxPackets), Close(p, new)
  PROVE  /\ dir' = dir
         /\ fd' \in [Process -> Inode \cup {NoInode}]
         /\ content' \in [Inode -> Seq({Torn, Header} \cup 1..MaxPackets)]
         /\ fd' = [fd EXCEPT ![p] = NoInode]
         /\ dir["file"] # NoInode =>
              content'[dir["file"]] = IF fd[p] = dir["file"] THEN new ELSE content[dir["file"]]
  <1> DEFINE f == [fd EXCEPT ![p] = NoInode]
             c == [content EXCEPT ![fd[p]] = new]
  <1>1. f \in [Process -> Inode \cup {NoInode}]
    BY DEF TypeOK
  <1>2. c \in [Inode -> Seq({Torn, Header} \cup 1..MaxPackets)]
    BY DEF TypeOK
  <1>3. dir \in [Name -> Inode \cup {NoInode}]
    BY DEF TypeOK
  <1>4. Files(dir, f, c)
    BY DEF Close
  <1>5. dir["file"] # NoInode =>
          c[dir["file"]] = IF fd[p] = dir["file"] THEN new ELSE content[dir["file"]]
    BY DEF TypeOK, Name
  <1> HIDE DEF f, c
  <1>6. /\ dir' = dir
        /\ fd' = f
        /\ fd' \in [Process -> Inode \cup {NoInode}]
        /\ content' \in [Inode -> Seq({Torn, Header} \cup 1..MaxPackets)]
        /\ dir["file"] # NoInode => content'[dir["file"]] = c[dir["file"]]
    BY <1>1, <1>2, <1>3, <1>4, FilesType
  <1> QED BY <1>5, <1>6 DEF f

(* A header written at the beginning stands there. *)
LEMMA OverwrittenBegins ==
  ASSUME NEW c \in Seq({Torn, Header} \cup 1..MaxPackets)
  PROVE  /\ Overwritten(c) \in Seq({Torn, Header} \cup 1..MaxPackets)
         /\ Begins(Overwritten(c))
  <1> DEFINE Sym == {Torn, Header} \cup 1..MaxPackets
             rest == IF c = <<>> THEN <<>>
                     ELSE IF c[1] = Header THEN Tail(c) ELSE <<Torn>> \o Tail(c)
  <1>1. c \in Seq(Sym) /\ Header \in Sym /\ Torn \in Sym
    OBVIOUS
  <1>2. Overwritten(c) = <<Header>> \o rest
    BY DEF Overwritten
  <1> HIDE DEF Sym
  <1>3. c # <<>> => Tail(c) \in Seq(Sym)
    BY <1>1
  <1>4. c # <<>> => <<Torn>> \o Tail(c) \in Seq(Sym)
    BY <1>1, <1>3
  <1>5. rest \in Seq(Sym)
    BY <1>3, <1>4
  <1> HIDE DEF rest
  <1>6. <<Header>> \o rest \in Seq(Sym) /\ (<<Header>> \o rest)[1] = Header
    BY <1>1, <1>5
  <1>7. <<Header>> \o rest # <<>>
    BY <1>1, <1>5
  <1> QED BY <1>2, <1>6, <1>7 DEF Begins, Sym

(* A step of p is a change of its place. *)
LEMMA GotoType ==
  ASSUME TypeOK, NEW p \in Process,
         NEW l \in {"off", "check", "size", "ready", "write"} \cup Changing, Goto(p, l)
  PROVE  /\ pc' = [pc EXCEPT ![p] = l]
         /\ pc' \in [Process -> {"off", "check", "size", "ready", "write"} \cup Changing]
         /\ disturbed' \in BOOLEAN
  <1> DEFINE beside == \E q, r \in Process : q # r /\ pc'[q] \in Changing /\ pc'[r] # "off"
  <1>1. disturbed' = (disturbed \/ beside)
    BY DEF Goto
  <1> HIDE DEF beside
  <1>2. disturbed' \in BOOLEAN
    BY <1>1
  <1> QED BY <1>2 DEF Goto, TypeOK

(* Every step preserves the types. *)
LEMMA NextTypeOK == TypeOK /\ [Next]_vars => TypeOK'
  <1> SUFFICES ASSUME TypeOK, [Next]_vars PROVE TypeOK'
    OBVIOUS
  <1> DEFINE DirOK == dir \in [Name -> Inode \cup {NoInode}]
             FdOK == fd \in [Process -> Inode \cup {NoInode}]
             ContentOK == content \in [Inode -> Seq({Torn, Header} \cup 1..MaxPackets)]
             PcOK == pc \in [Process -> {"off", "check", "size", "ready", "write"} \cup Changing]
             WrittenOK == written \in Seq(1..MaxPackets)
  <1>0. DirOK /\ FdOK /\ ContentOK /\ PcOK /\ WrittenOK
        /\ disturbed \in BOOLEAN /\ abandoned \in BOOLEAN
    BY DEF TypeOK
  <1>1. CASE UNCHANGED vars
    BY <1>1 DEF vars, TypeOK
  <1>2. ASSUME NEW p \in Process,
               Start(p) \/ IsFile(p) \/ GetSize(p) \/ RollFails(p)
        PROVE  TypeOK'
    <2>1. UNCHANGED <<dir, content, fd, written, abandoned>>
      BY <1>2 DEF Start, IsFile, GetSize, RollFails
    <2>2. PICK l \in {"off", "check", "size", "ready", "write"} \cup Changing : Goto(p, l)
      BY <1>2 DEF Start, IsFile, GetSize, RollFails, Changing, Starting
    <2>3. PcOK' /\ disturbed' \in BOOLEAN
      BY <2>2, GotoType
    <2> QED BY <1>0, <2>1, <2>3 DEF TypeOK
  <1>3. ASSUME NEW p \in Process, RollRemove(p) \/ RollRename(p) PROVE TypeOK'
    <2>1. UNCHANGED <<written, abandoned>>
      BY <1>3 DEF RollRemove, RollRename
    <2>2. PICK l \in {"off", "check", "size", "ready", "write"} \cup Changing : Goto(p, l)
      BY <1>3 DEF RollRemove, RollRename, Changing, Starting
    <2>3. PcOK' /\ disturbed' \in BOOLEAN
      BY <2>2, GotoType
    <2>4. PICK d \in [Name -> Inode \cup {NoInode}] : Files(d, fd, content)
      <3>1. CASE RollRemove(p)
        BY <3>1, <1>0 DEF RollRemove, Name
      <3>2. CASE RollRename(p)
        <4>1. [file |-> NoInode, backup |-> dir["file"]] \in [Name -> Inode \cup {NoInode}]
          BY <1>0 DEF Name
        <4> QED BY <3>2, <4>1 DEF RollRename
      <3> QED BY <1>3, <3>1, <3>2
    <2>5. DirOK' /\ FdOK' /\ ContentOK'
      BY <1>0, <2>4, FilesType
    <2> QED BY <1>0, <2>1, <2>3, <2>5 DEF TypeOK
  <1>4. ASSUME NEW p \in Process, NewOpen(p) \/ WriteOpen(p) PROVE TypeOK'
    <2>1. UNCHANGED <<written, abandoned>>
      BY <1>4 DEF NewOpen, WriteOpen
    <2>2. PICK l \in {"off", "check", "size", "ready", "write"} \cup Changing : Goto(p, l)
      BY <1>4 DEF NewOpen, WriteOpen, Changing, Starting
    <2>3. PcOK' /\ disturbed' \in BOOLEAN
      BY <2>2, GotoType
    <2>4. PICK mode \in {"wb", "ab"} : Open(p, mode)
      BY <1>4 DEF NewOpen, WriteOpen
    <2>5. DirOK' /\ FdOK' /\ ContentOK'
      BY <2>4, OpenType
    <2> QED BY <1>0, <2>1, <2>3, <2>5 DEF TypeOK
  <1>5. ASSUME NEW p \in Process, NewWrite(p) PROVE TypeOK'
    <2>1. UNCHANGED <<written, abandoned>>
      BY <1>5 DEF NewWrite
    <2>2. PcOK' /\ disturbed' \in BOOLEAN
      BY <1>5, GotoType DEF NewWrite
    <2>3. DirOK' /\ FdOK' /\ ContentOK'
      <3>1. CASE fd[p] \in Inode
        <4>1. Overwritten(content[fd[p]]) \in Seq({Torn, Header} \cup 1..MaxPackets)
          BY <1>0, <3>1, OverwrittenBegins
        <4> QED BY <1>0, <1>5, <4>1, CloseType DEF NewWrite
      <3>2. CASE fd[p] \notin Inode
        <4> DEFINE c == [content EXCEPT ![fd[p]] = Overwritten(content[fd[p]])]
                   f == [fd EXCEPT ![p] = NoInode]
        <4>1. c = content /\ f \in [Process -> Inode \cup {NoInode}]
          BY <1>0, <3>2
        <4>2. Files(dir, f, c)
          BY <1>5 DEF NewWrite, Close
        <4> HIDE DEF c, f
        <4> QED BY <1>0, <4>1, <4>2, FilesType
      <3> QED BY <3>1, <3>2
    <2> QED BY <1>0, <2>1, <2>2, <2>3 DEF TypeOK
  <1>6. ASSUME NEW p \in Process, WritePacket(p) PROVE TypeOK'
    <2> DEFINE packet == Len(written) + 1
    <2>1. packet \in 1..MaxPackets
      BY <1>0, <1>6, CaptureFileAssumption DEF WritePacket
    <2>2. written' = Append(written, packet) /\ Close(p, Append(content[fd[p]], packet))
      BY <1>6 DEF WritePacket
    <2> HIDE DEF packet
    <2>3. WrittenOK'
      BY <1>0, <2>1, <2>2
    <2>4. PcOK' /\ disturbed' \in BOOLEAN
      BY <1>6, GotoType DEF WritePacket
    <2>5. DirOK' /\ FdOK' /\ ContentOK'
      <3>1. CASE fd[p] \in Inode
        <4>1. Append(content[fd[p]], packet) \in Seq({Torn, Header} \cup 1..MaxPackets)
          BY <1>0, <2>1, <3>1
        <4> QED BY <1>0, <2>2, <4>1, CloseType
      <3>2. CASE fd[p] \notin Inode
        <4> DEFINE c == [content EXCEPT ![fd[p]] = Append(content[fd[p]], packet)]
                   f == [fd EXCEPT ![p] = NoInode]
        <4>1. c = content /\ f \in [Process -> Inode \cup {NoInode}]
          BY <1>0, <3>2
        <4>2. Files(dir, f, c)
          BY <2>2 DEF Close
        <4> HIDE DEF c, f
        <4> QED BY <1>0, <4>1, <4>2, FilesType
      <3> QED BY <3>1, <3>2
    <2>6. abandoned' \in BOOLEAN
      BY <1>0, <1>6 DEF WritePacket
    <2> QED BY <2>3, <2>4, <2>5, <2>6 DEF TypeOK
  <1>7. ASSUME NEW p \in Process, Stop(p) PROVE TypeOK'
    <2>1. [fd EXCEPT ![p] = NoInode] \in [Process -> Inode \cup {NoInode}]
      BY <1>0
    <2>2. DirOK' /\ FdOK' /\ ContentOK'
      BY <1>0, <1>7, <2>1, FilesType DEF Stop
    <2>3. PcOK' /\ disturbed' \in BOOLEAN
      BY <1>7, GotoType DEF Stop
    <2>4. WrittenOK' /\ abandoned' \in BOOLEAN
      BY <1>0, <1>7 DEF Stop
    <2> QED BY <2>2, <2>3, <2>4 DEF TypeOK
  <1> QED BY <1>1, <1>2, <1>3, <1>4, <1>5, <1>6, <1>7 DEF Next

(* Closing one file leaves another as it is. *)
LEMMA CloseOther ==
  ASSUME TypeOK, NEW p \in Process, NEW new, Close(p, new)
  PROVE  /\ dir' = dir
         /\ dir["file"] # NoInode /\ fd[p] # dir["file"] =>
              content'[dir["file"]] = content[dir["file"]]
  BY DEF Close, Files, TypeOK, Name

(* Who may open the name of the file without looking.                      *)
Opener(l) == l \in {"ready", "write", "new_write", "roll_remove", "roll_rename"}

(* A step of p that changes no file keeps both parts, if p was not about   *)
(* to start one and goes no further towards opening one without reason.    *)
LEMMA QuietStep ==
  ASSUME TypeOK, BeingStarted, Renewed, NEW p \in Process, NEW l,
         pc' = [pc EXCEPT ![p] = l],
         dir' = dir,
         dir["file"] # NoInode => content'[dir["file"]] = content[dir["file"]],
         \A q \in Process : q # p => fd'[q] = fd[q],
         pc[p] \notin Starting,
         dir["file"] = NoInode /\ Opener(l) => Opener(pc[p])
  PROVE  BeingStarted' /\ Renewed'
  <1>1. \A q \in Process : q # p => pc'[q] = pc[q]
    BY DEF TypeOK
  <1>2. pc'[p] = l
    BY DEF TypeOK
  <1>3. BeingStarted'
    <2> SUFFICES ASSUME dir["file"] # NoInode, ~Begins(content[dir["file"]])
                 PROVE  \E q \in Process : \/ pc'[q] = "new_open"
                                           \/ pc'[q] = "new_write" /\ fd'[q] = dir["file"]
      BY DEF BeingStarted, Begins
    <2>1. PICK q \in Process : \/ pc[q] = "new_open"
                               \/ pc[q] = "new_write" /\ fd[q] = dir["file"]
      BY DEF BeingStarted
    <2>2. q # p
      BY <2>1 DEF Starting
    <2> QED BY <1>1, <2>1, <2>2
  <1>4. Renewed'
    <2> SUFFICES ASSUME dir["file"] = NoInode, NEW r \in Process, Opener(pc'[r])
                 PROVE  \E q \in Process : pc'[q] = "new_open"
      BY DEF Renewed, Opener
    <2>1. Opener(pc[r])
      BY <1>1, <1>2
    <2>2. PICK q \in Process : pc[q] = "new_open"
      BY <2>1 DEF Renewed, Opener
    <2>3. q # p
      BY <2>2 DEF Starting
    <2> QED BY <1>1, <2>2, <2>3
  <1> QED BY <1>3, <1>4

(* Every step preserves the invariant. *)
LEMMA NextIInv == IInv /\ [Next]_vars => IInv'
  <1> SUFFICES ASSUME IInv, [Next]_vars PROVE IInv'
    OBVIOUS
  <1>0. TypeOK /\ TypeOK'
    BY NextTypeOK DEF IInv
  <1> SUFFICES ASSUME ~abandoned' PROVE BeingStarted' /\ Renewed'
    BY <1>0 DEF IInv
  <1>1. CASE UNCHANGED vars
    <2>1. BeingStarted /\ Renewed
      BY <1>1 DEF vars, IInv
    <2> QED BY <1>1, <2>1 DEF vars, BeingStarted, Renewed, Begins
  <1>2. ASSUME Next PROVE ~abandoned /\ BeingStarted /\ Renewed
    <2>1. ~abandoned
      BY <1>2 DEF Next, Start, IsFile, GetSize, RollRemove, RollRename, RollFails,
                  NewOpen, NewWrite, WriteOpen, WritePacket, Stop
    <2> QED BY <2>1 DEF IInv
  <1>3. ASSUME NEW p \in Process, Next, Start(p) \/ IsFile(p) \/ GetSize(p) \/ RollFails(p)
        PROVE  BeingStarted' /\ Renewed'
    <2>1. UNCHANGED <<dir, content, fd>>
      BY <1>3 DEF Start, IsFile, GetSize, RollFails
    <2>2. PICK l \in {"off", "check", "size", "ready", "write"} \cup Changing :
            /\ Goto(p, l)
            /\ dir["file"] = NoInode /\ Opener(l) => Opener(pc[p])
      BY <1>3 DEF Start, IsFile, GetSize, RollFails, Opener, Changing, Starting
    <2>3. pc' = [pc EXCEPT ![p] = l]
      BY <2>2 DEF Goto
    <2>4. pc[p] \notin Starting
      BY <1>3 DEF Start, IsFile, GetSize, RollFails, Starting
    <2> QED BY <1>0, <1>2, <1>3, <2>1, <2>2, <2>3, <2>4, QuietStep
  <1>4. ASSUME NEW p \in Process, Next, RollRemove(p) PROVE BeingStarted' /\ Renewed'
    <2> DEFINE d == [dir EXCEPT !["backup"] = NoInode]
    <2>1. d \in [Name -> Inode \cup {NoInode}] /\ d["file"] = dir["file"]
      BY <1>0 DEF TypeOK, Name
    <2>2. Files(d, fd, content) /\ pc' = [pc EXCEPT ![p] = "roll_rename"]
      BY <1>4 DEF RollRemove, Goto
    <2>3. pc[p] = "roll_remove"
      BY <1>4 DEF RollRemove
    <2> HIDE DEF d
    <2>4. /\ dir'["file"] = dir["file"] /\ fd' = fd
          /\ dir["file"] # NoInode => content'[dir["file"]] = content[dir["file"]]
      BY <1>0, <2>1, <2>2, FilesType DEF TypeOK
    <2>5. \A q \in Process : q # p => pc'[q] = pc[q]
      BY <1>0, <2>2 DEF TypeOK
    <2>6. BeingStarted'
      BY <1>2, <1>4, <2>3, <2>4, <2>5 DEF BeingStarted, Begins
    <2>7. Renewed'
      <3> SUFFICES ASSUME dir["file"] = NoInode PROVE \E q \in Process : pc'[q] = "new_open"
        BY <2>4 DEF Renewed
      <3>1. PICK q \in Process : pc[q] = "new_open"
        BY <1>2, <1>4, <2>3 DEF Renewed
      <3> QED BY <2>3, <2>5, <3>1
    <2> QED BY <2>6, <2>7
  <1>5. ASSUME NEW p \in Process, RollRename(p) PROVE BeingStarted' /\ Renewed'
    <2>1. dir'["file"] = NoInode
      BY <1>5 DEF RollRename, Files
    <2>2. pc'[p] = "new_open"
      BY <1>0, <1>5 DEF RollRename, Goto, TypeOK
    <2> QED BY <2>1, <2>2 DEF BeingStarted, Renewed
  <1>6. ASSUME NEW p \in Process, NewOpen(p) PROVE BeingStarted' /\ Renewed'
    <2>1. dir'["file"] # NoInode /\ fd' = [fd EXCEPT ![p] = dir'["file"]]
      BY <1>0, <1>6, OpenType DEF NewOpen
    <2>2. pc'[p] = "new_write" /\ fd'[p] = dir'["file"]
      BY <1>0, <1>6, <2>1 DEF NewOpen, Goto, TypeOK
    <2> QED BY <2>1, <2>2 DEF BeingStarted, Renewed
  <1>7. ASSUME NEW p \in Process, Next, NewWrite(p) PROVE BeingStarted' /\ Renewed'
    <2>1. pc[p] = "new_write" /\ pc' = [pc EXCEPT ![p] = "ready"]
          /\ Close(p, Overwritten(content[fd[p]]))
      BY <1>7 DEF NewWrite, Goto
    <2>2. \A q \in Process : q # p => pc'[q] = pc[q] /\ fd'[q] = fd[q]
      BY <1>0, <2>1 DEF TypeOK, Close, Files
    <2>3. dir' = dir
      BY <2>1 DEF Close, Files
    <2>4. BeingStarted'
      <3>1. CASE dir["file"] # NoInode /\ fd[p] = dir["file"]
        <4>1. content[fd[p]] \in Seq({Torn, Header} \cup 1..MaxPackets)
          BY <1>0, <3>1 DEF TypeOK, Name
        <4>2. content'[dir["file"]] = Overwritten(content[fd[p]])
          BY <1>0, <2>1, <3>1, <4>1, OverwrittenBegins, CloseType
        <4>3. Begins(content'[dir'["file"]])
          BY <2>3, <4>1, <4>2, OverwrittenBegins
        <4> QED BY <4>3 DEF BeingStarted, Begins
      <3>2. CASE dir["file"] # NoInode /\ fd[p] # dir["file"]
        <4>1. content'[dir["file"]] = content[dir["file"]]
          BY <1>0, <2>1, <3>2, CloseOther
        <4> QED BY <1>2, <1>7, <2>1, <2>2, <2>3, <3>2, <4>1 DEF BeingStarted, Begins
      <3>3. CASE dir["file"] = NoInode
        BY <2>3, <3>3 DEF BeingStarted
      <3> QED BY <3>1, <3>2, <3>3
    <2>5. Renewed'
      <3> SUFFICES ASSUME dir["file"] = NoInode PROVE \E q \in Process : pc'[q] = "new_open"
        BY <2>3 DEF Renewed
      <3>1. PICK q \in Process : pc[q] = "new_open"
        BY <1>2, <1>7, <2>1 DEF Renewed
      <3> QED BY <2>1, <2>2, <3>1
    <2> QED BY <2>4, <2>5
  <1>8. ASSUME NEW p \in Process, Next, WriteOpen(p) PROVE BeingStarted' /\ Renewed'
    <2>1. pc[p] = "ready" /\ pc' = [pc EXCEPT ![p] = "write"] /\ Open(p, "ab")
      BY <1>8 DEF WriteOpen, Goto
    <2>2. /\ dir'["file"] # NoInode
          /\ dir["file"] # NoInode =>
               /\ dir'["file"] = dir["file"]
               /\ content'[dir'["file"]] = content[dir["file"]]
          /\ fd' = [fd EXCEPT ![p] = dir'["file"]]
      BY <1>0, <2>1, OpenType
    <2>3. \A q \in Process : q # p => pc'[q] = pc[q] /\ fd'[q] = fd[q]
      BY <1>0, <2>1, <2>2 DEF TypeOK
    <2>4. BeingStarted'
      <3>1. CASE dir["file"] # NoInode
        BY <1>2, <1>8, <2>1, <2>2, <2>3, <3>1 DEF BeingStarted, Begins
      <3>2. CASE dir["file"] = NoInode
        <4>1. PICK q \in Process : pc[q] = "new_open"
          BY <1>2, <1>8, <2>1, <3>2 DEF Renewed
        <4>2. pc'[q] = "new_open"
          BY <2>1, <2>3, <4>1
        <4> QED BY <4>2 DEF BeingStarted
      <3> QED BY <3>1, <3>2
    <2> QED BY <2>2, <2>4 DEF Renewed
  <1>9. ASSUME NEW p \in Process, Next, WritePacket(p) PROVE BeingStarted' /\ Renewed'
    <2> DEFINE packet == Len(written) + 1
    <2>1. pc[p] = "write" /\ pc' = [pc EXCEPT ![p] = "ready"]
          /\ Close(p, Append(content[fd[p]], packet)) /\ packet \in 1..MaxPackets
      BY <1>0, <1>9, CaptureFileAssumption DEF WritePacket, Goto, TypeOK
    <2> HIDE DEF packet
    <2>2. /\ dir' = dir
          /\ \A q \in Process : q # p => pc'[q] = pc[q] /\ fd'[q] = fd[q]
      BY <1>0, <2>1 DEF TypeOK, Close, Files
    <2>3. BeingStarted'
      <3> SUFFICES ASSUME dir["file"] # NoInode, ~Begins(content'[dir["file"]])
                   PROVE  ~Begins(content[dir["file"]])
        BY <1>2, <1>9, <2>1, <2>2 DEF BeingStarted
      <3>1. CASE fd[p] # dir["file"]
        BY <1>0, <2>1, <3>1, CloseOther
      <3>2. CASE fd[p] = dir["file"]
        <4> DEFINE c == content[dir["file"]]
        <4>1. c \in Seq({Torn, Header} \cup 1..MaxPackets)
          BY <1>0 DEF TypeOK, Name
        <4> HIDE DEF c
        <4>2. Append(c, packet) \in Seq({Torn, Header} \cup 1..MaxPackets)
          BY <2>1, <4>1
        <4>3. content'[dir["file"]] = Append(c, packet)
          BY <1>0, <2>1, <3>2, <4>2, CloseType DEF c
        <4>4. Begins(c) => Begins(Append(c, packet))
          BY <4>1 DEF Begins
        <4> QED BY <4>3, <4>4 DEF c
      <3> QED BY <3>1, <3>2
    <2>4. Renewed'
      <3> SUFFICES ASSUME dir["file"] = NoInode PROVE \E q \in Process : pc'[q] = "new_open"
        BY <2>2 DEF Renewed
      <3>1. PICK q \in Process : pc[q] = "new_open"
        BY <1>2, <1>9, <2>1 DEF Renewed
      <3> QED BY <2>1, <2>2, <3>1
    <2> QED BY <2>3, <2>4
  <1>10. ASSUME NEW p \in Process, Next, Stop(p) PROVE BeingStarted' /\ Renewed'
    <2>1. pc[p] \notin Starting
      BY <1>10 DEF Stop
    <2>2. pc' = [pc EXCEPT ![p] = "off"] /\ Files(dir, [fd EXCEPT ![p] = NoInode], content)
      BY <1>10 DEF Stop, Goto
    <2>3. /\ dir' = dir
          /\ dir["file"] # NoInode => content'[dir["file"]] = content[dir["file"]]
          /\ \A q \in Process : q # p => fd'[q] = fd[q]
      BY <1>0, <2>2 DEF Files, TypeOK, Name
    <2>4. ~Opener("off")
      BY DEF Opener
    <2> QED BY <1>0, <1>2, <1>10, <2>1, <2>2, <2>3, <2>4, QuietStep
  <1> QED BY <1>1, <1>3, <1>4, <1>5, <1>6, <1>7, <1>8, <1>9, <1>10 DEF Next
-----------------------------------------------------------------------------
(* What holds while no file is started or moved beside another running     *)
(* process.                                                                *)

Alone == \A q, r \in Process : q # r /\ pc[q] \in Changing => pc[r] = "off"

(* Each process finds the files as it left them at its last step.          *)
Placed(p) ==
  /\ pc[p] = "new_open" => dir["file"] = NoInode
  /\ pc[p] \in {"ready", "write", "new_write", "roll_remove", "roll_rename"}
       => dir["file"] # NoInode
  /\ pc[p] \in {"write", "new_write"} => fd[p] = dir["file"]
  /\ pc[p] = "new_write" => content[dir["file"]] = <<>>
  /\ pc[p] \in {"roll_remove", "roll_rename"} => Len(content[dir["file"]]) > Limit
  /\ pc[p] = "roll_rename" => dir["backup"] = NoInode

Distinct == dir["file"] # NoInode => dir["file"] # dir["backup"]

Undisturbed == Alone /\ Distinct /\ \A p \in Process : Placed(p)

(* s counts on from a.                                                     *)
Numbers(s, a) == \A i \in 1..Len(s) : s[i] = a + i

(* The backup and the file hold the last of n packets, and some of them.   *)
KeptOf(b, f, n) == /\ Len(b) + Len(f) <= n
                   /\ Numbers(f, n - Len(f))
                   /\ Numbers(b, n - Len(f) - Len(b))
                   /\ Len(b) + Len(f) = 0 => n = 0

Kept == /\ Numbers(written, 0)
        /\ KeptOf(Packets("backup"), Packets("file"), Len(written))

KeptInv == TypeOK /\ (~disturbed => Undisturbed /\ Kept)

Word == Seq({Torn, Header} \cup 1..MaxPackets)

(* A file keeps its content as long as it has a name.                      *)
LEMMA FilesNamed ==
  ASSUME NEW d \in [Name -> Inode \cup {NoInode}], NEW f, NEW c, Files(d, f, c),
         NEW n \in Name, d[n] # NoInode
  PROVE  content'[d[n]] = c[d[n]]
  BY DEF Files

LEMMA InodeNotNone == \A i \in Inode : i # NoInode
  BY CaptureFileAssumption, FS_CardinalityType DEF Inode, NoInode

(* Without interference only the processes that do not move files go on    *)
(* beside p, and they find the file where it was.                          *)
LEMMA OthersPlaced ==
  ASSUME TypeOK, Undisturbed, Alone', NEW p \in Process, NEW l,
         pc' = [pc EXCEPT ![p] = l], pc[p] # "off" \/ l # "off",
         \A q \in Process : q # p => fd'[q] = fd[q],
         pc[p] \notin Changing /\ l \notin Changing => dir' = dir,
         NEW r \in Process, r # p
  PROVE  Placed(r)'
<1>1. pc'[r] = pc[r] /\ pc'[p] = l /\ fd'[r] = fd[r]
  BY DEF TypeOK
<1>2. pc[r] \notin Changing
  BY <1>1 DEF Undisturbed, Alone
<1>3. CASE pc[r] = "off"
  BY <1>1, <1>3 DEF Placed
<1>4. CASE pc[r] # "off"
  <2>1. pc[p] \notin Changing /\ l \notin Changing
    BY <1>1, <1>4 DEF Undisturbed, Alone
  <2>2. dir' = dir /\ Placed(r)
    BY <2>1 DEF Undisturbed
  <2> QED  BY <1>1, <1>2, <2>2 DEF Placed, Changing, Starting
<1> QED  BY <1>3, <1>4

(* What follows the header is a sequence too, and one that grows with the  *)
(* file.                                                                   *)
LEMMA AfterHeaderType ==
  ASSUME NEW c \in Word
  PROVE  /\ AfterHeader(c) \in Word
         /\ Len(c) > 1 => Len(AfterHeader(c)) > 0
  BY DEF AfterHeader, Word

LEMMA AfterHeaderAppend ==
  ASSUME NEW c \in Word, NEW x \in 1..MaxPackets
  PROVE  AfterHeader(Append(c, x)) = Append(AfterHeader(c), x)
<1>1. x # Header
  BY DEF Header
<1> QED  BY <1>1 DEF AfterHeader, Word

LEMMA PacketsType ==
  ASSUME TypeOK, NEW n \in Name
  PROVE  Packets(n) \in Word
<1>1. CASE dir[n] = NoInode
  BY <1>1 DEF Packets, Word
<1>2. CASE dir[n] # NoInode
  <2>1. content[dir[n]] \in Word
    BY <1>2 DEF TypeOK, Word
  <2> QED  BY <1>2, <2>1, AfterHeaderType DEF Packets
<1> QED  BY <1>1, <1>2

LEMMA SamePackets ==
  ASSUME NEW n \in Name, dir'[n] = dir[n],
         dir[n] # NoInode => content'[dir[n]] = content[dir[n]]
  PROVE  Packets(n)' = Packets(n)
  BY DEF Packets

(* What a step does to the packets that are kept: nothing, or the backup   *)
(* is removed because the file is too large, or the file takes its place,  *)
(* or one packet more is in the file.                                      *)
Effect ==
  \/ /\ UNCHANGED written
     /\ Packets("file")' = Packets("file")
     /\ Packets("backup")' = Packets("backup")
  \/ /\ UNCHANGED written
     /\ dir["file"] # NoInode /\ Len(content[dir["file"]]) > Limit
     /\ Packets("file")' = Packets("file")
     /\ Packets("backup")' = <<>>
  \/ /\ UNCHANGED written
     /\ Packets("backup") = <<>>
     /\ Packets("file")' = <<>>
     /\ Packets("backup")' = Packets("file")
  \/ /\ Len(written) + 1 \in 1..MaxPackets
     /\ written' = Append(written, Len(written) + 1)
     /\ Packets("file")' = Append(Packets("file"), Len(written) + 1)
     /\ Packets("backup")' = Packets("backup")

LEMMA GotoAlone ==
  ASSUME NEW p \in Process, NEW l, Goto(p, l), ~disturbed'
  PROVE  Alone' /\ ~disturbed /\ pc' = [pc EXCEPT ![p] = l]
  BY DEF Goto, Alone

(* A step that leaves the names and the named files as they are.           *)
LEMMA SameFiles ==
  ASSUME TypeOK, Undisturbed, NEW p \in Process, NEW l,
         Goto(p, l), ~disturbed', pc[p] # "off" \/ l # "off",
         dir' = dir,
         \A n \in Name : dir[n] # NoInode => content'[dir[n]] = content[dir[n]],
         \A q \in Process : q # p => fd'[q] = fd[q],
         UNCHANGED written,
         Placed(p)'
  PROVE  Undisturbed' /\ Effect
<1>1. Alone' /\ pc' = [pc EXCEPT ![p] = l]
  BY GotoAlone
<1>2. ASSUME NEW r \in Process PROVE Placed(r)'
  <2>1. CASE r = p
    BY <2>1
  <2>2. CASE r # p
    BY <1>1, <2>2, OthersPlaced
  <2> QED  BY <2>1, <2>2
<1>3. Distinct'
  BY DEF Undisturbed, Distinct
<1>4. \A n \in Name : Packets(n)' = Packets(n)
  BY SamePackets
<1> QED  BY <1>1, <1>2, <1>3, <1>4 DEF Undisturbed, Effect, Name

(* The step of a process without interference.                             *)
LEMMA StepUndisturbed ==
  ASSUME TypeOK, Undisturbed, ~disturbed', NEW p \in Process,
         \/ Start(p) \/ IsFile(p) \/ GetSize(p) \/ RollRemove(p) \/ RollRename(p)
         \/ RollFails(p) \/ NewOpen(p) \/ NewWrite(p) \/ WriteOpen(p)
         \/ WritePacket(p) \/ Stop(p)
  PROVE  Undisturbed' /\ Effect
<1>0. /\ dir \in [Name -> Inode \cup {NoInode}]
      /\ fd \in [Process -> Inode \cup {NoInode}]
      /\ content \in [Inode -> Word]
      /\ "file" \in Name /\ "backup" \in Name
      /\ \A l : pc' = [pc EXCEPT ![p] = l] => pc'[p] = l
      /\ \A l : pc' = [pc EXCEPT ![p] = l] => \A q \in Process : q # p => pc'[q] = pc[q]
  BY DEF TypeOK, Name, Word
<1>1. CASE Start(p) \/ IsFile(p) \/ GetSize(p) \/ RollFails(p)
  <2>1. PICK l : /\ Goto(p, l)
                 /\ pc[p] # "off" \/ l # "off"
                 /\ \/ l \in {"off", "check", "size"}
                    \/ l = "new_open" /\ dir["file"] = NoInode
                    \/ l = "ready" /\ dir["file"] # NoInode
                    \/ /\ l = "roll_remove" /\ dir["file"] # NoInode
                       /\ Len(content[dir["file"]]) > Limit
    BY <1>1 DEF Start, IsFile, GetSize, RollFails, Undisturbed, Placed
  <2>2. UNCHANGED <<dir, content, fd, written>>
    BY <1>1 DEF Start, IsFile, GetSize, RollFails
  <2>3. pc'[p] = l
    BY <1>0, <2>1, GotoAlone
  <2>4. Placed(p)'
    BY <2>1, <2>2, <2>3 DEF Placed
  <2> QED  BY <2>1, <2>2, <2>4, SameFiles
<1>2. CASE RollRemove(p)
  <2> DEFINE d == [dir EXCEPT !["backup"] = NoInode]
  <2>1. /\ d \in [Name -> Inode \cup {NoInode}]
        /\ d["file"] = dir["file"] /\ d["backup"] = NoInode
    BY <1>0
  <2>2. Files(d, fd, content) /\ Goto(p, "roll_rename") /\ pc[p] = "roll_remove" /\ UNCHANGED written
    BY <1>2 DEF RollRemove
  <2>3. Placed(p)
    BY DEF Undisturbed
  <2> HIDE DEF d
  <2>4. dir' = d /\ fd' = fd /\ content'[dir["file"]] = content[dir["file"]]
    BY <1>0, <2>1, <2>2, <2>3, FilesNamed DEF Files, Placed
  <2>5. Alone' /\ pc' = [pc EXCEPT ![p] = "roll_rename"]
    BY <2>2, GotoAlone
  <2>6. Placed(p)'
    BY <1>0, <2>1, <2>2, <2>3, <2>4, <2>5 DEF Placed
  <2>7. \A r \in Process : r # p => Placed(r)'
    BY <2>2, <2>4, <2>5, OthersPlaced DEF Changing
  <2>8. Distinct'
    BY <2>1, <2>4 DEF Distinct
  <2>9. Packets("file")' = Packets("file")
    BY <1>0, <2>1, <2>4, SamePackets
  <2>10. Packets("backup")' = <<>>
    BY <2>1, <2>4 DEF Packets
  <2> QED  BY <2>2, <2>3, <2>5, <2>6, <2>7, <2>8, <2>9, <2>10 DEF Undisturbed, Effect, Placed
<1>3. CASE RollRename(p)
  <2> DEFINE d == [file |-> NoInode, backup |-> dir["file"]]
  <2>1. /\ d \in [Name -> Inode \cup {NoInode}]
        /\ d["file"] = NoInode /\ d["backup"] = dir["file"]
    BY <1>0 DEF Name
  <2>2. Files(d, fd, content) /\ Goto(p, "new_open") /\ pc[p] = "roll_rename" /\ UNCHANGED written
    BY <1>3 DEF RollRename
  <2>3. Placed(p)
    BY DEF Undisturbed
  <2> HIDE DEF d
  <2>4. dir' = d /\ fd' = fd /\ content'[dir["file"]] = content[dir["file"]]
    BY <1>0, <2>1, <2>2, <2>3, FilesNamed DEF Files, Placed
  <2>5. Alone' /\ pc' = [pc EXCEPT ![p] = "new_open"]
    BY <2>2, GotoAlone
  <2>6. Placed(p)'
    BY <1>0, <2>1, <2>4, <2>5 DEF Placed
  <2>7. \A r \in Process : r # p => Placed(r)'
    BY <2>2, <2>4, <2>5, OthersPlaced DEF Changing
  <2>8. Distinct'
    BY <2>1, <2>4 DEF Distinct
  <2>9. Packets("file")' = <<>> /\ Packets("backup") = <<>>
    BY <2>1, <2>2, <2>3, <2>4 DEF Packets, Placed
  <2>10. Packets("backup")' = Packets("file")
    BY <2>1, <2>2, <2>3, <2>4 DEF Packets, Placed
  <2> QED  BY <2>2, <2>5, <2>6, <2>7, <2>8, <2>9, <2>10 DEF Undisturbed, Effect
<1>4. CASE NewOpen(p)
  <2> DEFINE i == NewInode
             d == [dir EXCEPT !["file"] = i]
             f == [fd EXCEPT ![p] = i]
             c == [content EXCEPT ![i] = <<>>]
  <2>1. pc[p] = "new_open" /\ Goto(p, "new_write") /\ UNCHANGED written
    BY <1>4 DEF NewOpen
  <2>2. dir["file"] = NoInode
    BY <2>1 DEF Undisturbed, Placed
  <2>3. i \in Inode /\ i # NoInode /\ dir["backup"] # i
    BY <1>0, <2>2, NewInodeFree, InodeNotNone
  <2>4. Files(d, f, c)
    BY <1>4, <2>2 DEF NewOpen, Open
  <2>5. /\ d \in [Name -> Inode \cup {NoInode}]
        /\ d["file"] = i /\ d["backup"] = dir["backup"]
        /\ c[i] = <<>> /\ (dir["backup"] # NoInode => c[dir["backup"]] = content[dir["backup"]])
        /\ f[p] = i /\ \A q \in Process : q # p => f[q] = fd[q]
    BY <1>0, <2>3
  <2> HIDE DEF i, d, f, c
  <2>6. /\ dir' = d /\ fd' = f /\ content'[i] = <<>>
        /\ dir["backup"] # NoInode => content'[dir["backup"]] = content[dir["backup"]]
    BY <1>0, <2>3, <2>4, <2>5, FilesNamed DEF Files
  <2>7. Alone' /\ pc' = [pc EXCEPT ![p] = "new_write"]
    BY <2>1, GotoAlone
  <2>8. Placed(p)'
    BY <1>0, <2>3, <2>5, <2>6, <2>7 DEF Placed
  <2>9. \A r \in Process : r # p => Placed(r)'
    BY <2>1, <2>5, <2>6, <2>7, OthersPlaced DEF Changing, Starting
  <2>10. Distinct'
    BY <2>3, <2>5, <2>6 DEF Distinct
  <2>11. Packets("file") = <<>> /\ Packets("file")' = <<>>
    BY <2>2, <2>3, <2>5, <2>6 DEF Packets, AfterHeader
  <2>12. Packets("backup")' = Packets("backup")
    BY <1>0, <2>5, <2>6, SamePackets
  <2> QED  BY <2>1, <2>7, <2>8, <2>9, <2>10, <2>11, <2>12 DEF Undisturbed, Effect
<1>5. CASE NewWrite(p)
  <2> DEFINE f == [fd EXCEPT ![p] = NoInode]
             c == [content EXCEPT ![fd[p]] = Overwritten(content[fd[p]])]
  <2>1. pc[p] = "new_write" /\ Goto(p, "ready") /\ UNCHANGED written /\ Files(dir, f, c)
    BY <1>5 DEF NewWrite, Close
  <2>2. dir["file"] # NoInode /\ fd[p] = dir["file"] /\ content[dir["file"]] = <<>>
        /\ dir["file"] # dir["backup"]
    BY <2>1 DEF Undisturbed, Placed, Distinct
  <2>3. Overwritten(<<>>) = <<Header>>
    BY DEF Overwritten
  <2>4. /\ c[dir["file"]] = <<Header>>
        /\ dir["backup"] # NoInode => c[dir["backup"]] = content[dir["backup"]]
        /\ \A q \in Process : q # p => f[q] = fd[q]
    BY <1>0, <2>2, <2>3
  <2> HIDE DEF f, c
  <2>5. /\ dir' = dir /\ fd' = f /\ content'[dir["file"]] = <<Header>>
        /\ dir["backup"] # NoInode => content'[dir["backup"]] = content[dir["backup"]]
    BY <1>0, <2>1, <2>2, <2>4, FilesNamed DEF Files
  <2>6. Alone' /\ pc' = [pc EXCEPT ![p] = "ready"]
    BY <2>1, GotoAlone
  <2>7. Placed(p)'
    BY <1>0, <2>2, <2>5, <2>6 DEF Placed
  <2>8. \A r \in Process : r # p => Placed(r)'
    BY <2>1, <2>4, <2>5, <2>6, OthersPlaced DEF Changing, Starting
  <2>9. Distinct'
    BY <2>2, <2>5 DEF Distinct
  <2>10. Packets("file") = <<>>
    BY <2>2 DEF Packets, AfterHeader
  <2>11. Packets("file")' = <<>>
    <3>1. AfterHeader(<<Header>>) = <<>>
      BY DEF AfterHeader
    <3> QED  BY <2>2, <2>5, <3>1 DEF Packets
  <2>12. Packets("backup")' = Packets("backup")
    BY <1>0, <2>5, SamePackets
  <2> QED  BY <2>1, <2>6, <2>7, <2>8, <2>9, <2>10, <2>11, <2>12 DEF Undisturbed, Effect
<1>6. CASE WriteOpen(p)
  <2> DEFINE f == [fd EXCEPT ![p] = dir["file"]]
  <2>1. pc[p] = "ready" /\ Goto(p, "write") /\ UNCHANGED written
    BY <1>6 DEF WriteOpen
  <2>2. dir["file"] # NoInode
    BY <2>1 DEF Undisturbed, Placed
  <2>3. Files(dir, f, content)
    <3>1. [dir EXCEPT !["file"] = dir["file"]] = dir
      BY <1>0
    <3> QED  BY <1>6, <2>2, <3>1 DEF WriteOpen, Open
  <2>4. f[p] = dir["file"] /\ \A q \in Process : q # p => f[q] = fd[q]
    BY <1>0
  <2> HIDE DEF f
  <2>5. dir' = dir /\ fd' = f
    BY <2>3 DEF Files
  <2>6. \A n \in Name : dir[n] # NoInode => content'[dir[n]] = content[dir[n]]
    BY <1>0, <2>3, FilesNamed
  <2>7. pc'[p] = "write"
    BY <1>0, <2>1, GotoAlone
  <2>8. Placed(p)'
    BY <2>2, <2>4, <2>5, <2>7 DEF Placed
  <2> QED  BY <2>1, <2>4, <2>5, <2>6, <2>8, SameFiles
<1>7. CASE WritePacket(p)
  <2> DEFINE x == Len(written) + 1
             f == [fd EXCEPT ![p] = NoInode]
             new == Append(content[fd[p]], x)
             c == [content EXCEPT ![fd[p]] = new]
  <2>1. /\ pc[p] = "write" /\ Goto(p, "ready") /\ Files(dir, f, c)
        /\ written' = Append(written, x) /\ Len(written) < MaxPackets
    BY <1>7 DEF WritePacket, Close
  <2>2. dir["file"] # NoInode /\ fd[p] = dir["file"] /\ dir["file"] # dir["backup"]
    BY <2>1 DEF Undisturbed, Placed, Distinct
  <2>3. x \in 1..MaxPackets
    BY <2>1, CaptureFileAssumption DEF TypeOK
  <2>4. /\ content[dir["file"]] \in Word
        /\ c[dir["file"]] = Append(content[dir["file"]], x)
        /\ dir["backup"] # NoInode => c[dir["backup"]] = content[dir["backup"]]
        /\ \A q \in Process : q # p => f[q] = fd[q]
    BY <1>0, <2>2
  <2> HIDE DEF f, c, new
  <2>5. /\ dir' = dir /\ fd' = f /\ content'[dir["file"]] = Append(content[dir["file"]], x)
        /\ dir["backup"] # NoInode => content'[dir["backup"]] = content[dir["backup"]]
    BY <1>0, <2>1, <2>2, <2>4, FilesNamed DEF Files
  <2>6. Alone' /\ pc' = [pc EXCEPT ![p] = "ready"]
    BY <2>1, GotoAlone
  <2>7. Placed(p)'
    BY <1>0, <2>2, <2>5, <2>6 DEF Placed
  <2>8. \A r \in Process : r # p => Placed(r)'
    BY <2>1, <2>4, <2>5, <2>6, OthersPlaced DEF Changing, Starting
  <2>9. Distinct'
    BY <2>2, <2>5 DEF Distinct
  <2>10. Packets("file")' = Append(Packets("file"), x)
    <3> HIDE DEF x
    <3> QED  BY <2>2, <2>3, <2>4, <2>5, AfterHeaderAppend DEF Packets
  <2>11. Packets("backup")' = Packets("backup")
    BY <1>0, <2>5, SamePackets
  <2> QED  BY <2>1, <2>3, <2>6, <2>7, <2>8, <2>9, <2>10, <2>11 DEF Undisturbed, Effect
<1>8. CASE Stop(p)
  <2> DEFINE f == [fd EXCEPT ![p] = NoInode]
  <2>1. pc[p] # "off" /\ Goto(p, "off") /\ UNCHANGED written /\ Files(dir, f, content)
    BY <1>8 DEF Stop
  <2>2. \A q \in Process : q # p => f[q] = fd[q]
    BY <1>0
  <2> HIDE DEF f
  <2>3. dir' = dir /\ fd' = f
    BY <2>1 DEF Files
  <2>4. \A n \in Name : dir[n] # NoInode => content'[dir[n]] = content[dir[n]]
    BY <1>0, <2>1, FilesNamed
  <2>5. pc'[p] = "off"
    BY <1>0, <2>1, GotoAlone
  <2>6. Placed(p)'
    BY <2>5 DEF Placed
  <2> QED  BY <2>1, <2>2, <2>3, <2>4, <2>6, SameFiles
<1> QED  BY <1>1, <1>2, <1>3, <1>4, <1>5, <1>6, <1>7, <1>8

LEMMA SeqSubset ==
  ASSUME NEW S, NEW T, S \subseteq T, NEW s \in Seq(S)
  PROVE  s \in Seq(T)
  OBVIOUS

(* Numbering survives an append.                                           *)
LEMMA NumbersAppend ==
  ASSUME NEW T, NEW s \in Seq(T), NEW a \in Int, NEW x \in T, Numbers(s, a), x = a + Len(s) + 1
  PROVE  Numbers(Append(s, x), a) /\ Len(Append(s, x)) = Len(s) + 1
<1>1. /\ Len(Append(s, x)) = Len(s) + 1 /\ Len(s) \in Nat
      /\ \A i \in 1..Len(s) : Append(s, x)[i] = s[i]
      /\ Append(s, x)[Len(s) + 1] = x
  BY AppendProperties, LenProperties
<1>2. ASSUME NEW i \in 1..(Len(s) + 1) PROVE Append(s, x)[i] = a + i
  <2>1. CASE i = Len(s) + 1
    BY <1>1, <2>1
  <2>2. CASE i # Len(s) + 1
    <3>1. i \in 1..Len(s)
      BY <1>1, <2>2
    <3> QED  BY <1>1, <3>1 DEF Numbers
  <2> QED  BY <2>1, <2>2
<1> QED  BY <1>1, <1>2 DEF Numbers

LEMMA KeptAppend ==
  ASSUME NEW T, NEW b \in Seq(T), NEW f \in Seq(T), NEW n \in Nat, n + 1 \in T, KeptOf(b, f, n)
  PROVE  KeptOf(b, Append(f, n + 1), n + 1)
<1>1. Len(b) \in Nat /\ Len(f) \in Nat
  BY LenProperties
<1>2. PICK a \in Int : a = n - Len(f)
  BY <1>1
<1>3. n + 1 = a + Len(f) + 1 /\ Numbers(f, a)
  BY <1>1, <1>2 DEF KeptOf
<1>4. PICK x \in T : x = n + 1
  OBVIOUS
<1>5. Numbers(Append(f, x), a) /\ Len(Append(f, x)) = Len(f) + 1
  BY <1>2, <1>3, <1>4, NumbersAppend
<1>6. PICK g : g = Append(f, x)
  OBVIOUS
<1>7. Len(g) = Len(f) + 1 /\ Numbers(g, a)
  BY <1>5, <1>6
<1>8. n + 1 - Len(g) = a /\ n + 1 - Len(g) - Len(b) = n - Len(f) - Len(b)
  BY <1>1, <1>2, <1>7
<1>9. KeptOf(b, g, n + 1)
  BY ONLY <1>1, <1>7, <1>8, n \in Nat, KeptOf(b, f, n) DEF KeptOf
<1> QED  BY <1>4, <1>6, <1>9

(* The packets kept are those written last.                                *)
LEMMA KeptSuffix ==
  ASSUME NEW T, NEW b \in Seq(T), NEW f \in Seq(T), NEW w \in Seq(T),
         Numbers(w, 0), KeptOf(b, f, Len(w))
  PROVE  IsSuffix(b \o f, w) /\ (b \o f = <<>> => w = <<>>)
<1>1. /\ Len(b) \in Nat /\ Len(f) \in Nat /\ Len(w) \in Nat
  BY LenProperties
<1>2. PICK k : k = b \o f
  OBVIOUS
<1>3. /\ k \in Seq(T) /\ Len(k) = Len(b) + Len(f)
      /\ \A i \in 1..(Len(b) + Len(f)) : k[i] = IF i <= Len(b) THEN b[i] ELSE f[i - Len(b)]
  BY <1>2, ConcatProperties
<1>4. PICK d \in Nat : d = Len(w) - Len(k)
  <2>1. Len(w) - Len(k) \in Nat
    BY <1>1, <1>3 DEF KeptOf
  <2> QED  BY <2>1
<1>5. PICK s : s = SubSeq(w, d + 1, Len(w))
  OBVIOUS
<1>6. /\ s \in Seq(T) /\ Len(s) = Len(k)
      /\ \A i \in 1..Len(k) : s[i] = w[d + i]
  <2>1. CASE Len(k) = 0
    <3>1. d + 1 = Len(w) + 1
      BY <1>1, <1>4, <2>1
    <3> QED  BY <1>1, <1>5, <2>1, <3>1, SubSeqProperties
  <2>2. CASE Len(k) # 0
    <3>1. d + 1 \in 1..Len(w) /\ Len(w) \in 1..Len(w) /\ d + 1 <= Len(w) + 1
      BY <1>1, <1>3, <1>4, <2>2
    <3> QED  BY SMTT(30), <1>1, <1>3, <1>4, <1>5, <2>2, <3>1, SubSeqProperties
  <2> QED  BY <2>1, <2>2
<1>7. ASSUME NEW i \in 1..Len(k) PROVE k[i] = s[i]
  <2>1. d + i \in 1..Len(w)
    BY <1>1, <1>3, <1>4
  <2>2. s[i] = d + i
    BY <1>6, <2>1 DEF Numbers
  <2>3. CASE i <= Len(b)
    <3>1. i \in 1..Len(b) /\ k[i] = b[i]
      BY <1>1, <1>3, <2>3
    <3>2. b[i] = Len(w) - Len(f) - Len(b) + i
      BY <3>1 DEF KeptOf, Numbers
    <3> QED  BY <1>1, <1>3, <1>4, <2>2, <3>1, <3>2
  <2>4. CASE ~(i <= Len(b))
    <3>1. PICK j : j = i - Len(b)
      OBVIOUS
    <3>2. j \in 1..Len(f) /\ k[i] = f[j]
      BY <1>1, <1>3, <2>4, <3>1
    <3>3. f[j] = Len(w) - Len(f) + j
      BY <3>2 DEF KeptOf, Numbers
    <3> QED  BY <1>1, <1>3, <1>4, <2>2, <3>1, <3>2, <3>3
  <2> QED  BY <2>3, <2>4
<1>8. k = s
  BY <1>3, <1>6, <1>7, SeqEqual
<1>9. Len(w) - Len(k) + 1 = d + 1 /\ Len(k) <= Len(w)
  BY <1>1, <1>3, <1>4
<1>10. IsSuffix(k, w)
  BY <1>4, <1>5, <1>8, <1>9 DEF IsSuffix
<1>11. k = <<>> => w = <<>>
  <2>1. k = <<>> => Len(w) = 0
    BY <1>1, <1>3 DEF KeptOf
  <2> QED  BY <2>1, EmptySeq
<1> QED  BY <1>2, <1>10, <1>11

(* Every effect keeps the packets written last.                            *)
LEMMA EffectKept ==
  ASSUME TypeOK, TypeOK', Kept, Effect
  PROVE  Kept'
<1> DEFINE b == Packets("backup")
           f == Packets("file")
           n == Len(written)
           Item == {Torn, Header} \cup 1..MaxPackets
<1>1. b \in Seq(Item) /\ f \in Seq(Item) /\ written \in Seq(1..MaxPackets)
  BY PacketsType DEF Word, Name, TypeOK
<1>2. Len(b) \in Nat /\ Len(f) \in Nat /\ n \in Nat /\ n \in Int
  BY <1>1, LenProperties
<1>3. Numbers(written, 0) /\ KeptOf(b, f, n)
  BY DEF Kept
<1> HIDE DEF b, f, n, Item
<1>4. CASE UNCHANGED written /\ f' = f /\ b' = b
  BY <1>3, <1>4 DEF Kept, b, f, n
<1>5. CASE /\ UNCHANGED written
           /\ dir["file"] # NoInode /\ Len(content[dir["file"]]) > Limit
           /\ f' = f /\ b' = <<>>
  <2>1. Len(f) > 0
    <3>1. content[dir["file"]] \in Word /\ Len(content[dir["file"]]) \in Nat
      BY <1>5, LenProperties DEF TypeOK, Word, Name
    <3>2. Len(content[dir["file"]]) > 1
      BY <1>5, <3>1, CaptureFileAssumption
    <3> QED  BY <1>5, <3>1, <3>2, AfterHeaderType DEF f, Packets
  <2>2. Len(<<>>) = 0 /\ Numbers(<<>>, n - Len(f) - 0)
    BY DEF Numbers
  <2>3. KeptOf(<<>>, f, n)
    BY <1>2, <1>3, <2>1, <2>2 DEF KeptOf
  <2> QED  BY <1>3, <1>5, <2>3 DEF Kept, b, f, n
<1>6. CASE /\ UNCHANGED written
           /\ b = <<>> /\ f' = <<>> /\ b' = f
  <2>1. Len(<<>>) = 0 /\ Numbers(<<>>, n - 0)
    BY DEF Numbers
  <2>2. n - 0 - Len(f) = n - Len(f)
    BY <1>2
  <2>3. KeptOf(f, <<>>, n)
    BY <1>2, <1>3, <1>6, <2>1, <2>2 DEF KeptOf
  <2> QED  BY <1>3, <1>6, <2>3 DEF Kept, b, f, n
<1>7. CASE /\ n + 1 \in 1..MaxPackets
           /\ written' = Append(written, n + 1)
           /\ f' = Append(f, n + 1) /\ b' = b
  <2>1. KeptOf(b, Append(f, n + 1), n + 1)
    BY <1>1, <1>2, <1>3, <1>7, KeptAppend DEF Item
  <2>2. PICK x \in 1..MaxPackets : x = n + 1
    BY <1>7
  <2>3. x = 0 + Len(written) + 1 /\ 0 \in Int
    BY <1>2, <2>2 DEF n
  <2>4. Numbers(Append(written, x), 0) /\ Len(Append(written, x)) = Len(written) + 1
    BY ONLY <1>1, <1>3, <2>2, <2>3, NumbersAppend
  <2> QED  BY <1>7, <2>1, <2>2, <2>4 DEF Kept, b, f, n
<1> QED  BY <1>4, <1>5, <1>6, <1>7 DEF Effect, b, f, n

(* Once disturbed, always disturbed; and every step of an undisturbed      *)
(* recording has one of the effects.                                       *)
LEMMA NextUndisturbed ==
  ASSUME KeptInv, [Next]_vars, ~disturbed'
  PROVE  ~disturbed /\ Undisturbed' /\ Effect
<1>1. CASE UNCHANGED vars
  <2>1. Undisturbed' = Undisturbed /\ \A n \in Name : Packets(n)' = Packets(n)
    BY <1>1 DEF vars, Undisturbed, Alone, Distinct, Placed, Packets
  <2> QED  BY <1>1, <2>1 DEF vars, KeptInv, Effect, Name
<1>2. CASE Next
  <2>1. PICK p \in Process :
          \/ Start(p) \/ IsFile(p) \/ GetSize(p) \/ RollRemove(p) \/ RollRename(p)
          \/ RollFails(p) \/ NewOpen(p) \/ NewWrite(p) \/ WriteOpen(p)
          \/ WritePacket(p) \/ Stop(p)
    BY <1>2 DEF Next
  <2>2. ~disturbed
    BY <2>1 DEF Start, IsFile, GetSize, RollRemove, RollRename, RollFails, NewOpen,
                NewWrite, WriteOpen, WritePacket, Stop, Goto
  <2> QED  BY <2>1, <2>2, StepUndisturbed DEF KeptInv
<1> QED  BY <1>1, <1>2

LEMMA InitKept == Init => KeptInv
<1> SUFFICES ASSUME Init PROVE KeptInv
  OBVIOUS
<1>1. TypeOK
  BY InitIInv DEF IInv
<1>2. \A p \in Process : pc[p] = "off"
  BY DEF Init
<1>3. dir["file"] = NoInode /\ dir["backup"] = NoInode /\ Len(written) = 0
  BY DEF Init, Name
<1>4. Undisturbed
  BY <1>2, <1>3 DEF Undisturbed, Alone, Distinct, Placed, Changing, Starting
<1>5. Packets("file") = <<>> /\ Packets("backup") = <<>> /\ Len(<<>>) = 0
  BY <1>3 DEF Packets
<1>6. Kept
  BY <1>3, <1>5 DEF Kept, KeptOf, Numbers
<1> QED  BY <1>1, <1>4, <1>6 DEF KeptInv

LEMMA NextKept == KeptInv /\ [Next]_vars => KeptInv'
<1> SUFFICES ASSUME KeptInv, [Next]_vars PROVE KeptInv'
  OBVIOUS
<1>1. TypeOK /\ TypeOK'
  BY NextTypeOK DEF KeptInv
<1>2. ASSUME ~disturbed' PROVE Undisturbed' /\ Kept'
  BY <1>1, <1>2, NextUndisturbed, EffectKept DEF KeptInv
<1> QED  BY <1>1, <1>2 DEF KeptInv

(* A step of an undisturbed recording drops only the packets of the backup,*)
(* and only for a file that is too large.                                  *)
LEMMA EffectHeld ==
  ASSUME TypeOK, Effect
  PROVE  /\ Held("file") \subseteq Held("file")' \cup Held("backup")'
         /\ \/ Held("backup") \subseteq Held("backup")'
            \/ Len(content[dir["file"]]) > Limit
<1> DEFINE b == Packets("backup")
           f == Packets("file")
           Items(s) == {s[i] : i \in DOMAIN s}
<1>1. Held("file") = Items(f) /\ Held("backup") = Items(b)
  BY DEF Held
<1>2. Held("file")' = Items(f') /\ Held("backup")' = Items(b')
  BY DEF Held
<1>3. f \in Word
  BY PacketsType DEF Name
<1> HIDE DEF b, f
<1>4. Items(<<>>) = {}
  OBVIOUS
<1>5. ASSUME NEW x \in {Torn, Header} \cup 1..MaxPackets
      PROVE  Items(f) \subseteq Items(Append(f, x))
  <2>1. /\ DOMAIN f = 1..Len(f) /\ Len(f) \in Nat
        /\ DOMAIN Append(f, x) = 1..(Len(f) + 1)
        /\ \A i \in 1..Len(f) : Append(f, x)[i] = f[i]
    BY <1>3, AppendProperties, LenProperties DEF Word
  <2> QED  BY <2>1
<1>6. CASE f' = f /\ b' = b
  BY <1>1, <1>2, <1>6
<1>7. CASE f' = f /\ Len(content[dir["file"]]) > Limit
  BY <1>1, <1>2, <1>7
<1>8. CASE b = <<>> /\ b' = f
  BY <1>1, <1>2, <1>4, <1>8
<1>9. CASE Len(written) + 1 \in 1..MaxPackets /\ f' = Append(f, Len(written) + 1) /\ b' = b
  BY <1>1, <1>2, <1>5, <1>9
<1> QED  BY <1>6, <1>7, <1>8, <1>9 DEF Effect, b, f
-----------------------------------------------------------------------------
(* The types of the names, the files and what each process has open.       *)
THEOREM CaptureFileTypeOK == Spec => []TypeOK
  <1>1. Init => TypeOK
    BY InitIInv DEF IInv
  <1> QED BY <1>1, NextTypeOK, PTL DEF Spec

(* However many processes start, move and fill the file, it begins with a  *)
(* header whenever nobody is busy starting it, unless somebody died while  *)
(* doing so (startNewFile, doRollover and writePacket of CaptureFiles.py). *)
THEOREM CaptureFileHeaderFirst == Spec => []HeaderFirst
  <1>1. IInv => HeaderFirst
    BY DEF IInv, BeingStarted, HeaderFirst, Begins, Starting
  <1> QED BY <1>1, InitIInv, NextIInv, PTL DEF Spec

(* While no file is started or moved beside another running process, the   *)
(* backup and the file hold the packets written last, whole and in order,  *)
(* across a rollover and the death of a process (doRollover, writePacket). *)
THEOREM CaptureFileRecorded == Spec => []Recorded
  <1>1. KeptInv => Recorded
    <2> SUFFICES ASSUME KeptInv, ~disturbed
                 PROVE  /\ IsSuffix(Packets("backup") \o Packets("file"), written)
                        /\ Packets("backup") \o Packets("file") = <<>> => written = <<>>
      BY DEF Recorded
    <2>1. Packets("backup") \in Word /\ Packets("file") \in Word
      BY PacketsType DEF KeptInv, Name
    <2>2. written \in Seq(1..MaxPackets)
      BY DEF KeptInv, TypeOK
    <2>3. written \in Word
      <3>1. 1..MaxPackets \subseteq {Torn, Header} \cup 1..MaxPackets
        OBVIOUS
      <3> QED  BY <2>2, <3>1, SeqSubset DEF Word
    <2> QED  BY <2>1, <2>3, KeptSuffix DEF KeptInv, Kept, Word
  <1> QED  BY <1>1, InitKept, NextKept, PTL DEF Spec

(* In the same case no step of any process loses a packet of the file, and *)
(* one of the backup only when a file that is too large replaces it.       *)
THEOREM CaptureFilePacketsKept == Spec => PacketsKept
  <1>1. KeptInv /\ [Next]_vars =>
          [~disturbed' => /\ Held("file") \subseteq Held("file")' \cup Held("backup")'
                          /\ Held("backup") \subseteq Held("backup")'
                             \/ Len(content[dir["file"]]) > Limit]_vars
    BY NextUndisturbed, EffectHeld DEF KeptInv
  <1> QED  BY <1>1, InitKept, NextKept, PTL DEF Spec, PacketsKept
=============================================================================
