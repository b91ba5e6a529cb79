------------------------------- MODULE LkvDb --------------------------------
(***************************************************************************)
(* lkvdb.cpp: background saves, each by a forked child, and the file they  *)
(* leave.  A child holds the contents of the moment of its fork; nothing   *)
(* keeps a second one from starting while a first one still writes, and    *)
(* all of them use the one temporary name.  A file is known by its inode:  *)
(* a rename moves the name, the child keeps writing into the inode.        *)
(***************************************************************************)
EXTENDS Snapshot

CONSTANTS
    Contents,       \* what the container may hold when a save starts
    MaxSaves,       \* bound on the children forked
    MaxFailures     \* bound on failing writes and renames and killed children

ASSUME LkvDbAssumption == MaxSaves \in Nat /\ MaxFailures \in Nat

VARIABLES
    child,          \* one record per save
    inode,          \* inode -> the bytes of the file
    tmp_dst, dst,   \* the inodes these names stand for; 0 for no file
    failures,
    overlap,        \* did two children have the temporary file open at once
    write_failed,   \* did a write fail
    last            \* the contents that the last child that succeeded had

vars == <<child, inode, tmp_dst, dst, failures, overlap, write_failed, last>>

history == <<failures, overlap, write_failed, last>>

\* The header, two bytes for LITEKV0001.
LKVDB_HEADER == <<1, 2>>
LKVDB_HEADER_SIZE == Len(LKVDB_HEADER)

DumpOf(c) == LKVDB_HEADER \o TakeSnapshot(c)

Init ==
    /\ child = <<>>
    /\ inode = <<>>
    /\ tmp_dst = 0 /\ dst = 0
    /\ failures = 0 /\ overlap = FALSE /\ write_failed = FALSE
    /\ last = <<>>

\* The child's copy of the container is what the commands so far (Engine) have
\* made of it.
LiteKVBackgroundSave ==
    /\ Len(child) < MaxSaves
    /\ \E content \in Contents :
          child' = Append(child, [pc |-> "open", content |-> content, ino |-> 0, off |-> 0])
    /\ UNCHANGED <<inode, tmp_dst, dst, history>>

Exited == [pc |-> "exited", content |-> <<>>, ino |-> 0, off |-> 0]

Writing(c) == child[c].pc \in {"write", "rename"}

OpenTmpMutant(c) ==
    LET ino == IF dst = 0 THEN Len(inode) + 1 ELSE dst
    IN  /\ child[c].pc = "open"
        /\ inode' = IF dst = 0 THEN Append(inode, <<>>) ELSE [inode EXCEPT ![dst] = <<>>]
        /\ dst' = ino
        /\ child' = [child EXCEPT ![c].pc = "write", ![c].ino = ino]
        /\ overlap' = (overlap \/ \E d \in DOMAIN child : Writing(d))
        /\ UNCHANGED <<tmp_dst, failures, write_failed, last>>

\* std::ios::trunc: an existing temporary file is emptied, whoever writes it.
OpenTmp(c) ==
    LET ino == IF tmp_dst = 0 THEN Len(inode) + 1 ELSE tmp_dst
    IN  /\ child[c].pc = "open"
        /\ inode' = IF tmp_dst = 0 THEN Append(inode, <<>>) ELSE [inode EXCEPT ![tmp_dst] = <<>>]
        /\ tmp_dst' = ino
        /\ child' = [child EXCEPT ![c].pc = "write", ![c].ino = ino]
        /\ overlap' = (overlap \/ \E d \in DOMAIN child : Writing(d))
        /\ UNCHANGED <<dst, failures, write_failed, last>>

\* write(2) at an offset: a gap up to it reads as zeros.
PutAt(bytes, off, new) ==
    [i \in 1..Max({Len(bytes), off + Len(new)}) |->
        IF i \in (off + 1)..(off + Len(new)) THEN new[i - off]
        ELSE IF i <= Len(bytes) THEN bytes[i] ELSE 0]

\* ofs.write and ofs.flush reach the file in one piece or in several.
Cuts(bytes) == {LKVDB_HEADER_SIZE, Len(bytes) \div 2, Len(bytes)}

WriteSome(c) ==
    LET bytes == DumpOf(child[c].content)
    IN  /\ child[c].pc = "write"
        /\ \E upto \in Cuts(bytes) :
              /\ upto > child[c].off
              /\ inode' = [inode EXCEPT ![child[c].ino] =
                              PutAt(@, child[c].off, SubSeq(bytes, child[c].off + 1, upto))]
              /\ child' = [child EXCEPT ![c].off = upto,
                                        ![c].pc = IF upto = Len(bytes) THEN "rename" ELSE "write"]
        /\ UNCHANGED <<tmp_dst, dst, history>>

\* A write fails after some of its bytes.  The state of the stream is not
\* looked at: what is there gets renamed.
WriteFails(c) ==
    LET bytes == DumpOf(child[c].content)
    IN  /\ child[c].pc = "write" /\ failures < MaxFailures
        /\ \E upto \in child[c].off..(Len(bytes) - 1) :
              inode' = [inode EXCEPT ![child[c].ino] =
                           PutAt(@, child[c].off, SubSeq(bytes, child[c].off + 1, upto))]
        /\ child' = [child EXCEPT ![c].pc = "rename"]
        /\ failures' = failures + 1 /\ write_failed' = TRUE
        /\ UNCHANGED <<tmp_dst, dst, overlap, last>>

RenameMutant(c) ==
    /\ child[c].pc \in {"write", "rename"} /\ tmp_dst # 0
    /\ dst' = tmp_dst /\ tmp_dst' = 0
    /\ last' = child[c].content
    /\ child' = [child EXCEPT ![c] = Exited]
    /\ UNCHANGED <<inode, failures, overlap, write_failed>>

Rename(c) ==
    /\ child[c].pc = "rename" /\ tmp_dst # 0
    /\ dst' = tmp_dst /\ tmp_dst' = 0
    /\ last' = child[c].content
    /\ child' = [child EXCEPT ![c] = Exited]
    /\ UNCHANGED <<inode, failures, overlap, write_failed>>

\* The temporary file is not there any more (another child has renamed or
\* unlinked it), or the system refuses.
RenameFails(c) ==
    /\ child[c].pc = "rename"
    /\ \/ tmp_dst = 0 /\ UNCHANGED failures
       \/ tmp_dst # 0 /\ failures < MaxFailures /\ failures' = failures + 1
    /\ child' = [child EXCEPT ![c].pc = "unlink"]
    /\ UNCHANGED <<inode, tmp_dst, dst, overlap, write_failed, last>>

\* The temporary name goes, whoever has made it anew since.
Unlink(c) ==
    /\ child[c].pc = "unlink"
    /\ tmp_dst' = 0
    /\ child' = [child EXCEPT ![c] = Exited]
    /\ UNCHANGED <<inode, dst, history>>

\* The child cannot create the file, or is killed.
ChildDies(c) ==
    /\ child[c].pc \in {"open", "write", "rename", "unlink"} /\ failures < MaxFailures
    /\ child' = [child EXCEPT ![c] = Exited]
    /\ failures' = failures + 1
    /\ UNCHANGED <<inode, tmp_dst, dst, overlap, write_failed, last>>

Next ==
    \/ LiteKVBackgroundSave
    \/ \E c \in DOMAIN child :
          \/ OpenTmp(c) \/ WriteSome(c) \/ WriteFails(c)
          \/ Rename(c) \/ RenameFails(c) \/ Unlink(c) \/ ChildDies(c)

Spec == Init /\ [][Next]_vars
-----------------------------------------------------------------------------
(* LiteKVLoad *)

LiteKVLoad(bytes) ==
    IF Len(bytes) < LKVDB_HEADER_SIZE \/ SubSeq(bytes, 1, LKVDB_HEADER_SIZE) # LKVDB_HEADER
    THEN <<>>
    ELSE LoadBody(SubSeq(bytes, LKVDB_HEADER_SIZE + 1, Len(bytes)))
-----------------------------------------------------------------------------
(* Properties *)

\* The dump is at every moment, also while children write, die half-way or
\* leave their temporary file behind, the whole snapshot of the last save that
\* succeeded.  The two exceptions are real: two saves that overlap share the
\* temporary file, and the result of the writes is not looked at.
DumpIsLastSnapshot ==
    dst # 0 /\ ~overlap /\ ~write_failed => inode[dst] = DumpOf(last)

\* Elements, or pairs, that the decoders read before they stop.
Kept(obj) ==
    LET elems == obj.ptr
        stop == {i \in DOMAIN elems :
                    IF obj.type = OBJECT_HASH THEN <<>> \in ToSet(elems[i]) ELSE elems[i] = <<>>}
    IN  IF obj.type \notin Collections THEN obj
        ELSE [obj EXCEPT !.ptr = IF stop = {} THEN elems ELSE SubSeq(elems, 1, Min(stop) - 1)]

\* Items behind which the reader has lost its place: empty collections, and
\* those that hold an empty string before their very last one.
Misread(obj) ==
    /\ obj.type \in Collections
    /\ \/ obj.ptr = <<>>
       \/ Kept(obj).ptr # obj.ptr
          /\ \/ Len(Kept(obj).ptr) < Len(obj.ptr) - 1
             \/ obj.type = OBJECT_HASH /\ Last(obj.ptr)[1] = <<>>

\* The part of the contents that a dump can give back.
Loadable(c) ==
    LET bad == {i \in DOMAIN c : Misread(c[i])}
        kept == [i \in 1..(IF bad = {} THEN Len(c) ELSE Min(bad)) |-> Kept(c[i])]
    IN  SelectSeq(kept, LAMBDA obj : obj.type \in Collections => obj.ptr # <<>>)

\* Loading the dump gives back every key with its type and its value, integers
\* of either sign and strings and collections of any length, and in the same
\* order: except for empty strings inside collections, and for everything
\* behind an empty collection or behind such a string.
LoadBringsBack ==
    dst # 0 /\ ~overlap /\ ~write_failed => LiteKVLoad(inode[dst]) = Loadable(last)

\* A dump that a failed write has cut short, wherever, and that was renamed all
\* the same, still gives back every item in front of the cut.
TornDumpKeepsWholeItems ==
    dst # 0 /\ ~overlap =>
        \A n \in 0..Len(last) :
            Len(DumpOf(SubSeq(last, 1, n))) <= Len(inode[dst]) =>
                IsPrefix(Loadable(SubSeq(last, 1, n)), LiteKVLoad(inode[dst]))

\* Whatever becomes of the temporary file, the name of the dump is never taken
\* away once there is one, and while no two saves overlap no byte of the dump
\* is changed in place: a reader that has it open sees one state.
DumpOnlyReplaced ==
    [][dst # 0 => /\ dst' # 0
                  /\ (inode'[dst] = inode[dst] \/ overlap)]_vars
=============================================================================
