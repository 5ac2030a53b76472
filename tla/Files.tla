-------------------------------- MODULE Files --------------------------------
(***************************************************************************)
(* The asynchronous file calls of the runtime (fs.cc): mkdir, writeFile,   *)
(* readFile, remove and rename, each of which runs on a thread of the pool *)
(* as a series of system calls while the others run theirs.  A step here   *)
(* is one system call.                                                     *)
(*                                                                         *)
(* The file system itself is not code of the repository.  It is taken to   *)
(* keep a file that is open for writing, or that is to be truncated,       *)
(* removed or renamed, to one user; a full card shows when a directory is  *)
(* made, bytes are written or a buffer is flushed.                         *)
(***************************************************************************)
EXTENDS Integers, Sequences, FiniteSets, SequencesExt

CONSTANTS
  Tasks,   \* calls made of the file system
  Paths,   \* sequences of names, with their prefixes; the root is << >>
  Units    \* length of a written file; the last unit waits in the buffer

\* What the model asks of its constants.
FilesAssumption ==
  /\ Units \in Nat \ {0}
  /\ \A p \in Paths : p # <<>> /\ \A k \in 1 .. Len(p) : SubSeq(p, 1, k) \in Paths

VARIABLES
  tree,    \* tree[p]: what is there
  task     \* task[t]: where the call is and what it holds

filesVars == <<tree, task>>

Absent == [kind |-> "absent"]
Directory == [kind |-> "dir"]
File(t, n) == [kind |-> "file", by |-> t, n |-> n]

IsFile(p) == tree[p].kind = "file"
IsDirectory(p) == p \in {<<>>} \cup {q \in Paths : tree[q] = Directory}
Children(p) == {q \in Paths : Front(q) = p /\ tree[q] # Absent}

\* The files a call has open, and whether another call keeps p from t.
OpenFor(t) == IF task[t].pc \in {"fwrite", "fclose", "fread"} THEN {task[t].path} ELSE {}
InUse(t, p) == \E u \in Tasks \ {t} : p \in OpenFor(u)
Written(t, p) == \E u \in Tasks \ {t} : p \in OpenFor(u) /\ task[u].op = "writeFile"

NoTask == [op |-> "none", path |-> <<>>, dest |-> <<>>, pc |-> "new",
           depth |-> 0, dirs |-> <<>>, short |-> FALSE, lost |-> FALSE]

-----------------------------------------------------------------------------
(* The ends of a call: on the pool, and in the callback on the main thread *)
(* that settles its promise.                                               *)
Goto(t, pc) == task' = [task EXCEPT ![t].pc = pc]
Succeeds(t) == Goto(t, "done")
Fails(t) == Goto(t, "error")
FailsAlone(t) == Fails(t) /\ UNCHANGED tree

Settle(t) ==
  /\ task[t].pc \in {"done", "error", "missing"}
  /\ task' = [task EXCEPT ![t].pc = CASE task[t].pc = "done" -> "resolved"
                                      [] task[t].pc = "error" -> "rejected"
                                      [] task[t].pc = "missing" -> "null"]
  /\ UNCHANGED tree

\* How many directories a call makes on its way: all of its path, or its dirname.
DirsOf(t) == IF task[t].op = "mkdir" THEN Len(task[t].path) ELSE Len(task[t].path) - 1

Call(t, op, path, dest) ==
  /\ task[t] = NoTask
  /\ task' = [task EXCEPT ![t] =
       [NoTask EXCEPT !.op = op, !.path = path, !.dest = dest, !.depth = 1,
          !.pc = CASE op = "mkdir" -> "mkdir"
                   [] op = "writeFile" /\ Len(path) > 1 -> "mkdir"
                   [] op = "writeFile" /\ Len(path) = 1 -> "fopen"
                   [] op \in {"readFile", "rename"} -> "fopen"
                   [] op = "remove" -> "stat"]]
  /\ UNCHANGED tree

-----------------------------------------------------------------------------
(* createDirectoryRecursively.                                             *)
\* A mutant: a name that is there already ends the call.
ToleratedNone(p) == FALSE
\* EEXIST, whatever it is that exists.
Tolerated(p) == tree[p] # Absent

MakeDirectory(t) ==
  LET p == SubSeq(task[t].path, 1, task[t].depth)
      next == IF task[t].depth < DirsOf(t) THEN [task[t] EXCEPT !.depth = @ + 1]
              ELSE [task[t] EXCEPT !.pc = IF task[t].op = "mkdir" THEN "done" ELSE "fopen"]
  IN /\ task[t].pc = "mkdir"
     /\ \/ /\ IsDirectory(Front(p)) /\ tree[p] = Absent
           /\ tree' = [tree EXCEPT ![p] = Directory]
           /\ task' = [task EXCEPT ![t] = next]
        \/ /\ IsDirectory(Front(p)) /\ Tolerated(p)
           /\ task' = [task EXCEPT ![t] = next] /\ UNCHANGED tree
        \/ /\ ~IsDirectory(Front(p)) \/ (tree[p] # Absent /\ ~Tolerated(p))
           /\ FailsAlone(t)

\* The card is full: mkdir fails with ENOSPC.
MakeDirectoryFails(t) == task[t].pc = "mkdir" /\ FailsAlone(t)

-----------------------------------------------------------------------------
(* write_file_do: truncate, write, close.                                  *)
OpenForWriting(t) ==
  LET p == task[t].path
  IN /\ task[t].op = "writeFile" /\ task[t].pc = "fopen"
     /\ \/ /\ IsDirectory(Front(p)) /\ tree[p] # Directory /\ ~InUse(t, p)
           /\ tree' = [tree EXCEPT ![p] = File(t, 0)]
           /\ Goto(t, "fwrite")
        \/ /\ ~IsDirectory(Front(p)) \/ tree[p] = Directory \/ InUse(t, p)
           /\ FailsAlone(t)

\* fwrite keeps the tail in the buffer, or comes up short on a full card.
WriteBytes(t) ==
  /\ task[t].pc = "fwrite"
  /\ \E n \in 0 .. Units - 1 :
       /\ tree' = [tree EXCEPT ![task[t].path].n = n]
       /\ task' = [task EXCEPT ![t].pc = "fclose", ![t].short = n < Units - 1]

\* A mutant: a short write is not noticed.
WriteEndsWell(t) == Succeeds(t)
\* The length written decides, not what fclose returns.
WriteEnds(t) == IF task[t].short THEN Fails(t) ELSE Succeeds(t)

CloseFlushes(t) ==
  /\ task[t].op = "writeFile" /\ task[t].pc = "fclose"
  /\ tree' = [tree EXCEPT ![task[t].path].n = IF task[t].short THEN @ ELSE Units]
  /\ WriteEnds(t)

\* The flush finds the card full, which nobody asks about.
CloseLoses(t) ==
  /\ task[t].op = "writeFile" /\ task[t].pc = "fclose" /\ ~task[t].short
  /\ task' = [task EXCEPT ![t].pc = "done", ![t].lost = TRUE]
  /\ UNCHANGED tree

-----------------------------------------------------------------------------
(* read_file_do: ENOENT resolves to null; the file stays open for the read.*)
OpenForReading(t) ==
  LET p == task[t].path
  IN /\ task[t].op = "readFile" /\ task[t].pc = "fopen"
     /\ \/ tree[p] = Absent /\ Goto(t, "missing")
        \/ IsFile(p) /\ ~Written(t, p) /\ Goto(t, "fread")
        \/ (tree[p] = Directory \/ Written(t, p)) /\ Fails(t)
     /\ UNCHANGED tree

ReadBytes(t) == task[t].pc = "fread" /\ (Succeeds(t) \/ Fails(t)) /\ UNCHANGED tree

-----------------------------------------------------------------------------
(* removeFileOrDirectory.  dirs is the stack of directories it is in, each *)
(* with the names that were there when it was opened and those it has had. *)
Deepest(t) == Last(task[t].dirs)
Target(t) == IF task[t].dirs = <<>> THEN task[t].path ELSE Deepest(t).entry

\* Back in the directory above, or at the end of the call.
Returns(t) == IF task[t].dirs = <<>> THEN Succeeds(t) ELSE Goto(t, "readdir")

\* A name that is gone is removed; at the top, and for a directory below.
StatRemoved(t) ==
  /\ task[t].pc = "stat"
  /\ \/ tree[Target(t)] = Absent /\ Returns(t)
     \/ IsFile(Target(t)) /\ Goto(t, "unlink")
     \/ tree[Target(t)] = Directory /\ Goto(t, "opendir")
  /\ UNCHANGED tree

OpenDirectory(t) ==
  /\ task[t].pc = "opendir"
  /\ LET p == Target(t)
         opened == [path |-> p, names |-> Children(p), seen |-> {}, entry |-> p]
     IN \/ /\ tree[p] = Directory
           /\ task' = [task EXCEPT ![t].dirs = Append(@, opened), ![t].pc = "readdir"]
        \/ /\ tree[p] # Directory \* opendir fails and rmdir tells
           /\ task' = [task EXCEPT ![t].dirs = Append(@, opened), ![t].pc = "rmdir"]
  /\ UNCHANGED tree

\* readdir may still list a name that has gone, and may or may not list new ones.
ReadDirectory(t) ==
  LET d == Deepest(t)
      k == Len(task[t].dirs)
      now == Children(d.path)
  IN /\ task[t].pc = "readdir"
     /\ \/ \E q \in (d.names \cup now) \ d.seen :
             task' = [task EXCEPT ![t].dirs[k] = [d EXCEPT !.seen = @ \cup {q}, !.entry = q],
                                  ![t].pc = "entry"]
        \/ d.names \cap now \subseteq d.seen /\ Goto(t, "rmdir")
     /\ UNCHANGED tree

\* A file that has gone since it was listed fails the call; a directory is gone into.
StatEntry(t) ==
  /\ task[t].pc = "entry"
  /\ \/ tree[Target(t)] = Absent /\ Fails(t)
     \/ IsFile(Target(t)) /\ Goto(t, "unlink")
     \/ tree[Target(t)] = Directory /\ Goto(t, "stat")
  /\ UNCHANGED tree

Unlink(t) ==
  /\ task[t].pc = "unlink"
  /\ \/ /\ IsFile(Target(t)) /\ ~InUse(t, Target(t))
        /\ tree' = [tree EXCEPT ![Target(t)] = Absent]
        /\ Returns(t)
     \/ /\ ~IsFile(Target(t)) \/ InUse(t, Target(t))
        /\ FailsAlone(t)

\* A mutant: what rmdir says is not asked.
RemovedAnyway(t) == TRUE
Removable(t) == tree[Deepest(t).path] = Directory /\ Children(Deepest(t).path) = {}

RemoveDirectory(t) ==
  LET p == Deepest(t).path
      above == Front(task[t].dirs)
  IN /\ task[t].pc = "rmdir"
     /\ \/ /\ Removable(t)
           /\ tree' = IF Children(p) = {} THEN [tree EXCEPT ![p] = Absent] ELSE tree
           /\ task' = [task EXCEPT ![t].dirs = above,
                                   ![t].pc = IF above = <<>> THEN "done" ELSE "readdir"]
        \/ ~Removable(t) /\ FailsAlone(t)

-----------------------------------------------------------------------------
(* rename_do, for files: the new name must be free and have a directory.   *)
Renamable(t) ==
  /\ IsFile(task[t].path) /\ ~InUse(t, task[t].path)
  /\ tree[task[t].dest] = Absent /\ IsDirectory(Front(task[t].dest))

Rename(t) ==
  /\ task[t].op = "rename" /\ task[t].pc = "fopen"
  /\ \/ /\ Renamable(t)
        /\ tree' = [tree EXCEPT ![task[t].dest] = tree[task[t].path], ![task[t].path] = Absent]
        /\ Succeeds(t)
     \/ ~Renamable(t) /\ FailsAlone(t)

-----------------------------------------------------------------------------
\* The tree is empty, or has a directory with nothing but files left in it.
FilesInit ==
  /\ tree \in {[p \in Paths |-> Absent],
               [p \in Paths |-> IF \E q \in Paths : Front(q) = p THEN Directory ELSE Absent]}
  /\ task = [t \in Tasks |-> NoTask]

Work(t) ==
  \/ MakeDirectory(t) \/ MakeDirectoryFails(t)
  \/ OpenForWriting(t) \/ WriteBytes(t) \/ CloseFlushes(t) \/ CloseLoses(t)
  \/ OpenForReading(t) \/ ReadBytes(t)
  \/ StatRemoved(t) \/ OpenDirectory(t) \/ ReadDirectory(t) \/ StatEntry(t)
  \/ Unlink(t) \/ RemoveDirectory(t) \/ Rename(t)

FilesNext ==
  \E t \in Tasks :
    \/ \E op \in {"mkdir", "writeFile", "readFile", "remove"}, p \in Paths : Call(t, op, p, p)
    \/ \E p, q \in Paths : p # q /\ Len(p) = Len(q) /\ Call(t, "rename", p, q)
    \/ Work(t) \/ Settle(t)

FilesSpec == FilesInit /\ [][FilesNext]_filesVars

-----------------------------------------------------------------------------
(* Calls that make the same directories at once do not fail for it: where  *)
(* no file is in the way, nothing is removed and the card has room, mkdir  *)
(* and writeFile get their directories (fs.cc 53-72).                      *)
MakersDontCollide ==
  [][\A t \in Tasks :
       /\ task[t].pc = "mkdir" /\ MakeDirectory(t)
       /\ \A u \in Tasks : task[u].op \in {"none", "mkdir", "writeFile"}
       /\ \A p \in Paths : IsFile(p) => ~IsPrefix(p, task[t].path)
       => task'[t].pc # "error"]_filesVars

(* A file of a write that resolved holds all of it, unless the last flush  *)
(* found the card full: write_file_do does not look at what fclose returns *)
(* (fs.cc 593), and such a write resolves with a file that is short.       *)
WholeOrRejected ==
  \A p \in Paths :
    IsFile(p) => LET t == tree[p].by
                 IN task[t].pc \in {"done", "resolved"} /\ ~task[t].lost /\ task[t].path = p
                      => tree[p].n = Units

(* When a remove ends well, nothing of what it was asked to remove is      *)
(* there, whatever was written into it meanwhile (fs.cc 74-110).           *)
RemovedIsGone ==
  [][\A t \in Tasks :
       task[t].op = "remove" /\ task[t].pc # "done" /\ task'[t].pc = "done" =>
         \A p \in Paths : IsPrefix(task[t].path, p) => tree'[p] = Absent]_filesVars

(* Calls of the pool that overlap on a tree: two makers of a directory do  *)
(* not fail each other, a write that came up short is rejected (but for    *)
(* one that lost its tail in the last flush), and what was removed is gone *)
(* (fs.cc).  Reads take part by keeping files open; what one returns is    *)
(* left to the file system.                                                *)
TreeKept == []WholeOrRejected /\ MakersDontCollide /\ RemovedIsGone
=============================================================================
