------------------------------- MODULE DataDb -------------------------------
(***************************************************************************)
(* component/filedb: DATADB, functions on files and directories.  One call *)
(* runs at a time; every system call of it is a step and may fail, and the *)
(* process may die between two of them.  The recursion of DirCopy() and    *)
(* _delete_dir() is a stack of frames.                                     *)
(***************************************************************************)
EXTENDS Integers, Sequences, SequencesExt, FiniteSets

CONSTANTS
  Names,     \* names of directory entries; of the characters the shell treats
             \* specially only blanks and wildcards occur in them
  Split,     \* the names with a blank or a wildcard: not one word for the shell
  MaxDepth,  \* bound: names of a path, in the file system the program finds
  MaxNodes,  \* bound: files and directories the program finds
  Lengths,   \* buffers (of BUFFER_SIZE bytes) a file has that is found or saved
  MaxFails,  \* bound: system calls that fail
  MaxCalls,  \* bound: calls of DATADB
  MaxWords   \* bound: words the shell makes of one path

ASSUME DataDbAssumption ==
  /\ {MaxDepth, MaxNodes, MaxFails, MaxCalls, MaxWords} \subseteq Nat
  /\ Lengths \subseteq Nat
  /\ Split \subseteq Names
  /\ {".", ".."} \cap Names = {}

\* Paths are absolute, without "." and "..".
Paths == UNION {[1..n -> Names] : n \in 1..MaxDepth}
Root == <<>>

VARIABLES
  dirs,   \* paths of the directories
  files,  \* contents of the files, by path
  stack,  \* frames of the running call, the innermost last
  ret,    \* what the last call returned
  call,   \* ghost: the running or last call
  before, \* ghost: dirs and files when it started
  fails,  \* ghost: system calls that failed
  calls   \* ghost: number of calls

fs   == <<dirs, files>>
vars == <<dirs, files, stack, ret, call, before, fails, calls>>

\* The k-th buffer of the file found at path f, or of the data of save_file().
Found(f, k) == <<f, k>>
Data(k) == <<Root, k>>

\* A directory tree: the parent of every node is a directory.
Tree(d, f) == \A q \in (d \ {Root}) \cup f : Front(q) \in d

Init ==
  /\ \E nodes \in {q \in SUBSET Paths : Cardinality(q) <= MaxNodes} :
       \E d \in SUBSET nodes :
         /\ Tree(d \cup {Root}, nodes \ d)
         /\ dirs = d \cup {Root}
         /\ \E length \in [nodes \ d -> Lengths] :
              files = [q \in nodes \ d |-> [k \in 1..length[q] |-> Found(q, k)]]
  /\ stack = <<>>
  /\ ret = "none"
  /\ call = [fun |-> "none", src |-> Root, dst |-> Root, len |-> 0]
  /\ before = [dirs |-> dirs, files |-> files]
  /\ fails = 0
  /\ calls = 0

-----------------------------------------------------------------------------
(* The file system.                                                         *)

IsFile(q) == q \in DOMAIN files
IsDirectory(q) == q \in dirs
Exists(q) == IsFile(q) \/ IsDirectory(q)

\* What readdir() returns of directory q, and where a path with that name leads.
Entries(q) == {".", ".."} \cup {n \in Names : Exists(Append(q, n))}
Walk(q, n) ==
  CASE n = "." -> q
    [] n = ".." -> IF q = Root THEN Root ELSE Front(q)
    [] OTHER -> Append(q, n)

Put(q, c) == files' = [p \in DOMAIN files \cup {q} |-> IF p = q THEN c ELSE files[p]]
Unlink(q) == files' = [p \in DOMAIN files \ {q} |-> files[p]]

\* A file may be created or opened for writing at q.
Writable(q) == q # Root /\ ~IsDirectory(q) /\ IsDirectory(Front(q))

\* write() of one buffer at position k.
Overwrite(c, k, b) == [j \in 1..(IF k > Len(c) THEN k ELSE Len(c)) |-> IF j = k THEN b ELSE c[j]]

\* A system call fails without effect.
Fails == fails < MaxFails /\ fails' = fails + 1

-----------------------------------------------------------------------------
(* Frames.                                                                  *)

Top == Last(stack)
In(f, l) == stack # <<>> /\ Top.fun = f /\ Top.pc = l

Frame(f, s, d) ==
  [fun |-> f, pc |-> "start", src |-> s, dst |-> d, had |-> {}, done |-> {}, k |-> 0, w |-> 0]

\* The function at the top returns r: to the caller of DATADB, or to a frame
\* that does not look at r.
Return(r) ==
  /\ stack' = Front(stack)
  /\ ret' = IF Len(stack) = 1 THEN r ELSE ret

\* The function at the top goes on with frame f.
Become(f) == stack' = Append(Front(stack), f) /\ UNCHANGED ret

\* It goes on with frame f after the function of frame g returned.
CallFrom(f, g) == stack' = Front(stack) \o <<f, g>> /\ UNCHANGED ret

ghosts == <<call, before, calls>>

\* The process dies.
Dies == stack' = <<>> /\ ret' = "died" /\ UNCHANGED fs

Start(f, s, d, n) ==
  /\ call' = [fun |-> f, src |-> s, dst |-> d, len |-> n]
  /\ before' = [dirs |-> dirs, files |-> files]
  /\ ret' = "none"
  /\ stack' = <<Frame(f, s, d)>>
  /\ fails' = 0
  /\ UNCHANGED fs

Crash ==
  /\ stack # <<>>
  /\ Dies
  /\ UNCHANGED <<ghosts, fails>>

-----------------------------------------------------------------------------
(* CreateDir(): the missing directories of a path, from the outside in.     *)

\* Fault: the loop does not advance over a directory that exists.
NextComponent_Same(t) == t
NextComponent(t) == [t EXCEPT !.k = @ + 1]

\* The fault misses the last component, as without the "/" put after it.
AllMade_ButLast(t) == t.k + 1 >= Len(t.dst)
AllMade(t) == t.k = Len(t.dst)

MakeDir ==
  LET t == Top
      q == SubSeq(t.dst, 1, t.k + 1)
  IN /\ In("CreateDir", "start")
     /\ \/ AllMade(t) /\ Return("success") /\ UNCHANGED <<fs, fails>>
        \/ /\ ~AllMade(t)
           /\ \/ Exists(q) /\ Become(NextComponent(t)) /\ UNCHANGED <<fs, fails>>
              \/ /\ ~Exists(q) /\ IsDirectory(Front(q))
                 /\ dirs' = dirs \cup {q}
                 /\ Become(NextComponent(t))
                 /\ UNCHANGED <<files, fails>>
              \/ /\ ~Exists(q) /\ ~IsDirectory(Front(q))
                 /\ Return("failure")
                 /\ UNCHANGED <<fs, fails>>
              \/ Fails /\ Return("failure") /\ UNCHANGED fs
     /\ UNCHANGED ghosts

-----------------------------------------------------------------------------
(* FileCopy().                                                              *)

\* dstfn: a directory is given the name of the source.
CopyTarget(s, d) == IF IsDirectory(d) THEN Append(d, Last(s)) ELSE d

\* access() of the source, and dstfn.
CopyAccess ==
  LET t == Top
  IN /\ In("FileCopy", "start")
     /\ \/ /\ Exists(t.src)
           /\ Become([t EXCEPT !.pc = "open", !.dst = CopyTarget(t.src, t.dst)])
           /\ UNCHANGED fails
        \/ ~Exists(t.src) /\ Return("failure") /\ UNCHANGED fails
        \/ Fails /\ Return("failure")
     /\ UNCHANGED <<fs, ghosts>>

\* open() of the source and of the destination, which is not truncated and is
\* created even if the source could not be opened.
CopyOpen ==
  LET t == Top
      Create == IF IsFile(t.dst) THEN UNCHANGED files ELSE Put(t.dst, <<>>)
  IN /\ In("FileCopy", "open")
     /\ \/ /\ Writable(t.dst) /\ Create
           /\ Become([t EXCEPT !.pc = "copy"])
           /\ UNCHANGED fails
        \/ ~Writable(t.dst) /\ Return("failure") /\ UNCHANGED <<files, fails>>
        \/ /\ Fails
           /\ Return("failure")
           /\ UNCHANGED files \/ (Writable(t.dst) /\ Create)
     /\ UNCHANGED <<dirs, ghosts>>

\* read() returned 0; the fault stops at the last buffer.
AtEnd_LastBuffer(k, c) == k + 1 >= Len(c)
AtEnd(k, c) == k = Len(c)

\* read() of a buffer and write() of it: k buffers are read, w written.
CopyChunk ==
  LET t == Top
      c == files[t.src]
  IN /\ In("FileCopy", "copy")
     /\ \/ /\ IsFile(t.src) /\ ~AtEnd(t.k, c)
           /\ Put(t.dst, Overwrite(files[t.dst], t.w + 1, c[t.k + 1]))
           /\ Become([t EXCEPT !.k = @ + 1, !.w = @ + 1])
           /\ UNCHANGED fails
        \/ IsFile(t.src) /\ AtEnd(t.k, c) /\ Return("success") /\ UNCHANGED <<files, fails>>
        \/ ~IsFile(t.src) /\ Return("failure") /\ UNCHANGED <<files, fails>>
        \/ Fails /\ Return("failure") /\ UNCHANGED files
        \/ /\ IsFile(t.src) /\ ~AtEnd(t.k, c) /\ Fails
           /\ Become([t EXCEPT !.k = @ + 1])
           /\ UNCHANGED files
     /\ UNCHANGED <<dirs, ghosts>>

-----------------------------------------------------------------------------
(* DirCopy().                                                               *)

\* IsDir() of the source, opendir(), CreateDir() of the destination; a failed
\* opendir() is not noticed.
DirCopyStart ==
  LET t == Top
  IN /\ In("DirCopy", "start")
     /\ \/ /\ IsFile(t.src)
           /\ CallFrom([t EXCEPT !.pc = "end"], Frame("FileCopy", t.src, t.dst))
           /\ UNCHANGED <<fs, fails>>
        \/ ~Exists(t.src) /\ Return("failure") /\ UNCHANGED <<fs, fails>>
        \/ /\ IsDirectory(t.src)
           /\ CallFrom([t EXCEPT !.pc = "scan", !.had = Entries(t.src)],
                       Frame("CreateDir", t.src, t.dst))
           /\ UNCHANGED <<fs, fails>>
        \/ Fails /\ Return("failure") /\ UNCHANGED fs
        \/ /\ IsDirectory(t.src) /\ Fails
           /\ CallFrom([t EXCEPT !.pc = "null"], Frame("CreateDir", t.src, t.dst))
           /\ UNCHANGED fs
     /\ UNCHANGED ghosts

\* readdir() of the null pointer opendir() returned.
DirCopyNull == In("DirCopy", "null") /\ Dies /\ UNCHANGED <<fails, ghosts>>

\* readdir() returns what was there when the directory was opened, and may or
\* may not return what came later.
NextEntries(t) == Entries(t.src) \ t.done
ScanEnds(t) == NextEntries(t) \cap t.had = {}

\* The entries that are passed over; the fault forgets the parent.
Skipped_DotOnly(n) == n = "."
Skipped(n) == n \in {".", ".."}

\* An error of readdir() ends the loop like its end.
DirCopyEntry ==
  LET t == Top
  IN /\ In("DirCopy", "scan")
     /\ \/ \E n \in NextEntries(t) :
             LET from == Walk(t.src, n)
                 next == [t EXCEPT !.done = @ \cup {n}]
             IN \/ Skipped(n) /\ Become(next) /\ UNCHANGED fails
                \/ /\ ~Skipped(n) /\ IsDirectory(from)
                   /\ CallFrom(next, Frame("DirCopy", from, Walk(t.dst, n)))
                   /\ UNCHANGED fails
                \/ /\ ~Skipped(n) /\ IsFile(from)
                   /\ CallFrom(next, Frame("FileCopy", from, Walk(t.dst, n)))
                   /\ UNCHANGED fails
                \/ Fails /\ Become(next)
        \/ ScanEnds(t) /\ Return("success") /\ UNCHANGED fails
        \/ Fails /\ Return("success")
     /\ UNCHANGED <<fs, ghosts>>

DirCopyEnd == In("DirCopy", "end") /\ Return("success") /\ UNCHANGED <<fs, fails, ghosts>>

-----------------------------------------------------------------------------
(* delete_dir() and delete_file().                                          *)

\* access() and opendir().
DeleteStart ==
  LET t == Top
  IN /\ In("delete_dir", "start")
     /\ \/ /\ IsDirectory(t.src)
           /\ Become([t EXCEPT !.pc = "scan", !.had = Entries(t.src)])
           /\ UNCHANGED fails
        \/ ~IsDirectory(t.src) /\ Return("failure") /\ UNCHANGED fails
        \/ Fails /\ Return("failure")
     /\ UNCHANGED <<fs, ghosts>>

DeleteEntry ==
  LET t == Top
  IN /\ In("delete_dir", "scan")
     /\ \/ \E n \in NextEntries(t) :
             LET q == Walk(t.src, n)
                 next == [t EXCEPT !.done = @ \cup {n}]
             IN \/ Skipped(n) /\ Become(next) /\ UNCHANGED <<files, fails>>
                \/ /\ ~Skipped(n) /\ IsDirectory(q)
                   /\ CallFrom(next, Frame("delete_dir", q, q))
                   /\ UNCHANGED <<files, fails>>
                \/ /\ ~Skipped(n) /\ IsFile(q)
                   /\ Unlink(q)
                   /\ Become(next)
                   /\ UNCHANGED fails
                \/ /\ ~Skipped(n) /\ IsFile(q) /\ Fails
                   /\ Become(next)
                   /\ UNCHANGED files
        \/ /\ ScanEnds(t)
           /\ Become([t EXCEPT !.pc = "remove"])
           /\ UNCHANGED <<files, fails>>
        \/ Fails /\ Become([t EXCEPT !.pc = "remove"]) /\ UNCHANGED files
     /\ UNCHANGED <<dirs, ghosts>>

\* Fault: a failed remove() is passed over.
DeleteSelf_PassedOver ==
  LET t == Top
      empty == Entries(t.src) = {".", ".."}
  IN /\ In("delete_dir", "remove")
     /\ \/ empty /\ dirs' = dirs \ {t.src} /\ Return("success") /\ UNCHANGED <<files, fails>>
        \/ ~empty /\ Return("success") /\ UNCHANGED <<fs, fails>>
     /\ UNCHANGED ghosts

\* remove() of the directory; if it fails, the message about it reads through
\* the null pointer readdir() ended with.
DeleteSelf ==
  LET t == Top
      empty == Entries(t.src) = {".", ".."}
  IN /\ In("delete_dir", "remove")
     /\ \/ empty /\ dirs' = dirs \ {t.src} /\ Return("success") /\ UNCHANGED <<files, fails>>
        \/ ~empty /\ Dies /\ UNCHANGED fails
        \/ Fails /\ Dies
     /\ UNCHANGED ghosts

\* remove() takes a file or an empty directory.
DeleteFile ==
  LET q == Top.src
  IN /\ In("delete_file", "start")
     /\ \/ IsFile(q) /\ Unlink(q) /\ Return("success") /\ UNCHANGED <<dirs, fails>>
        \/ /\ IsDirectory(q) /\ Entries(q) = {".", ".."}
           /\ dirs' = dirs \ {q}
           /\ Return("success")
           /\ UNCHANGED <<files, fails>>
        \/ /\ ~Exists(q) \/ (IsDirectory(q) /\ Entries(q) # {".", ".."})
           /\ Return("failure")
           /\ UNCHANGED <<fs, fails>>
        \/ Fails /\ Return("failure") /\ UNCHANGED fs
     /\ UNCHANGED ghosts

-----------------------------------------------------------------------------
(* save_file().                                                             *)

\* strdup() of the path and "mkdir -p" of the parent, whose result is ignored.
Parents(q) == {SubSeq(q, 1, n) : n \in 0..(Len(q) - 1)}

\* The shell takes the path of the parent, which is not quoted, as it is.
OneWord(q) == \A k \in 1..(Len(q) - 1) : q[k] \notin Split

\* "mkdir -p" of words that have nothing to do with the path, as far as it comes.
MakeWords(words) ==
  LET free == {w \in words : \A q \in Parents(w) \cup {w} : ~IsFile(q)}
  IN dirs' = dirs \cup UNION {Parents(w) \cup {w} : w \in free}

SaveParents ==
  LET t == Top
      missing == {q \in Parents(t.dst) : ~Exists(q)}
      blocked == \E q \in Parents(t.dst) : IsFile(q)
  IN /\ In("save_file", "start")
     /\ \/ /\ OneWord(t.dst)
           /\ dirs' = IF blocked THEN dirs ELSE dirs \cup missing
           /\ Become([t EXCEPT !.pc = "open"])
           /\ UNCHANGED fails
        \/ /\ OneWord(t.dst) /\ Fails /\ ~blocked
           /\ \E n \in 0..Len(t.dst) : dirs' = dirs \cup {q \in missing : Len(q) < n}
           /\ Become([t EXCEPT !.pc = "open"])
        \/ /\ ~OneWord(t.dst)
           /\ \E words \in [1..MaxWords -> Paths \cup {Root}] : MakeWords(Range(words))
           /\ Become([t EXCEPT !.pc = "open"])
           /\ UNCHANGED fails
        \/ Fails /\ Return("failure") /\ UNCHANGED dirs
     /\ UNCHANGED <<files, ghosts>>

\* Fault: fopen(abs_path, "ab").
SaveOpen_Append ==
  LET t == Top
  IN /\ In("save_file", "open")
     /\ Writable(t.dst)
     /\ Put(t.dst, IF IsFile(t.dst) THEN files[t.dst] ELSE <<>>)
     /\ Become([t EXCEPT !.pc = "write"])
     /\ UNCHANGED <<dirs, fails, ghosts>>

\* fopen(abs_path, "wb"), which truncates the file; a null data pointer is one of
\* the failures before it.
SaveOpen ==
  LET t == Top
  IN /\ In("save_file", "open")
     /\ \/ Writable(t.dst) /\ Put(t.dst, <<>>) /\ Become([t EXCEPT !.pc = "write"]) /\ UNCHANGED fails
        \/ ~Writable(t.dst) /\ Return("failure") /\ UNCHANGED <<files, fails>>
        \/ Fails /\ Return("failure") /\ UNCHANGED files
     /\ UNCHANGED <<dirs, ghosts>>

\* fwrite(), fclose(), sync(): a short write is not noticed.
SaveWrite ==
  LET t == Top
  IN /\ In("save_file", "write")
     /\ \/ /\ t.k < call.len
           /\ Put(t.dst, Append(files[t.dst], Data(t.k + 1)))
           /\ Become([t EXCEPT !.k = @ + 1])
           /\ UNCHANGED fails
        \/ t.k = call.len /\ Return("success") /\ UNCHANGED <<files, fails>>
        \/ t.k < call.len /\ Fails /\ Return("success") /\ UNCHANGED files
     /\ UNCHANGED <<dirs, ghosts>>

-----------------------------------------------------------------------------

\* A directory is not copied into itself: the copy would be copied again.
Inside(q, d) == IsStrictPrefix(d, q)

Call ==
  /\ stack = <<>> /\ calls < MaxCalls
  /\ calls' = calls + 1
  /\ \/ \E s, d \in Paths : ~Inside(d, s) /\ Start("DirCopy", s, d, 0)
     \/ \E s, d \in Paths : Start("FileCopy", s, d, 0)
     \/ \E q \in Paths :
          \/ \E f \in {"CreateDir", "delete_dir", "delete_file"} : Start(f, q, q, 0)
          \/ \E n \in Lengths : Start("save_file", q, q, n)

Run ==
  \/ MakeDir \/ CopyAccess \/ CopyOpen \/ CopyChunk
  \/ DirCopyStart \/ DirCopyNull \/ DirCopyEntry \/ DirCopyEnd
  \/ DeleteStart \/ DeleteEntry \/ DeleteSelf \/ DeleteFile
  \/ SaveParents \/ SaveOpen \/ SaveWrite

Next == Call \/ Run \/ Crash

Spec == Init /\ [][Next]_vars
FairSpec == Spec /\ WF_vars(Run)

-----------------------------------------------------------------------------
(* Properties.                                                              *)

Funs == {"DirCopy", "FileCopy", "CreateDir", "delete_dir", "delete_file", "save_file"}

\* The variables have their types, the file system is a tree, and the functions
\* of DATADB call one another no deeper than the path they work on.
TypeOK ==
  /\ \A q \in dirs \cup DOMAIN files : q \in Seq(Names)
  /\ Root \in dirs /\ Tree(dirs, DOMAIN files) /\ dirs \cap DOMAIN files = {}
  /\ \A q \in DOMAIN files : files[q] \in Seq(Seq(Names) \X Nat)
  /\ \A j \in DOMAIN stack : stack[j].fun \in Funs /\ j <= Len(stack[j].src) + 1
  /\ ret \in {"none", "died", "success", "failure"}
  /\ fails \in 0..MaxFails /\ calls \in 0..MaxCalls

Below(q, d) == IsPrefix(d, q)

\* A save_file() whose "mkdir -p" makes what it was not asked for.
CutUp == call.fun = "save_file" /\ ~OneWord(call.dst)

\* Whatever fails and wherever the process dies: a call changes no file that is
\* not at or below its destination, and of the directories elsewhere it only
\* makes missing parents of it - except save_file() of a path whose parents the
\* shell cuts up, which may make others but takes none away.
NothingElse ==
  call.fun # "none" =>
    /\ \A q \in DOMAIN files \cup DOMAIN before.files :
         \/ Below(q, call.dst)
         \/ q \in DOMAIN files /\ q \in DOMAIN before.files /\ files[q] = before.files[q]
    /\ \A q \in before.dirs \ dirs : Below(q, call.dst)
    /\ \A q \in dirs \ before.dirs :
         Below(q, call.dst) \/ Below(call.dst, q) \/ CutUp

Returned(f) == stack = <<>> /\ call.fun = f /\ ret = "success"

\* delete_dir() reports success only when nothing is left, although it ignores
\* every failure on the way.
DeleteDone == Returned("delete_dir") => \A q \in dirs \cup DOMAIN files : ~Below(q, call.src)

\* What f held is now at d, over what was there.
Copied(f, d) ==
  /\ d \in DOMAIN files
  /\ IsPrefix(before.files[f], files[d])
  /\ d \in DOMAIN before.files =>
       \A j \in (Len(before.files[f]) + 1)..Len(before.files[d]) : files[d][j] = before.files[d][j]

\* Where DirCopy() puts q, and whether the trees fit on one another.
Moved(q) == call.dst \o SubSeq(q, Len(call.src) + 1, Len(q))
Fits ==
  /\ ~Below(call.src, call.dst) /\ ~Below(call.dst, call.src)
  /\ \A q \in before.dirs : Below(q, call.src) => Moved(q) \notin DOMAIN before.files
  /\ \A q \in DOMAIN before.files : Below(q, call.src) => Moved(q) \notin before.dirs
  /\ \A q \in DOMAIN before.files : ~IsStrictPrefix(q, call.dst)
  /\ call.src \in DOMAIN before.files => Front(call.dst) \in before.dirs

FileCopied ==
  Copied(call.src, IF call.dst \in before.dirs THEN Append(call.dst, Last(call.src)) ELSE call.dst)
DirCopied ==
  /\ \A q \in before.dirs : Below(q, call.src) => Moved(q) \in dirs
  /\ \A q \in DOMAIN before.files : Below(q, call.src) => Copied(q, Moved(q))

\* After FileCopy() that met no failure the destination holds the source, and the
\* rest of a longer old file; after DirCopy() every directory and every file of
\* the source is in the destination, although the results of its calls are ignored.
CopyDone ==
  fails = 0 =>
    /\ Returned("FileCopy") => FileCopied
    /\ Returned("DirCopy") /\ Fits => DirCopied

\* save_file(): at any time, and after any failure or death in it, the file is
\* as before or holds the first buffers of the data; all of them if it
\* succeeded without a failure.
SaveDone ==
  call.fun = "save_file" =>
    LET data == [k \in 1..call.len |-> Data(k)]
        as_before == /\ IsFile(call.dst) <=> call.dst \in DOMAIN before.files
                     /\ IsFile(call.dst) => files[call.dst] = before.files[call.dst]
    IN /\ as_before \/ (IsFile(call.dst) /\ IsPrefix(files[call.dst], data))
       /\ ret = "success" /\ fails = 0 => IsFile(call.dst) /\ files[call.dst] = data

\* Every call returns, or the process dies.
Returns == stack # <<>> ~> stack = <<>>
=============================================================================
