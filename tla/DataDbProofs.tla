----------------------------- MODULE DataDbProofs -----------------------------
(***************************************************************************)
(* Proofs about DataDb, for every tree of files and directories, every     *)
(* sequence of calls, every failure and wherever the process dies.         *)
(***************************************************************************)
EXTENDS DataDb, SequenceTheorems, FiniteSetTheorems, WellFoundedInduction, TLAPS

\* Labels and fields of a frame, and the buffers of a file.
Labels == {"start", "open", "copy", "end", "scan", "null", "remove", "write"}
EntryNames == {".", ".."} \cup Names
Frames ==
  [fun : Funs, pc : Labels, src : Seq(Names), dst : Seq(Names),
   had : SUBSET EntryNames, done : SUBSET EntryNames, k : Nat, w : Nat]
Buffers == Seq(Names) \X Nat

\* The functions that call others.
Walkers == {"DirCopy", "delete_dir"}

\* A frame of call c works on a path, towards a place at or below the destination;
\* who deletes has one path only and calls who deletes.
FrameOK(t, c) ==
  /\ t \in Frames
  /\ Len(t.src) > 0 /\ Below(t.dst, c.dst)
  /\ t.fun \in {"delete_dir", "delete_file"} => t.src = t.dst
  /\ t.fun \in {"delete_file", "save_file"} => t.dst = c.dst
  /\ c.fun = "delete_dir" => t.fun = "delete_dir"
  /\ t.fun = "save_file" => c.fun = "save_file"
  /\ t.fun = "CreateDir" => t.k <= Len(t.dst)
  /\ t.fun = "FileCopy" => t.pc \in {"start", "open", "copy"} /\ t.w <= t.k
  /\ t.fun = "FileCopy" /\ t.pc # "copy" => t.k = 0

\* How deep frame t may stand.
Deep(t) == Len(t.src) + (IF t.fun \in Walkers THEN 0 ELSE 1)

\* The frames of the running call: only walkers call, each on an entry of its
\* directory.
StackOK ==
  /\ stack \in Seq(Frames)
  /\ \A j \in 1..Len(stack) :
       /\ FrameOK(stack[j], call)
       /\ j < Len(stack) => stack[j].fun \in Walkers
       /\ j <= Deep(stack[j])

\* The files that frame t has open are there, and as long as it has read and
\* written them.
OpenFor(t) ==
  /\ t.fun = "FileCopy" /\ t.pc = "copy" =>
       /\ IsFile(t.dst) /\ t.w <= Len(files[t.dst])
       /\ IsFile(t.src) => t.k <= Len(files[t.src])
  /\ t.fun = "save_file" /\ t.pc = "write" => IsFile(t.dst)
OpenOK == stack # <<>> => OpenFor(Top)

\* The call and what it found have their types.
CallOK ==
  /\ stack # <<>> => call.fun \in Funs
  /\ call.fun \in Funs \cup {"none"}
  /\ call.src \in Seq(Names) /\ call.dst \in Seq(Names) /\ call.len \in Nat
  /\ call.fun # "none" => Len(call.dst) > 0 /\ Len(call.src) > 0

\* The file system is a tree of well-formed paths.
FilesOK ==
  /\ \A q \in dirs \cup DOMAIN files : q \in Seq(Names)
  /\ Root \in dirs /\ Tree(dirs, DOMAIN files) /\ dirs \cap DOMAIN files = {}
  /\ \A q \in DOMAIN files : files[q] \in Seq(Buffers)

\* The first frame is that of the function called, which has not returned.
BottomOK ==
  stack # <<>> => /\ ret = "none"
                  /\ stack[1].fun = call.fun /\ stack[1].src = call.src

\* The results and the counters.
ResultOK ==
  /\ ret \in {"none", "died", "success", "failure"}
  /\ fails \in 0..MaxFails /\ calls \in 0..MaxCalls

\* The invariant, but for the file system.
Control == StackOK /\ OpenOK /\ CallOK /\ ResultOK /\ BottomOK

-----------------------------------------------------------------------------
(* Paths.                                                                   *)

\* The empty path is the only one without names.
LEMMA RootIs ==
  ASSUME NEW q \in Seq(Names)
  PROVE  Len(q) \in Nat /\ (q = Root <=> Len(q) = 0) /\ Root \in Seq(Names)
  BY EmptySeq, LenProperties DEF Root

\* A path is its names.
LEMMA PathEqual ==
  ASSUME NEW q \in Seq(Names), NEW r \in Seq(Names),
         Len(q) = Len(r), \A i \in 1..Len(q) : q[i] = r[i]
  PROVE  q = r
  BY SeqEqual

\* The first names of a path, or buffers of a file.
LEMMA Initial ==
  ASSUME NEW S, NEW q \in Seq(S), NEW n \in 0..Len(q)
  PROVE  /\ SubSeq(q, 1, n) \in Seq(S)
         /\ Len(SubSeq(q, 1, n)) = n
         /\ \A i \in 1..n : SubSeq(q, 1, n)[i] = q[i]
<1>1. n \in Int /\ \A i \in 1..n : q[i] \in S
  BY LenProperties, ElementOfSeq
<1> QED
  BY <1>1, SubSeqProperties, LenProperties

\* One sequence starts with another.
LEMMA PrefixIs ==
  ASSUME NEW S, NEW q \in Seq(S), NEW d \in Seq(S)
  PROVE  IsPrefix(d, q) <=> Len(d) <= Len(q) /\ \A i \in 1..Len(d) : q[i] = d[i]
<1>1. SubSeq(d, 1, Len(d)) = d
  BY SubSeqFull
<1>2. ASSUME Len(d) <= Len(q)
      PROVE  SubSeq(q, 1, Len(d)) = d <=> \A i \in 1..Len(d) : q[i] = d[i]
  <2>1. Len(d) \in 0..Len(q)
    BY <1>2, LenProperties
  <2>2. /\ SubSeq(q, 1, Len(d)) \in Seq(S) /\ Len(SubSeq(q, 1, Len(d))) = Len(d)
        /\ \A i \in 1..Len(d) : SubSeq(q, 1, Len(d))[i] = q[i]
    BY <2>1, Initial
  <2> QED
    BY <2>2, SeqEqual
<1> QED
  BY <1>1, <1>2 DEF IsPrefix

\* One path is at or below another if it starts with its names.
LEMMA BelowIs ==
  ASSUME NEW q \in Seq(Names), NEW d \in Seq(Names)
  PROVE  Below(q, d) <=> Len(d) <= Len(q) /\ \A i \in 1..Len(d) : q[i] = d[i]
  BY PrefixIs DEF Below

\* A path is below itself, and the relation is transitive.
LEMMA BelowOrder ==
  /\ \A q \in Seq(Names) : Below(q, q)
  /\ \A q, r, d \in Seq(Names) : Below(q, r) /\ Below(r, d) => Below(q, d)
<1>1. \A q \in Seq(Names) : Below(q, q)
  BY BelowIs, RootIs
<1>2. ASSUME NEW q \in Seq(Names), NEW r \in Seq(Names), NEW d \in Seq(Names),
             Below(q, r), Below(r, d)
      PROVE  Below(q, d)
  BY <1>2, BelowIs, RootIs
<1> QED
  BY <1>1, <1>2

\* An entry of a directory is below what the directory is below.
LEMMA EntryBelow ==
  ASSUME NEW q \in Seq(Names), NEW n \in Names
  PROVE  /\ Append(q, n) \in Seq(Names) /\ Len(Append(q, n)) = Len(q) + 1
         /\ Below(Append(q, n), q)
         /\ \A d \in Seq(Names) : Below(q, d) => Below(Append(q, n), d)
<1>1. /\ Append(q, n) \in Seq(Names) /\ Len(Append(q, n)) = Len(q) + 1
      /\ \A i \in 1..Len(q) : Append(q, n)[i] = q[i]
  BY LenProperties
<1>2. Below(Append(q, n), q)
  <2>1. PICK a \in Seq(Names) : a = Append(q, n)
    BY <1>1
  <2>2. Len(q) \in Nat /\ Len(a) = Len(q) + 1 /\ \A i \in 1..Len(q) : a[i] = q[i]
    BY <1>1, <2>1, RootIs
  <2>3. Below(a, q)
    BY <2>2, BelowIs
  <2> QED
    BY <2>1, <2>3
<1> QED
  BY <1>1, <1>2, BelowOrder

\* The directory an entry is in, and the entry of that name in it.
LEMMA FrontIs ==
  ASSUME NEW q \in Seq(Names)
  PROVE  /\ \A n \in Names : Front(Append(q, n)) = q
         /\ q # Root => /\ Front(q) \in Seq(Names) /\ Len(Front(q)) = Len(q) - 1
                        /\ Last(q) \in Names /\ q = Append(Front(q), Last(q))
                        /\ \A i \in 1..(Len(q) - 1) : Front(q)[i] = q[i]
<1>1. ASSUME NEW n \in Names
      PROVE  Front(Append(q, n)) = q
  <2>1. /\ Append(q, n) \in Seq(Names) /\ Len(Append(q, n)) = Len(q) + 1
        /\ \A i \in 1..Len(q) : Append(q, n)[i] = q[i]
    BY LenProperties
  <2>2. Len(q) \in 0..Len(Append(q, n)) /\ Len(Append(q, n)) - 1 = Len(q)
    BY <2>1, RootIs
  <2>3. /\ Front(Append(q, n)) \in Seq(Names) /\ Len(Front(Append(q, n))) = Len(q)
        /\ \A i \in 1..Len(q) : Front(Append(q, n))[i] = Append(q, n)[i]
    BY <2>1, <2>2, Initial DEF Front
  <2> QED
    BY <2>1, <2>3, PathEqual
<1>2. ASSUME q # Root
      PROVE  /\ Front(q) \in Seq(Names) /\ Len(Front(q)) = Len(q) - 1
             /\ Last(q) \in Names /\ q = Append(Front(q), Last(q))
             /\ \A i \in 1..(Len(q) - 1) : Front(q)[i] = q[i]
  <2>1. Len(q) \in Nat \ {0} /\ Len(q) - 1 \in 0..Len(q)
    BY <1>2, RootIs
  <2>2. /\ Front(q) \in Seq(Names) /\ Len(Front(q)) = Len(q) - 1
        /\ \A i \in 1..(Len(q) - 1) : Front(q)[i] = q[i]
    BY <2>1, Initial DEF Front
  <2>3. Last(q) \in Names /\ Last(q) = q[Len(q)]
    BY <2>1, ElementOfSeq DEF Last
  <2>4. /\ Append(Front(q), Last(q)) \in Seq(Names) /\ Len(Append(Front(q), Last(q))) = Len(q)
        /\ \A i \in 1..Len(q) : Append(Front(q), Last(q))[i] = q[i]
    BY <2>1, <2>2, <2>3
  <2> QED
    BY <2>2, <2>3, <2>4, PathEqual
<1> QED
  BY <1>1, <1>2

\* The directory an ancestor is in.
LEMMA InitialFront ==
  ASSUME NEW q \in Seq(Names), NEW n \in 1..Len(q)
  PROVE  Front(SubSeq(q, 1, n)) = SubSeq(q, 1, n - 1) /\ SubSeq(q, 1, n) # Root
<1>1. Len(q) \in Nat /\ n \in 0..Len(q) /\ n - 1 \in 0..Len(q)
  BY RootIs
<1>2. PICK a \in Seq(Names) : a = SubSeq(q, 1, n) /\ Len(a) = n /\ \A i \in 1..n : a[i] = q[i]
  BY <1>1, Initial
<1>3. PICK p \in Seq(Names) : /\ p = SubSeq(q, 1, n - 1) /\ Len(p) = n - 1
                              /\ \A i \in 1..(n - 1) : p[i] = q[i]
  BY <1>1, Initial
<1>4. a # Root
  BY <1>2, RootIs
<1>5. PICK f \in Seq(Names) : f = Front(a) /\ Len(f) = n - 1 /\ \A i \in 1..(n - 1) : f[i] = a[i]
  <2>1. /\ Front(a) \in Seq(Names) /\ Len(Front(a)) = Len(a) - 1
        /\ \A i \in 1..(Len(a) - 1) : Front(a)[i] = a[i]
    BY <1>4, FrontIs
  <2>2. Len(a) = n
    BY <1>2
  <2> QED
    BY <2>1, <2>2
<1>6. \A i \in 1..(n - 1) : f[i] = p[i]
  BY <1>2, <1>3, <1>5
<1>7. f = p
  BY <1>3, <1>5, <1>6, PathEqual
<1> QED
  BY <1>2, <1>3, <1>4, <1>5, <1>7

\* Both are ancestors of one path: one is below the other.
LEMMA Comparable ==
  ASSUME NEW q \in Seq(Names), NEW d \in Seq(Names), Below(q, d), NEW n \in 0..Len(q)
  PROVE  Below(SubSeq(q, 1, n), d) \/ Below(d, SubSeq(q, 1, n))
<1>1. /\ SubSeq(q, 1, n) \in Seq(Names) /\ Len(SubSeq(q, 1, n)) = n
      /\ \A i \in 1..n : SubSeq(q, 1, n)[i] = q[i]
  BY Initial
<1>2. Len(d) <= Len(q) /\ \A i \in 1..Len(d) : q[i] = d[i]
  BY BelowIs
<1>3. Len(d) \in Nat /\ n \in Nat
  BY RootIs
<1>4. PICK a \in Seq(Names) : a = SubSeq(q, 1, n)
  BY <1>1
<1>5. Len(a) = n /\ \A i \in 1..n : a[i] = q[i]
  BY <1>1, <1>4
<1>6. ASSUME n <= Len(d)
      PROVE  Below(d, a)
  BY <1>2, <1>3, <1>5, <1>6, BelowIs
<1>7. ASSUME ~(n <= Len(d))
      PROVE  Below(a, d)
  BY <1>2, <1>3, <1>5, <1>7, BelowIs
<1> QED
  BY <1>4, <1>6, <1>7

-----------------------------------------------------------------------------
(* The stack of frames.                                                     *)

\* Returning, going on and calling, as changes of a sequence.
LEMMA StackOps ==
  ASSUME NEW S, NEW s \in Seq(S), s # <<>>
  PROVE  /\ Len(s) \in Nat \ {0} /\ Last(s) = s[Len(s)] /\ Last(s) \in S
         /\ Front(s) \in Seq(S) /\ Len(Front(s)) = Len(s) - 1
         /\ \A j \in 1..(Len(s) - 1) : Front(s)[j] = s[j]
<1>1. Len(s) \in Nat \ {0}
  BY EmptySeq
<1>2. \A i \in 1..(Len(s) - 1) : s[i] \in S
  BY <1>1, ElementOfSeq
<1>3. /\ Front(s) \in Seq(S) /\ Len(Front(s)) = Len(s) - 1
      /\ \A i \in 1..(Len(s) - 1) : Front(s)[i] = s[i]
  <2>1. Len(s) - 1 \in Int /\ 1 \in Int
    BY <1>1
  <2>2. /\ SubSeq(s, 1, Len(s) - 1) \in Seq(S)
        /\ Len(SubSeq(s, 1, Len(s) - 1)) = IF 1 <= Len(s) - 1 THEN (Len(s) - 1) - 1 + 1 ELSE 0
        /\ \A i \in 1..((Len(s) - 1) - 1 + 1) : SubSeq(s, 1, Len(s) - 1)[i] = s[1 + i - 1]
    BY <1>2, <2>1, SubSeqProperties
  <2>3. Front(s) = SubSeq(s, 1, Len(s) - 1)
    BY DEF Front
  <2>4. PICK f : f = SubSeq(s, 1, Len(s) - 1)
    OBVIOUS
  <2>5. f \in Seq(S) /\ Len(f) = Len(s) - 1
    <3>1. f \in Seq(S) /\ Len(f) = IF 1 <= Len(s) - 1 THEN (Len(s) - 1) - 1 + 1 ELSE 0
      BY <2>2, <2>4, Zenon
    <3> QED
      BY <1>1, <3>1
  <2>6. \A i \in 1..(Len(s) - 1) : f[i] = s[i]
    <3>1. \A i \in 1..((Len(s) - 1) - 1 + 1) : f[i] = s[1 + i - 1]
      BY <2>2, <2>4
    <3> HIDE <2>2, <2>3, <2>4
    <3> QED
      BY <1>1, <3>1
  <2> QED
    BY <2>3, <2>4, <2>5, <2>6
<1>4. Last(s) = s[Len(s)] /\ Last(s) \in S
  BY <1>1, ElementOfSeq DEF Last
<1> QED
  BY <1>1, <1>3, <1>4

\* One frame replaced.
LEMMA ReplaceTop ==
  ASSUME NEW S, NEW s \in Seq(S), s # <<>>, NEW f \in S
  PROVE  /\ Append(Front(s), f) \in Seq(S) /\ Len(Append(Front(s), f)) = Len(s)
         /\ \A j \in 1..(Len(s) - 1) : Append(Front(s), f)[j] = s[j]
         /\ Append(Front(s), f)[Len(s)] = f
         /\ Last(Append(Front(s), f)) = f /\ Append(Front(s), f) # <<>>
<1>1. /\ Len(s) \in Nat \ {0} /\ Front(s) \in Seq(S) /\ Len(Front(s)) = Len(s) - 1
      /\ \A j \in 1..(Len(s) - 1) : Front(s)[j] = s[j]
  BY StackOps
<1>2. /\ Append(Front(s), f) \in Seq(S) /\ Len(Append(Front(s), f)) = Len(s)
      /\ \A j \in 1..(Len(s) - 1) : Append(Front(s), f)[j] = s[j]
      /\ Append(Front(s), f)[Len(s)] = f
  BY <1>1
<1> QED
  BY <1>1, <1>2, EmptySeq DEF Last

\* One frame replaced, another put on it.
LEMMA PutOnTop ==
  ASSUME NEW S, NEW s \in Seq(S), s # <<>>, NEW f \in S, NEW g \in S
  PROVE  /\ Front(s) \o <<f, g>> \in Seq(S) /\ Len(Front(s) \o <<f, g>>) = Len(s) + 1
         /\ \A j \in 1..(Len(s) - 1) : (Front(s) \o <<f, g>>)[j] = s[j]
         /\ (Front(s) \o <<f, g>>)[Len(s)] = f /\ (Front(s) \o <<f, g>>)[Len(s) + 1] = g
         /\ Last(Front(s) \o <<f, g>>) = g /\ Front(s) \o <<f, g>> # <<>>
<1>1. /\ Len(s) \in Nat \ {0} /\ Front(s) \in Seq(S) /\ Len(Front(s)) = Len(s) - 1
      /\ \A j \in 1..(Len(s) - 1) : Front(s)[j] = s[j]
  BY StackOps
<1>2. <<f, g>> \in Seq(S) /\ Len(<<f, g>>) = 2 /\ <<f, g>>[1] = f /\ <<f, g>>[2] = g
  OBVIOUS
<1>3. /\ Front(s) \o <<f, g>> \in Seq(S) /\ Len(Front(s) \o <<f, g>>) = Len(s) - 1 + 2
      /\ \A i \in 1..(Len(s) - 1 + 2) :
           (Front(s) \o <<f, g>>)[i] = IF i <= Len(s) - 1 THEN Front(s)[i] ELSE <<f, g>>[i - (Len(s) - 1)]
  BY <1>1, <1>2, ConcatProperties
<1>4. /\ \A j \in 1..(Len(s) - 1) : (Front(s) \o <<f, g>>)[j] = s[j]
      /\ (Front(s) \o <<f, g>>)[Len(s)] = f /\ (Front(s) \o <<f, g>>)[Len(s) + 1] = g
  <2>1. PICK n \in Nat : Len(s) = n + 1
    BY <1>1
  <2>2. n + 1 \in 1..(n + 2) /\ n + 2 \in 1..(n + 2)
    BY <2>1
  <2>3. (Front(s) \o <<f, g>>)[n + 1] = <<f, g>>[1] /\ (Front(s) \o <<f, g>>)[n + 2] = <<f, g>>[2]
    <3>1. \A i \in 1..(n + 2) :
            (Front(s) \o <<f, g>>)[i] = IF i <= n THEN Front(s)[i] ELSE <<f, g>>[i - n]
      BY <1>3, <2>1
    <3>2. PICK c : c = Front(s) \o <<f, g>>
      OBVIOUS
    <3>3. c[n + 1] = IF n + 1 <= n THEN Front(s)[n + 1] ELSE <<f, g>>[(n + 1) - n]
      BY <2>2, <3>1, <3>2
    <3>4. c[n + 2] = IF n + 2 <= n THEN Front(s)[n + 2] ELSE <<f, g>>[(n + 2) - n]
      BY <2>2, <3>1, <3>2
    <3>5. ~(n + 1 <= n) /\ ~(n + 2 <= n) /\ (n + 1) - n = 1 /\ (n + 2) - n = 2
      OBVIOUS
    <3> QED
      BY <3>2, <3>3, <3>4, <3>5, Zenon
  <2>4. \A j \in 1..n : (Front(s) \o <<f, g>>)[j] = Front(s)[j]
    BY <1>3, <2>1
  <2> QED
    BY <1>1, <1>2, <2>1, <2>3, <2>4
<1>5. Len(Front(s) \o <<f, g>>) = Len(s) + 1
  BY <1>1, <1>3
<1> QED
  BY <1>1, <1>3, <1>4, <1>5, EmptySeq DEF Last

-----------------------------------------------------------------------------
(* How a step moves the frames.                                             *)

\* The frame on top is one of the call.
LEMMA TopIs ==
  ASSUME StackOK, stack # <<>>
  PROVE  /\ Top \in Frames /\ FrameOK(Top, call) /\ Top = stack[Len(stack)]
         /\ Len(stack) \in Nat \ {0} /\ Len(stack) <= Deep(Top)
<1>1. /\ Len(stack) \in Nat \ {0} /\ Top = stack[Len(stack)] /\ Top \in Frames
  BY StackOps DEF StackOK, Top
<1>2. Len(stack) \in 1..Len(stack)
  BY <1>1
<1> QED
  BY <1>1, <1>2 DEF StackOK

\* The function at the top returns: a walker, if any, goes on.
LEMMA Pops ==
  ASSUME StackOK, stack # <<>>, stack' = Front(stack), call' = call
  PROVE  StackOK' /\ OpenOK'
<1>1. /\ Len(stack) \in Nat \ {0} /\ stack' \in Seq(Frames) /\ Len(stack') = Len(stack) - 1
      /\ \A j \in 1..(Len(stack) - 1) : stack'[j] = stack[j]
  BY StackOps DEF StackOK
<1>2. ASSUME NEW j \in 1..Len(stack')
      PROVE  FrameOK(stack'[j], call') /\ stack'[j].fun \in Walkers /\ j <= Deep(stack'[j])
  <2>1. j \in 1..(Len(stack) - 1) /\ j \in 1..Len(stack) /\ j < Len(stack)
    BY <1>1, <1>2
  <2>2. stack'[j] = stack[j]
    BY <1>1, <2>1
  <2> QED
    BY <2>1, <2>2 DEF StackOK
<1>3. StackOK'
  BY <1>1, <1>2 DEF StackOK
<1>4. ASSUME stack' # <<>>
      PROVE  Top'.fun \in Walkers
  <2>1. Len(stack') \in Nat \ {0} /\ Top' = stack'[Len(stack')]
    BY <1>1, <1>4, EmptySeq DEF Top, Last
  <2>2. Len(stack') \in 1..Len(stack')
    BY <2>1
  <2> QED
    BY <1>2, <2>1, <2>2
<1> QED
  BY <1>3, <1>4 DEF OpenOK, OpenFor, Walkers

\* It goes on as frame f.
LEMMA Goes ==
  ASSUME StackOK, stack # <<>>, NEW f, FrameOK(f, call), Deep(f) = Deep(Top), OpenFor(f)',
         stack' = Append(Front(stack), f), call' = call
  PROVE  StackOK' /\ OpenOK'
<1>1. f \in Frames /\ stack \in Seq(Frames)
  BY DEF FrameOK, StackOK
<1>2. /\ Len(stack) \in Nat \ {0} /\ stack' \in Seq(Frames) /\ Len(stack') = Len(stack)
      /\ \A j \in 1..(Len(stack) - 1) : stack'[j] = stack[j]
      /\ stack'[Len(stack)] = f /\ Last(stack') = f
  BY <1>1, ReplaceTop, StackOps
<1>3. Len(stack) <= Deep(f)
  BY TopIs
<1>4. ASSUME NEW j \in 1..Len(stack)
      PROVE  FrameOK(stack'[j], call') /\ (j < Len(stack) => stack'[j].fun \in Walkers) /\ j <= Deep(stack'[j])
  <2>1. ASSUME j = Len(stack)
        PROVE  FrameOK(stack'[j], call') /\ ~(j < Len(stack)) /\ j <= Deep(stack'[j])
    BY <1>2, <1>3, <2>1
  <2>2. ASSUME j # Len(stack)
        PROVE  FrameOK(stack'[j], call') /\ stack'[j].fun \in Walkers /\ j <= Deep(stack'[j])
    <3>1. j \in 1..(Len(stack) - 1) /\ j < Len(stack)
      BY <1>2, <2>2
    <3>2. stack'[j] = stack[j]
      BY <1>2, <3>1
    <3> QED
      BY <3>1, <3>2 DEF StackOK
  <2> QED
    BY <2>1, <2>2
<1>5. StackOK'
  BY <1>2, <1>4 DEF StackOK
<1> QED
  BY <1>2, <1>5 DEF OpenOK, Top

\* A walker calls: it goes on as frame f when the function of frame g returned.
LEMMA CallsFrom ==
  ASSUME StackOK, stack # <<>>, NEW f, NEW g, FrameOK(f, call), FrameOK(g, call), OpenFor(g)',
         Top.fun \in Walkers, f.fun = Top.fun, f.src = Top.src, Deep(g) >= Len(Top.src) + 1,
         stack' = Front(stack) \o <<f, g>>, call' = call
  PROVE  StackOK' /\ OpenOK'
<1>1. f \in Frames /\ g \in Frames /\ stack \in Seq(Frames)
  BY DEF FrameOK, StackOK
<1>2. /\ Len(stack) \in Nat \ {0} /\ stack' \in Seq(Frames) /\ Len(stack') = Len(stack) + 1
      /\ \A j \in 1..(Len(stack) - 1) : stack'[j] = stack[j]
      /\ stack'[Len(stack)] = f /\ stack'[Len(stack) + 1] = g /\ Last(stack') = g
  BY <1>1, PutOnTop, StackOps
<1>3. Len(stack) <= Deep(f) /\ Len(stack) + 1 <= Deep(g) /\ f.fun \in Walkers
  <2>1. Top.src \in Seq(Names) /\ Len(Top.src) \in Nat
    BY TopIs, RootIs DEF Frames
  <2>2. Deep(Top) = Len(Top.src) /\ Deep(f) = Len(Top.src)
    BY <2>1 DEF Deep
  <2>3. Len(stack) <= Len(Top.src)
    BY <2>2, TopIs
  <2>4. Len(g.src) \in Nat
    BY <1>1, RootIs DEF Frames
  <2>5. Deep(g) \in Nat
    <3>1. CASE g.fun \in Walkers
      BY <2>4, <3>1 DEF Deep
    <3>2. CASE g.fun \notin Walkers
      BY <2>4, <3>2 DEF Deep
    <3> QED
      BY <3>1, <3>2
  <2> QED
    BY <1>2, <2>1, <2>2, <2>3, <2>5
<1>4. ASSUME NEW j \in 1..(Len(stack) + 1)
      PROVE  FrameOK(stack'[j], call') /\ (j < Len(stack) + 1 => stack'[j].fun \in Walkers) /\ j <= Deep(stack'[j])
  <2>1. ASSUME j = Len(stack)
        PROVE  FrameOK(stack'[j], call') /\ stack'[j].fun \in Walkers /\ j <= Deep(stack'[j])
    BY <1>2, <1>3, <2>1
  <2>2. ASSUME j = Len(stack) + 1
        PROVE  FrameOK(stack'[j], call') /\ ~(j < Len(stack) + 1) /\ j <= Deep(stack'[j])
    <3>1. stack'[j] = g
      BY <1>2, <2>2, Zenon
    <3>2. j <= Deep(g) /\ ~(j < Len(stack) + 1)
      BY <1>2, <1>3, <2>2
    <3> QED
      BY <3>1, <3>2
  <2>3. ASSUME j # Len(stack), j # Len(stack) + 1
        PROVE  FrameOK(stack'[j], call') /\ stack'[j].fun \in Walkers /\ j <= Deep(stack'[j])
    <3>1. j \in 1..(Len(stack) - 1) /\ j \in 1..Len(stack) /\ j < Len(stack)
      BY <1>2, <2>3
    <3>2. stack'[j] = stack[j]
      BY <1>2, <3>1
    <3> QED
      BY <3>1, <3>2 DEF StackOK
  <2> QED
    BY <2>1, <2>2, <2>3
<1>5. StackOK'
  BY <1>2, <1>4 DEF StackOK
<1> QED
  BY <1>2, <1>5 DEF OpenOK, Top

\* No frame is left.
LEMMA Unwinds ==
  ASSUME stack' = <<>>
  PROVE  StackOK' /\ OpenOK'
<1>1. stack' \in Seq(Frames) /\ Len(stack') = 0
  BY EmptySeq
<1> QED
  BY <1>1 DEF StackOK, OpenOK

-----------------------------------------------------------------------------
(* How a step changes the file system: it stays a tree, and changes outside *)
(* the destination are only the making of its parents, or of what the shell *)
(* makes of them.                                                           *)

Contained ==
  /\ \A q \in DOMAIN files \cup DOMAIN files' :
       \/ Below(q, call.dst)
       \/ q \in DOMAIN files /\ q \in DOMAIN files' /\ files'[q] = files[q]
  /\ \A q \in dirs \ dirs' : Below(q, call.dst)
  /\ \A q \in dirs' \ dirs : Below(q, call.dst) \/ Below(call.dst, q) \/ CutUp

\* Nothing is written.
LEMMA Keeps ==
  ASSUME FilesOK, UNCHANGED fs
  PROVE  FilesOK' /\ Contained
<1>1. files' = files /\ dirs' = dirs
  BY DEF fs
<1>2. FilesOK'
  BY <1>1 DEF FilesOK, Tree
<1> QED
  BY <1>1, <1>2 DEF Contained

\* A file is created or written.
LEMMA Puts ==
  ASSUME FilesOK, NEW q \in Seq(Names), NEW c \in Seq(Buffers),
         IsFile(q) \/ Writable(q), Put(q, c), dirs' = dirs, Below(q, call.dst)
  PROVE  FilesOK' /\ Contained /\ IsFile(q)' /\ files'[q] = c
<1>1. /\ DOMAIN files' = DOMAIN files \cup {q}
      /\ \A r \in DOMAIN files \cup {q} : files'[r] = IF r = q THEN c ELSE files[r]
  BY DEF Put
<1>2. q \notin dirs /\ (q # Root => Front(q) \in dirs)
  BY DEF IsFile, Writable, IsDirectory, FilesOK, Tree
<1>3. FilesOK'
  <2>1. \A r \in dirs' \cup DOMAIN files' : r \in Seq(Names)
    BY <1>1 DEF FilesOK
  <2>2. Root \in dirs' /\ Tree(dirs', DOMAIN files') /\ dirs' \cap DOMAIN files' = {}
    BY <1>1, <1>2 DEF FilesOK, Tree
  <2>3. \A r \in DOMAIN files' : files'[r] \in Seq(Buffers)
    BY <1>1 DEF FilesOK
  <2> QED
    BY <2>1, <2>2, <2>3 DEF FilesOK
<1>4. Contained
  BY <1>1 DEF Contained
<1> QED
  BY <1>1, <1>3, <1>4 DEF IsFile

\* A file is removed.
LEMMA Unlinks ==
  ASSUME FilesOK, NEW q, Unlink(q), dirs' = dirs, Below(q, call.dst)
  PROVE  FilesOK' /\ Contained
<1>1. /\ DOMAIN files' = DOMAIN files \ {q}
      /\ \A r \in DOMAIN files \ {q} : files'[r] = files[r]
  BY DEF Unlink
<1>2. FilesOK'
  BY <1>1 DEF FilesOK, Tree
<1> QED
  BY <1>1, <1>2 DEF Contained

\* Directories are made, each in one that is there or is made too.
LEMMA Makes ==
  ASSUME FilesOK, NEW new, dirs' = dirs \cup new, files' = files,
         \A q \in new : /\ q \in Seq(Names) /\ ~Exists(q)
                        /\ Front(q) \in dirs \cup new
                        /\ Below(q, call.dst) \/ Below(call.dst, q) \/ CutUp
  PROVE  FilesOK' /\ Contained
<1>1. FilesOK'
  <2>1. \A q \in dirs' \cup DOMAIN files' : q \in Seq(Names)
    BY DEF FilesOK
  <2>2. Root \in dirs' /\ Tree(dirs', DOMAIN files')
    BY DEF FilesOK, Tree
  <2>3. dirs' \cap DOMAIN files' = {}
    BY DEF FilesOK, Exists, IsFile
  <2>4. \A q \in DOMAIN files' : files'[q] \in Seq(Buffers)
    BY DEF FilesOK
  <2> QED
    BY <2>1, <2>2, <2>3, <2>4 DEF FilesOK
<1>2. Contained
  BY DEF Contained
<1> QED
  BY <1>1, <1>2

\* The entries of a directory, and the nodes in it.
LEMMA EntriesAre ==
  ASSUME FilesOK, NEW d \in Seq(Names), Entries(d) = {".", ".."}
  PROVE  \A q \in (dirs \ {Root}) \cup DOMAIN files : q # Root => Front(q) # d
<1> SUFFICES ASSUME NEW q \in dirs \cup DOMAIN files, q # Root, Front(q) = d
             PROVE  FALSE
  OBVIOUS
<1>1. q \in Seq(Names) /\ Last(q) \in Names /\ q = Append(d, Last(q))
  BY FrontIs DEF FilesOK
<1>2. Last(q) \in Entries(d)
  BY <1>1 DEF Entries, Exists, IsFile, IsDirectory
<1> QED
  BY <1>1, <1>2, DataDbAssumption

\* An empty directory is removed.
LEMMA Removes ==
  ASSUME FilesOK, NEW d \in Seq(Names), d # Root, Entries(d) = {".", ".."},
         dirs' = dirs \ {d}, files' = files, Below(d, call.dst)
  PROVE  FilesOK' /\ Contained
<1>1. \A q \in (dirs \ {Root}) \cup DOMAIN files : q # Root => Front(q) # d
  BY EntriesAre
<1>2. Root \notin DOMAIN files
  BY DEF FilesOK
<1>3. FilesOK'
  BY <1>1, <1>2 DEF FilesOK, Tree
<1>4. Contained
  BY DEF Contained
<1> QED
  BY <1>3, <1>4

\* What the changes of a step leave alone the call has left alone so far.
LEMMA ContainedStep ==
  ASSUME NothingElse, Contained, call' = call, before' = before
  PROVE  NothingElse'
<1> SUFFICES ASSUME call.fun # "none" PROVE NothingElse'
  BY DEF NothingElse
<1>1. ASSUME NEW q \in DOMAIN files' \cup DOMAIN before.files
      PROVE  \/ Below(q, call.dst)
             \/ q \in DOMAIN files' /\ q \in DOMAIN before.files /\ files'[q] = before.files[q]
  <2>1. CASE Below(q, call.dst)
    BY <2>1
  <2>2. CASE ~Below(q, call.dst)
    <3>1. q \in DOMAIN files
      BY <1>1, <2>2 DEF NothingElse, Contained
    <3> QED
      BY <2>2, <3>1 DEF NothingElse, Contained
  <2> QED
    BY <2>1, <2>2
<1>2. \A q \in before.dirs \ dirs' : Below(q, call.dst)
  BY DEF NothingElse, Contained
<1>3. \A q \in dirs' \ before.dirs : Below(q, call.dst) \/ Below(call.dst, q) \/ CutUp
  BY DEF NothingElse, Contained
<1>4. CutUp' <=> CutUp
  BY DEF CutUp, OneWord
<1> QED
  BY <1>1, <1>2, <1>3, <1>4 DEF NothingElse

-----------------------------------------------------------------------------
(* The control of a step: frames, open files, the call and its result.      *)

\* What a step of the running call leaves alone, but for its failures.
Steady == UNCHANGED ghosts /\ (UNCHANGED fails \/ Fails)

\* So the call keeps its type and counters.
LEMMA Ghosts ==
  ASSUME Control, stack # <<>>, Steady, ret' \in {ret, "died", "success", "failure"}
  PROVE  CallOK' /\ ResultOK' /\ call' = call
<1>1. call' = call /\ calls' = calls
  BY DEF Steady, ghosts
<1>2. CallOK'
  BY <1>1 DEF CallOK, Control
<1>3. fails' \in 0..MaxFails
  BY DataDbAssumption DEF Steady, Fails, Control, ResultOK
<1> QED
  BY <1>1, <1>2, <1>3 DEF Control, ResultOK

\* Above the first frame, a step leaves it alone.
LEMMA First ==
  ASSUME Control, stack # <<>>
  PROVE  /\ Len(stack) = 1 => Top = stack[1]
         /\ stack' = Front(stack) =>
              IF Len(stack) = 1 THEN stack' = <<>> ELSE stack' # <<>> /\ stack'[1] = stack[1]
         /\ \A f \in Frames : stack' = Append(Front(stack), f) =>
              stack' # <<>> /\ stack'[1] = IF Len(stack) = 1 THEN f ELSE stack[1]
         /\ \A f, g \in Frames : stack' = Front(stack) \o <<f, g>> =>
              stack' # <<>> /\ stack'[1] = IF Len(stack) = 1 THEN f ELSE stack[1]
<1>1. stack \in Seq(Frames)
  BY DEF Control, StackOK
<1>2. PICK n \in Nat \ {0} : n = Len(stack)
  BY <1>1, StackOps
<1>3. n = 1 \/ (n # 1 /\ 1 \in 1..(n - 1))
  OBVIOUS
<1>4. Len(stack) = 1 => Top = stack[1]
  BY TopIs DEF Control
<1>5. ASSUME stack' = Front(stack)
      PROVE  IF n = 1 THEN stack' = <<>> ELSE stack' # <<>> /\ stack'[1] = stack[1]
  <2>1. stack' \in Seq(Frames) /\ Len(stack') = n - 1 /\ \A j \in 1..(n - 1) : stack'[j] = stack[j]
    BY <1>1, <1>2, <1>5, StackOps
  <2>2. CASE n = 1
    BY <2>1, <2>2, EmptySeq
  <2>3. CASE n # 1 /\ 1 \in 1..(n - 1)
    <3>1. stack' # <<>>
      BY <2>1, <2>3, EmptySeq
    <3> QED
      BY <2>1, <2>3, <3>1
  <2> QED
    BY <1>3, <2>2, <2>3
<1>6. ASSUME NEW f \in Frames, stack' = Append(Front(stack), f)
      PROVE  stack' # <<>> /\ stack'[1] = IF n = 1 THEN f ELSE stack[1]
  <2>1. stack' # <<>> /\ stack'[n] = f /\ \A j \in 1..(n - 1) : stack'[j] = stack[j]
    BY <1>1, <1>2, <1>6, ReplaceTop
  <2> QED
    BY <1>3, <2>1
<1>7. ASSUME NEW f \in Frames, NEW g \in Frames, stack' = Front(stack) \o <<f, g>>
      PROVE  stack' # <<>> /\ stack'[1] = IF n = 1 THEN f ELSE stack[1]
  <2>1. stack' # <<>> /\ stack'[n] = f /\ \A j \in 1..(n - 1) : stack'[j] = stack[j]
    BY <1>1, <1>2, <1>7, PutOnTop
  <2> QED
    BY <1>3, <2>1
<1> QED
  BY <1>2, <1>4, <1>5, <1>6, <1>7

\* The function at the top returns.
LEMMA Leaves ==
  ASSUME Control, stack # <<>>, Steady, NEW r \in {"success", "failure"}, Return(r)
  PROVE  Control'
<1>1. ret' \in {ret, "died", "success", "failure"} /\ stack' = Front(stack)
  BY DEF Return
<1>2. CallOK' /\ ResultOK' /\ call' = call
  BY <1>1, Ghosts
<1>3. BottomOK'
  BY <1>1, <1>2, First DEF Return, Control, BottomOK
<1> QED
  BY <1>1, <1>2, <1>3, Pops DEF Control

\* It goes on.
LEMMA Continues ==
  ASSUME Control, stack # <<>>, Steady, NEW f, Become(f),
         FrameOK(f, call), f.src = Top.src, f.fun = Top.fun, OpenFor(f)'
  PROVE  Control'
<1>1. ret' \in {ret, "died", "success", "failure"} /\ stack' = Append(Front(stack), f)
  BY DEF Become
<1>2. CallOK' /\ ResultOK' /\ call' = call
  BY <1>1, Ghosts
<1>3. Deep(f) = Deep(Top)
  BY DEF Deep
<1>4. f \in Frames /\ stack \in Seq(Frames)
  BY DEF FrameOK, Control, StackOK
<1>5. stack'[1].fun = stack[1].fun /\ stack'[1].src = stack[1].src
  BY <1>1, <1>4, First
<1>6. BottomOK'
  BY <1>2, <1>5 DEF Become, Control, BottomOK
<1> QED
  BY <1>1, <1>2, <1>3, <1>6, Goes DEF Control

\* It calls.
LEMMA Enters ==
  ASSUME Control, stack # <<>>, Steady, NEW f, NEW g, CallFrom(f, g),
         FrameOK(f, call), FrameOK(g, call), Top.fun \in Walkers, f.fun = Top.fun, f.src = Top.src,
         Len(g.src) > Len(Top.src) \/ (Len(g.src) = Len(Top.src) /\ g.fun \notin Walkers), OpenFor(g)'
  PROVE  Control'
<1>1. ret' \in {ret, "died", "success", "failure"} /\ stack' = Front(stack) \o <<f, g>>
  BY DEF CallFrom
<1>2. CallOK' /\ ResultOK' /\ call' = call
  BY <1>1, Ghosts
<1>3. Top \in Frames /\ g \in Frames
  BY TopIs DEF Control, FrameOK
<1>4. Len(Top.src) \in Nat /\ Len(g.src) \in Nat
  BY <1>3, RootIs DEF Frames
<1>5. Deep(g) >= Len(Top.src) + 1
  <2>1. CASE g.fun \in Walkers
    BY <1>4, <2>1 DEF Deep
  <2>2. CASE g.fun \notin Walkers
    BY <1>4, <2>2 DEF Deep
  <2> QED
    BY <2>1, <2>2
<1>6. f \in Frames
  BY DEF FrameOK
<1>7. stack'[1].fun = stack[1].fun /\ stack'[1].src = stack[1].src
  BY <1>1, <1>3, <1>6, First
<1>8. BottomOK'
  BY <1>2, <1>7 DEF CallFrom, Control, BottomOK
<1> QED
  BY <1>1, <1>2, <1>5, <1>8, CallsFrom DEF Control

\* The process dies.
LEMMA Ends ==
  ASSUME Control, stack # <<>>, Steady, Dies
  PROVE  Control'
<1>1. CallOK' /\ ResultOK'
  BY Ghosts DEF Dies
<1> QED
  BY <1>1, Unwinds DEF Control, Dies, BottomOK

\* What an action finds at the top.
LEMMA AtTop ==
  ASSUME Control, NEW f, NEW l, In(f, l)
  PROVE  /\ stack # <<>> /\ Top.fun = f /\ Top.pc = l
         /\ Top \in Frames /\ FrameOK(Top, call) /\ OpenFor(Top)
         /\ Top.src \in Seq(Names) /\ Top.dst \in Seq(Names) /\ Below(Top.dst, call.dst)
         /\ Len(Top.src) \in Nat \ {0} /\ Len(Top.dst) \in Nat /\ Top.k \in Nat /\ Top.w \in Nat
<1>1. stack # <<>> /\ Top.fun = f /\ Top.pc = l
  BY DEF In
<1>2. Top \in Frames /\ FrameOK(Top, call) /\ OpenFor(Top)
  BY <1>1, TopIs DEF Control, OpenOK
<1>3. /\ Top.src \in Seq(Names) /\ Top.dst \in Seq(Names) /\ Below(Top.dst, call.dst)
      /\ Top.k \in Nat /\ Top.w \in Nat /\ Len(Top.src) > 0
  BY <1>2 DEF FrameOK, Frames
<1> QED
  BY <1>1, <1>2, <1>3, RootIs

\* The place of a frame is not above the destination of the call.
LEMMA TopDst ==
  ASSUME Control, stack # <<>>
  PROVE  call.dst \in Seq(Names) /\ Len(call.dst) \in Nat \ {0} /\ Len(Top.dst) >= Len(call.dst)
<1>1. call.dst \in Seq(Names) /\ Len(call.dst) > 0
  BY DEF Control, CallOK, Funs
<1>2. Top.dst \in Seq(Names) /\ Below(Top.dst, call.dst)
  BY TopIs DEF Control, FrameOK, Frames
<1> QED
  BY <1>1, <1>2, RootIs, BelowIs

-----------------------------------------------------------------------------
(* The actions: the control keeps its form, the file system stays a tree,   *)
(* and outside the destination only parents of it are made.                 *)

StepOK == Control' /\ FilesOK' /\ Contained

\* CreateDir() makes one component of a path that leads to the destination or
\* goes on below it.
LEMMA MakeDirStep ==
  ASSUME Control, FilesOK, MakeDir
  PROVE  StepOK
<1>1. PICK t : t = Top
  OBVIOUS
<1>2. PICK q : q = SubSeq(t.dst, 1, t.k + 1)
  OBVIOUS
<1>3. PICK f : f = [t EXCEPT !.k = @ + 1]
  OBVIOUS
<1>4. In("CreateDir", "start")
  BY DEF MakeDir
<1>5. /\ stack # <<>> /\ t.fun = "CreateDir" /\ t.pc = "start" /\ t \in Frames
      /\ FrameOK(t, call) /\ t.dst \in Seq(Names) /\ Len(t.dst) \in Nat
      /\ t.k \in Nat /\ Below(t.dst, call.dst) /\ t.k <= Len(t.dst)
  BY <1>1, <1>4, AtTop DEF FrameOK
<1>6. Steady
  BY DEF MakeDir, Steady, fs
<1>7. \/ \E r \in {"success", "failure"} : Return(r) /\ UNCHANGED fs
      \/ t.k # Len(t.dst) /\ Become(f) /\ UNCHANGED fs
      \/ /\ t.k # Len(t.dst) /\ Become(f)
         /\ ~Exists(q) /\ IsDirectory(Front(q))
         /\ dirs' = dirs \cup {q} /\ files' = files
  BY <1>1, <1>2, <1>3 DEF MakeDir, AllMade, NextComponent
<1>8. ASSUME t.k # Len(t.dst), Become(f)
      PROVE  Control'
  <2>1. f \in Frames /\ f.fun = "CreateDir" /\ f.src = t.src /\ f.dst = t.dst /\ f.k = t.k + 1
    <3>1. PICK k \in Nat : k = t.k + 1
      BY <1>5
    <3>2. f = [t EXCEPT !.k = k]
      BY <1>3, <3>1
    <3> QED
      BY <1>5, <3>1, <3>2 DEF Frames
  <2>2. f.k <= Len(f.dst)
    BY <1>5, <1>8, <2>1
  <2>3. FrameOK(f, call) /\ OpenFor(f)'
    BY <1>5, <2>1, <2>2 DEF FrameOK, OpenFor
  <2> QED
    BY <1>1, <1>5, <1>6, <1>8, <2>1, <2>3, Continues
<1>9. ASSUME t.k # Len(t.dst), ~Exists(q), IsDirectory(Front(q)), dirs' = dirs \cup {q}, files' = files
      PROVE  FilesOK' /\ Contained
  <2>1. t.k + 1 \in 0..Len(t.dst)
    BY <1>5, <1>9
  <2>2. call.dst \in Seq(Names)
    BY DEF Control, CallOK
  <2>3. q \in Seq(Names) /\ (Below(q, call.dst) \/ Below(call.dst, q))
    BY <1>2, <1>5, <2>1, <2>2, Initial, Comparable
  <2>4. PICK new : new = {q}
    OBVIOUS
  <2>5. \A r \in new : /\ r \in Seq(Names) /\ ~Exists(r)
                       /\ Front(r) \in dirs \cup new
                       /\ Below(r, call.dst) \/ Below(call.dst, r)
    BY <1>9, <2>3, <2>4 DEF IsDirectory
  <2>6. dirs' = dirs \cup new /\ files' = files
    BY <1>9, <2>4
  <2> QED
    BY <2>5, <2>6, Makes
<1>10. ASSUME NEW r \in {"success", "failure"}, Return(r)
       PROVE  Control'
  BY <1>5, <1>6, <1>10, Leaves
<1> QED
  BY <1>7, <1>8, <1>9, <1>10, Keeps DEF StepOK

\* FileCopy() gives the copy the name of the source if the destination is a directory.
LEMMA CopyAccessStep ==
  ASSUME Control, FilesOK, CopyAccess
  PROVE  StepOK
<1>1. PICK t : t = Top
  OBVIOUS
<1>2. PICK d : d = CopyTarget(t.src, t.dst)
  OBVIOUS
<1>3. PICK f : f = [t EXCEPT !.pc = "open", !.dst = d]
  OBVIOUS
<1>4. /\ stack # <<>> /\ t.fun = "FileCopy" /\ t.pc = "start" /\ t \in Frames
      /\ FrameOK(t, call) /\ t.dst \in Seq(Names) /\ t.src \in Seq(Names) /\ Len(t.src) > 0
      /\ Below(t.dst, call.dst)
  BY <1>1, AtTop DEF CopyAccess
<1>5. Steady /\ UNCHANGED fs
  BY DEF CopyAccess, Steady
<1>6. Become(f) \/ \E r \in {"success", "failure"} : Return(r)
  BY <1>1, <1>2, <1>3 DEF CopyAccess
<1>7. d \in Seq(Names) /\ Below(d, call.dst)
  <2>1. Last(t.src) \in Names
    BY <1>4, RootIs, FrontIs
  <2>2. call.dst \in Seq(Names)
    BY DEF Control, CallOK
  <2> QED
    BY <1>2, <1>4, <2>1, <2>2, EntryBelow DEF CopyTarget
<1>8. /\ f.fun = t.fun /\ f.src = t.src /\ FrameOK(f, call) /\ OpenFor(f)'
  BY <1>3, <1>4, <1>7 DEF FrameOK, Frames, OpenFor, Labels
<1>9. Control'
  BY <1>1, <1>4, <1>5, <1>6, <1>8, Continues, Leaves
<1> QED
  BY <1>5, <1>9, Keeps DEF StepOK

\* FileCopy() opens the source and creates the destination.
LEMMA CopyOpenStep ==
  ASSUME Control, FilesOK, CopyOpen
  PROVE  StepOK
<1>1. PICK t : t = Top
  OBVIOUS
<1>2. PICK f : f = [t EXCEPT !.pc = "copy"]
  OBVIOUS
<1>3. /\ stack # <<>> /\ t.fun = "FileCopy" /\ t.pc = "open" /\ t \in Frames
      /\ FrameOK(t, call) /\ t.dst \in Seq(Names)
      /\ Below(t.dst, call.dst) /\ t.k = 0 /\ t.w = 0
  BY <1>1, AtTop DEF CopyOpen, FrameOK
<1>4. Steady
  BY DEF CopyOpen, Steady
<1>5. /\ dirs' = dirs
      /\ \/ UNCHANGED files
         \/ Writable(t.dst) /\ ~IsFile(t.dst) /\ Put(t.dst, <<>>)
  BY <1>1 DEF CopyOpen
<1>6. \/ \E r \in {"success", "failure"} : Return(r)
      \/ Become(f) /\ ((IsFile(t.dst) /\ UNCHANGED files) \/ (Writable(t.dst) /\ Put(t.dst, <<>>)))
  <2>1. \/ Return("failure")
        \/ /\ Writable(t.dst) /\ (IF IsFile(t.dst) THEN UNCHANGED files ELSE Put(t.dst, <<>>))
           /\ Become(f)
    BY <1>1, <1>2, Zenon DEF CopyOpen
  <2> QED
    BY <2>1
<1>7. <<>> \in Seq(Buffers)
  OBVIOUS
<1>8. ASSUME Writable(t.dst), Put(t.dst, <<>>)
      PROVE  FilesOK' /\ Contained /\ IsFile(t.dst)'
  BY <1>3, <1>5, <1>7, <1>8, Puts
<1>9. FilesOK' /\ Contained
  BY <1>5, <1>8, Keeps DEF fs
<1>10. ASSUME Become(f), (IsFile(t.dst) /\ UNCHANGED files) \/ (Writable(t.dst) /\ Put(t.dst, <<>>))
       PROVE  Control'
  <2>1. IsFile(t.dst)'
    BY <1>8, <1>10 DEF IsFile
  <2>2. \A q : IsFile(q)' => Len(files'[q]) \in Nat
    BY <1>9, LenProperties DEF FilesOK, IsFile
  <2>3. /\ f.fun = t.fun /\ f.src = t.src /\ FrameOK(f, call)
    BY <1>2, <1>3 DEF FrameOK, Frames, Labels
  <2>4. OpenFor(f)'
    <3>1. f.dst = t.dst /\ f.k = 0 /\ f.w = 0 /\ f.fun = "FileCopy"
      BY <1>2, <1>3 DEF Frames
    <3> QED
      BY <2>1, <2>2, <3>1 DEF OpenFor
  <2> QED
    BY <1>1, <1>3, <1>4, <1>10, <2>3, <2>4, Continues
<1> QED
  BY <1>3, <1>4, <1>6, <1>9, <1>10, Leaves DEF StepOK

\* One buffer written over the contents of a file.
LEMMA OverwriteIs ==
  ASSUME NEW c \in Seq(Buffers), NEW k \in Nat \ {0}, k <= Len(c) + 1, NEW b \in Buffers
  PROVE  /\ Overwrite(c, k, b) \in Seq(Buffers)
         /\ Len(Overwrite(c, k, b)) >= k /\ Len(Overwrite(c, k, b)) >= Len(c)
<1>1. Len(c) \in Nat /\ \A j \in 1..Len(c) : c[j] \in Buffers
  BY LenProperties, ElementOfSeq
<1>2. PICK n \in Nat : n = IF k > Len(c) THEN k ELSE Len(c)
  BY <1>1
<1>3. n >= k /\ n >= Len(c)
  BY <1>1, <1>2
<1>4. ASSUME NEW j \in 1..n
      PROVE  (IF j = k THEN b ELSE c[j]) \in Buffers
  <2>1. CASE j = k
    BY <2>1
  <2>2. CASE j # k
    <3>1. j \in 1..Len(c)
      <4>1. CASE k > Len(c)
        BY <1>1, <1>2, <2>2, <4>1
      <4>2. CASE ~(k > Len(c))
        BY <1>1, <1>2, <4>2
      <4> QED
        BY <4>1, <4>2
    <3> QED
      BY <1>1, <2>2, <3>1
  <2> QED
    BY <2>1, <2>2
<1>5. Overwrite(c, k, b) = [j \in 1..n |-> IF j = k THEN b ELSE c[j]]
  BY <1>2 DEF Overwrite
<1>6. PICK o : o = [j \in 1..n |-> IF j = k THEN b ELSE c[j]]
  OBVIOUS
<1>7. o \in Seq(Buffers) /\ Len(o) = n
  <2>1. DOMAIN o = 1..n /\ \A j \in 1..n : o[j] \in Buffers
    BY <1>4, <1>6
  <2>2. o \in [1..n -> Buffers]
    BY <1>4, <1>6
  <2>3. o \in Seq(Buffers)
    BY <2>2, SeqDef
  <2> QED
    BY <2>1, <2>3, LenProperties
<1> QED
  BY <1>3, <1>5, <1>6, <1>7

\* FileCopy() reads a buffer of the source and writes it to the destination.
LEMMA CopyChunkStep ==
  ASSUME Control, FilesOK, CopyChunk
  PROVE  StepOK
<1>1. PICK t : t = Top
  OBVIOUS
<1>2. PICK read : read = [t EXCEPT !.k = @ + 1]
  OBVIOUS
<1>3. PICK both : both = [t EXCEPT !.k = @ + 1, !.w = @ + 1]
  OBVIOUS
<1>4. PICK o : o = Overwrite(files[t.dst], t.w + 1, files[t.src][t.k + 1])
  OBVIOUS
<1>5. /\ stack # <<>> /\ t.fun = "FileCopy" /\ t.pc = "copy" /\ t \in Frames
      /\ FrameOK(t, call) /\ t.dst \in Seq(Names)
      /\ Below(t.dst, call.dst) /\ t.k \in Nat /\ t.w \in Nat /\ t.w <= t.k
      /\ IsFile(t.dst) /\ t.w <= Len(files[t.dst])
      /\ IsFile(t.src) => t.k <= Len(files[t.src])
  BY <1>1, AtTop DEF CopyChunk, FrameOK, OpenFor
<1>6. Steady /\ dirs' = dirs
  BY DEF CopyChunk, Steady
<1>7. \/ \E r \in {"success", "failure"} : Return(r) /\ UNCHANGED files
      \/ IsFile(t.src) /\ t.k # Len(files[t.src]) /\ Become(read) /\ UNCHANGED files
      \/ IsFile(t.src) /\ t.k # Len(files[t.src]) /\ Become(both) /\ Put(t.dst, o)
  BY <1>1, <1>2, <1>3, <1>4 DEF CopyChunk, AtEnd
<1>8. \A q : IsFile(q) => files[q] \in Seq(Buffers) /\ Len(files[q]) \in Nat
  BY LenProperties DEF FilesOK, IsFile
<1>9. PICK k \in Nat : k = t.k + 1
  BY <1>5
<1>10. PICK w \in Nat : w = t.w + 1
  BY <1>5
<1>11. ASSUME IsFile(t.src), t.k # Len(files[t.src])
       PROVE  /\ k <= Len(files[t.src]) /\ files[t.src][k] \in Buffers /\ o \in Seq(Buffers)
              /\ w <= Len(o) /\ Len(files[t.dst]) <= Len(o) /\ Len(o) \in Nat
  <2>1. k \in 1..Len(files[t.src])
    BY <1>5, <1>8, <1>9, <1>11
  <2>2. files[t.src][k] \in Buffers
    BY <1>8, <1>11, <2>1, ElementOfSeq
  <2>3. w <= Len(files[t.dst]) + 1 /\ w # 0 /\ files[t.dst] \in Seq(Buffers)
    BY <1>5, <1>8, <1>10
  <2>4. o \in Seq(Buffers) /\ Len(o) >= w /\ Len(o) >= Len(files[t.dst])
    BY <1>4, <1>9, <1>10, <2>2, <2>3, OverwriteIs
  <2> QED
    BY <1>8, <1>5, <2>1, <2>2, <2>4, LenProperties
<1>12. ASSUME IsFile(t.src), t.k # Len(files[t.src]), Become(read), UNCHANGED files
       PROVE  Control' /\ FilesOK' /\ Contained
  <2>1. read = [t EXCEPT !.k = k]
    BY <1>2, <1>9
  <2>2. /\ read \in Frames /\ read.fun = "FileCopy" /\ read.src = t.src /\ read.dst = t.dst
        /\ read.k = k /\ read.w = t.w /\ read.pc = "copy"
    BY <1>5, <2>1 DEF Frames
  <2>3. t.w <= k
    BY <1>5, <1>9
  <2>4. FrameOK(read, call)
    BY <1>5, <2>2, <2>3 DEF FrameOK
  <2>5. OpenFor(read)'
    BY <1>5, <1>11, <1>12, <2>2 DEF OpenFor, IsFile
  <2> QED
    BY <1>1, <1>5, <1>6, <1>12, <2>2, <2>4, <2>5, Continues, Keeps DEF fs
<1>13. ASSUME IsFile(t.src), t.k # Len(files[t.src]), Become(both), Put(t.dst, o)
       PROVE  Control' /\ FilesOK' /\ Contained
  <2>1. both = [t EXCEPT !.k = k, !.w = w]
    BY <1>3, <1>9, <1>10
  <2>2. /\ both \in Frames /\ both.fun = "FileCopy" /\ both.src = t.src /\ both.dst = t.dst
        /\ both.k = k /\ both.w = w /\ both.pc = "copy"
    BY <1>5, <2>1 DEF Frames
  <2>3. w <= k
    BY <1>5, <1>9, <1>10
  <2>4. FrameOK(both, call)
    BY <1>5, <2>2, <2>3 DEF FrameOK
  <2>5. FilesOK' /\ Contained /\ IsFile(t.dst)' /\ files'[t.dst] = o
    BY <1>5, <1>6, <1>11, <1>13, Puts
  <2>6. IsFile(t.src)' => k <= Len(files'[t.src])
    <3>1. CASE t.src = t.dst
      BY <1>8, <1>11, <1>13, <2>5, <3>1
    <3>2. CASE t.src # t.dst
      <4>1. files'[t.src] = files[t.src]
        BY <1>13, <3>2 DEF Put, IsFile
      <4> QED
        BY <1>11, <1>13, <4>1
    <3> QED
      BY <3>1, <3>2
  <2>7. OpenFor(both)'
    BY <1>11, <1>13, <2>2, <2>5, <2>6 DEF OpenFor, IsFile
  <2> QED
    BY <1>1, <1>5, <1>6, <1>13, <2>2, <2>4, <2>5, <2>7, Continues
<1>14. ASSUME NEW r \in {"success", "failure"}, Return(r), UNCHANGED files
       PROVE  Control' /\ FilesOK' /\ Contained
  BY <1>5, <1>6, <1>14, Leaves, Keeps DEF fs
<1> QED
  BY <1>7, <1>12, <1>13, <1>14 DEF StepOK

\* A new frame.
LEMMA NewFrame ==
  ASSUME NEW f \in Funs, NEW s \in Seq(Names), NEW d \in Seq(Names), NEW c,
         Len(s) > 0, Below(d, c.dst), c.fun = "delete_dir" => f = "delete_dir",
         f \in {"delete_dir", "delete_file"} => s = d,
         f \in {"delete_file", "save_file"} => d = c.dst,
         f = "save_file" => c.fun = "save_file"
  PROVE  /\ FrameOK(Frame(f, s, d), c) /\ Frame(f, s, d).fun = f /\ Frame(f, s, d).src = s
         /\ Frame(f, s, d).pc = "start"
<1>1. PICK t : t = Frame(f, s, d)
  OBVIOUS
<1>2. t \in Frames /\ t.fun = f /\ t.src = s /\ t.dst = d /\ t.pc = "start" /\ t.k = 0 /\ t.w = 0
  BY <1>1 DEF Frame, Frames, Labels
<1>3. Len(d) \in Nat
  BY RootIs
<1>4. FrameOK(t, c)
  BY <1>2, <1>3 DEF FrameOK
<1> QED
  BY <1>1, <1>2, <1>4

\* The entries readdir() returns lead to the nodes of the directory.
LEMMA EntryIs ==
  ASSUME NEW d \in Seq(Names), NEW n \in Entries(d)
  PROVE  /\ n \in EntryNames
         /\ ~Skipped(n) => n \in Names /\ \A q : Walk(q, n) = Append(q, n)
<1>1. n \in EntryNames
  BY DEF Entries, EntryNames
<1> QED
  BY <1>1 DEF EntryNames, Skipped, Walk

\* DirCopy() calls FileCopy() for a file, and CreateDir() for a directory.
LEMMA DirCopyStartStep ==
  ASSUME Control, FilesOK, DirCopyStart
  PROVE  StepOK
<1>1. PICK t : t = Top
  OBVIOUS
<1>2. PICK atEnd : atEnd = [t EXCEPT !.pc = "end"]
  OBVIOUS
<1>3. PICK scan : scan = [t EXCEPT !.pc = "scan", !.had = Entries(t.src)]
  OBVIOUS
<1>4. PICK null : null = [t EXCEPT !.pc = "null"]
  OBVIOUS
<1>5. /\ stack # <<>> /\ t.fun = "DirCopy" /\ t \in Frames
      /\ FrameOK(t, call) /\ t.dst \in Seq(Names) /\ t.src \in Seq(Names) /\ Len(t.src) > 0
      /\ Below(t.dst, call.dst)
  BY <1>1, AtTop DEF DirCopyStart
<1>6. Steady /\ UNCHANGED fs
  BY DEF DirCopyStart, Steady
<1>7. \/ \E r \in {"success", "failure"} : Return(r)
      \/ \E f \in {atEnd, scan, null}, g \in {"FileCopy", "CreateDir"} :
            CallFrom(f, Frame(g, t.src, t.dst))
  BY <1>1, <1>2, <1>3, <1>4, Zenon DEF DirCopyStart
<1>8. ASSUME NEW f \in {atEnd, scan, null}, NEW g \in {"FileCopy", "CreateDir"},
             CallFrom(f, Frame(g, t.src, t.dst))
      PROVE  Control'
  <2>1. f \in Frames /\ f.fun = "DirCopy" /\ f.src = t.src /\ f.dst = t.dst
    <3>1. atEnd \in Frames /\ atEnd.fun = "DirCopy" /\ atEnd.src = t.src /\ atEnd.dst = t.dst
      BY <1>2, <1>5 DEF Frames, Labels
    <3>2. Entries(t.src) \in SUBSET EntryNames
      BY <1>5, EntryIs
    <3>3. scan \in Frames /\ scan.fun = "DirCopy" /\ scan.src = t.src /\ scan.dst = t.dst
      BY <1>3, <1>5, <3>2 DEF Frames, Labels
    <3>4. null \in Frames /\ null.fun = "DirCopy" /\ null.src = t.src /\ null.dst = t.dst
      BY <1>4, <1>5 DEF Frames, Labels
    <3> QED
      BY <3>1, <3>3, <3>4
  <2>2. FrameOK(f, call)
    BY <1>5, <2>1 DEF FrameOK
  <2>3. PICK h : h = Frame(g, t.src, t.dst)
    OBVIOUS
  <2>4. call.dst \in Seq(Names)
    BY DEF Control, CallOK
  <2>5. FrameOK(h, call) /\ h.fun = g /\ h.src = t.src /\ h.pc = "start"
    BY <1>5, <2>3, <2>4, NewFrame DEF Funs, FrameOK
  <2>6. OpenFor(h)' /\ h.fun \notin Walkers /\ t.fun \in Walkers
    BY <1>5, <2>5 DEF OpenFor, Walkers
  <2> QED
    BY <1>1, <1>5, <1>6, <1>8, <2>1, <2>2, <2>3, <2>5, <2>6, Enters
<1>9. ASSUME NEW r \in {"success", "failure"}, Return(r)
      PROVE  Control'
  BY <1>5, <1>6, <1>9, Leaves
<1> QED
  BY <1>6, <1>7, <1>8, <1>9, Keeps DEF StepOK

\* DirCopy() reads a directory that could not be opened.
LEMMA DirCopyNullStep ==
  ASSUME Control, FilesOK, DirCopyNull
  PROVE  StepOK
<1>1. stack # <<>> /\ Steady /\ Dies /\ UNCHANGED fs
  BY AtTop DEF DirCopyNull, Steady, Dies
<1> QED
  BY <1>1, Ends, Keeps DEF StepOK

\* DirCopy() has copied a file.
LEMMA DirCopyEndStep ==
  ASSUME Control, FilesOK, DirCopyEnd
  PROVE  StepOK
<1>1. stack # <<>> /\ Steady /\ Return("success") /\ UNCHANGED fs
  BY AtTop DEF DirCopyEnd, Steady
<1> QED
  BY <1>1, Leaves, Keeps DEF StepOK

\* DirCopy() goes to the next entry.
LEMMA DirCopyEntryStep ==
  ASSUME Control, FilesOK, DirCopyEntry
  PROVE  StepOK
<1>1. PICK t : t = Top
  OBVIOUS
<1>2. /\ stack # <<>> /\ t.fun = "DirCopy" /\ t.pc = "scan" /\ t \in Frames
      /\ FrameOK(t, call) /\ t.dst \in Seq(Names) /\ t.src \in Seq(Names) /\ Len(t.src) \in Nat
      /\ Below(t.dst, call.dst)
  BY <1>1, AtTop DEF DirCopyEntry
<1>3. Steady /\ UNCHANGED fs
  BY DEF DirCopyEntry, Steady
<1>4. ASSUME NEW n \in Entries(t.src), NEW next, next = [t EXCEPT !.done = @ \cup {n}]
      PROVE  /\ next.fun = "DirCopy" /\ next.src = t.src /\ FrameOK(next, call) /\ OpenFor(next)'
  <2>1. n \in EntryNames
    BY <1>2, EntryIs
  <2>2. next \in Frames /\ next.fun = "DirCopy" /\ next.src = t.src /\ next.dst = t.dst
    BY <1>2, <1>4, <2>1 DEF Frames
  <2> QED
    BY <1>2, <2>2 DEF FrameOK, OpenFor
<1>5. ASSUME NEW n \in Entries(t.src), NEW next, next = [t EXCEPT !.done = @ \cup {n}],
             ~Skipped(n), NEW g \in {"DirCopy", "FileCopy"},
             CallFrom(next, Frame(g, Walk(t.src, n), Walk(t.dst, n)))
      PROVE  Control'
  <2>1. n \in Names /\ Walk(t.src, n) = Append(t.src, n) /\ Walk(t.dst, n) = Append(t.dst, n)
    BY <1>2, <1>5, EntryIs
  <2>2. call.dst \in Seq(Names)
    BY DEF Control, CallOK
  <2>3. PICK s \in Seq(Names) : s = Append(t.src, n) /\ Len(s) = Len(t.src) + 1
    BY <1>2, <2>1, EntryBelow
  <2>4. PICK d \in Seq(Names) : d = Append(t.dst, n) /\ Below(d, call.dst)
    BY <1>2, <2>1, <2>2, EntryBelow
  <2>5. PICK h : h = Frame(g, s, d)
    OBVIOUS
  <2>6. FrameOK(h, call) /\ h.fun = g /\ h.src = s /\ h.pc = "start"
    <3>1. /\ Len(s) > 0 /\ g \in Funs /\ Below(d, call.dst)
          /\ g \in {"delete_dir", "delete_file"} => s = d
          /\ g \in {"delete_file", "save_file"} => d = call.dst
          /\ call.fun = "delete_dir" => g = "delete_dir"
      BY <1>2, <2>3, <2>4 DEF Funs, FrameOK
    <3> QED
      BY <2>2, <2>5, <3>1, NewFrame
  <2>7. OpenFor(h)' /\ t.fun \in Walkers /\ Len(h.src) > Len(t.src)
    BY <1>2, <2>3, <2>6 DEF OpenFor, Walkers
  <2>8. CallFrom(next, h)
    BY <1>5, <2>1, <2>3, <2>4, <2>5
  <2> QED
    BY <1>1, <1>2, <1>3, <1>4, <1>5, <2>6, <2>7, <2>8, Enters
<1>6. ASSUME NEW n \in Entries(t.src), NEW next, next = [t EXCEPT !.done = @ \cup {n}], Become(next)
      PROVE  Control'
  BY <1>1, <1>2, <1>3, <1>4, <1>6, Continues
<1>7. \/ Return("success")
      \/ \E n \in Entries(t.src) :
           \/ Become([t EXCEPT !.done = @ \cup {n}])
           \/ /\ ~Skipped(n)
              /\ \E g \in {"DirCopy", "FileCopy"} :
                   CallFrom([t EXCEPT !.done = @ \cup {n}], Frame(g, Walk(t.src, n), Walk(t.dst, n)))
  BY <1>1, Zenon DEF DirCopyEntry, NextEntries
<1>8. Control'
  BY <1>2, <1>3, <1>5, <1>6, <1>7, Leaves
<1> QED
  BY <1>3, <1>8, Keeps DEF StepOK

\* delete_dir() opens the directory.
LEMMA DeleteStartStep ==
  ASSUME Control, FilesOK, DeleteStart
  PROVE  StepOK
<1>1. PICK t : t = Top
  OBVIOUS
<1>2. PICK f : f = [t EXCEPT !.pc = "scan", !.had = Entries(t.src)]
  OBVIOUS
<1>3. /\ stack # <<>> /\ t.fun = "delete_dir" /\ t \in Frames
      /\ FrameOK(t, call) /\ t.src \in Seq(Names)
  BY <1>1, AtTop DEF DeleteStart
<1>4. Steady /\ UNCHANGED fs
  BY DEF DeleteStart, Steady
<1>5. Become(f) \/ \E r \in {"success", "failure"} : Return(r)
  BY <1>1, <1>2 DEF DeleteStart
<1>6. Entries(t.src) \in SUBSET EntryNames
  BY <1>3, EntryIs
<1>7. f \in Frames /\ f.fun = "delete_dir" /\ f.src = t.src /\ f.dst = t.dst
  BY <1>2, <1>3, <1>6 DEF Frames, Labels
<1>8. FrameOK(f, call) /\ OpenFor(f)'
  BY <1>3, <1>7 DEF FrameOK, OpenFor
<1>9. Control'
  BY <1>1, <1>3, <1>4, <1>5, <1>7, <1>8, Continues, Leaves
<1> QED
  BY <1>4, <1>9, Keeps DEF StepOK

\* delete_dir() removes a file, or calls itself for a directory.
LEMMA DeleteEntryStep ==
  ASSUME Control, FilesOK, DeleteEntry
  PROVE  StepOK
<1>1. PICK t : t = Top
  OBVIOUS
<1>2. PICK remove : remove = [t EXCEPT !.pc = "remove"]
  OBVIOUS
<1>3. /\ stack # <<>> /\ t.fun = "delete_dir" /\ t.pc = "scan" /\ t \in Frames
      /\ FrameOK(t, call) /\ t.dst \in Seq(Names) /\ t.src = t.dst /\ Len(t.src) \in Nat
      /\ Below(t.dst, call.dst)
  BY <1>1, AtTop DEF DeleteEntry, FrameOK
<1>4. Steady /\ dirs' = dirs
  BY DEF DeleteEntry, Steady
<1>5. call.dst \in Seq(Names)
  BY DEF Control, CallOK
<1>6. ASSUME NEW n \in Entries(t.src), ~Skipped(n)
      PROVE  \E q \in Seq(Names) : /\ q = Walk(t.src, n) /\ q = Append(t.src, n)
                                   /\ Len(q) = Len(t.src) + 1 /\ Below(q, call.dst)
  BY <1>3, <1>5, <1>6, EntryIs, EntryBelow
<1>7. ASSUME NEW n \in Entries(t.src), NEW next, next = [t EXCEPT !.done = @ \cup {n}]
      PROVE  /\ next.fun = "delete_dir" /\ next.src = t.src /\ FrameOK(next, call) /\ OpenFor(next)'
  <2>1. n \in EntryNames
    BY <1>3, EntryIs
  <2>2. next \in Frames /\ next.fun = "delete_dir" /\ next.src = t.src /\ next.dst = t.dst
    BY <1>3, <1>7, <2>1 DEF Frames
  <2> QED
    BY <1>3, <2>2 DEF FrameOK, OpenFor
<1>8. ASSUME NEW n \in Entries(t.src), NEW next, next = [t EXCEPT !.done = @ \cup {n}], ~Skipped(n),
             CallFrom(next, Frame("delete_dir", Walk(t.src, n), Walk(t.src, n)))
      PROVE  Control'
  <2>1. PICK q \in Seq(Names) : /\ q = Walk(t.src, n)
                                /\ Len(q) = Len(t.src) + 1 /\ Below(q, call.dst)
    BY <1>6, <1>8
  <2>2. PICK h : h = Frame("delete_dir", q, q)
    OBVIOUS
  <2>3. FrameOK(h, call) /\ h.fun = "delete_dir" /\ h.src = q /\ h.pc = "start"
    BY <1>3, <1>5, <2>1, <2>2, NewFrame DEF Funs
  <2>4. OpenFor(h)' /\ t.fun \in Walkers /\ Len(h.src) > Len(t.src)
    BY <1>3, <2>1, <2>3 DEF OpenFor, Walkers
  <2>5. CallFrom(next, h)
    BY <1>8, <2>1, <2>2
  <2> QED
    BY <1>1, <1>3, <1>4, <1>7, <1>8, <2>3, <2>4, <2>5, Enters
<1>9. ASSUME NEW n \in Entries(t.src), NEW next, next = [t EXCEPT !.done = @ \cup {n}], Become(next)
      PROVE  Control'
  BY <1>1, <1>3, <1>4, <1>7, <1>9, Continues
<1>10. remove.fun = "delete_dir" /\ remove.src = t.src /\ FrameOK(remove, call) /\ OpenFor(remove)'
  <2>1. remove \in Frames /\ remove.fun = "delete_dir" /\ remove.src = t.src /\ remove.dst = t.dst
    BY <1>2, <1>3 DEF Frames, Labels
  <2> QED
    BY <1>3, <2>1 DEF FrameOK, OpenFor
<1>11. \/ Become(remove) /\ UNCHANGED files
       \/ \E n \in Entries(t.src) :
            \/ Become([t EXCEPT !.done = @ \cup {n}]) /\ UNCHANGED files
            \/ /\ ~Skipped(n) /\ Become([t EXCEPT !.done = @ \cup {n}])
               /\ Unlink(Walk(t.src, n))
            \/ /\ ~Skipped(n) /\ UNCHANGED files
               /\ CallFrom([t EXCEPT !.done = @ \cup {n}], Frame("delete_dir", Walk(t.src, n), Walk(t.src, n)))
  BY <1>1, <1>2, Zenon DEF DeleteEntry, NextEntries
<1>12. Control'
  BY <1>1, <1>3, <1>4, <1>8, <1>9, <1>10, <1>11, Continues
<1>13. FilesOK' /\ Contained
  <2>1. ASSUME NEW n \in Entries(t.src), ~Skipped(n), Unlink(Walk(t.src, n))
        PROVE  FilesOK' /\ Contained
    BY <1>4, <1>6, <2>1, Unlinks
  <2> QED
    BY <1>4, <1>11, <2>1, Keeps DEF fs
<1> QED
  BY <1>12, <1>13 DEF StepOK

\* delete_dir() removes the directory it has emptied.
LEMMA DeleteSelfStep ==
  ASSUME Control, FilesOK, DeleteSelf
  PROVE  StepOK
<1>1. PICK d : d = Top.src
  OBVIOUS
<1>2. stack # <<>> /\ d \in Seq(Names) /\ d # Root /\ Below(d, call.dst)
  BY <1>1, AtTop, RootIs DEF DeleteSelf, FrameOK
<1>3. Steady
  BY DEF DeleteSelf, Steady, Dies, fs
<1>4. \/ /\ Entries(d) = {".", ".."} /\ dirs' = dirs \ {d} /\ UNCHANGED files
         /\ Return("success")
      \/ Dies
  BY <1>1 DEF DeleteSelf
<1>5. Control'
  BY <1>2, <1>3, <1>4, Leaves, Ends
<1>6. FilesOK' /\ Contained
  BY <1>2, <1>4, Removes, Keeps DEF Dies
<1> QED
  BY <1>5, <1>6 DEF StepOK

\* delete_file() removes a file or an empty directory.
LEMMA DeleteFileStep ==
  ASSUME Control, FilesOK, DeleteFile
  PROVE  StepOK
<1>1. PICK q : q = Top.src
  OBVIOUS
<1>2. stack # <<>> /\ q \in Seq(Names) /\ q # Root /\ Below(q, call.dst)
  BY <1>1, AtTop, RootIs DEF DeleteFile, FrameOK
<1>3. Steady
  BY DEF DeleteFile, Steady
<1>4. /\ \E r \in {"success", "failure"} : Return(r)
      /\ \/ Unlink(q) /\ dirs' = dirs
         \/ Entries(q) = {".", ".."} /\ dirs' = dirs \ {q} /\ UNCHANGED files
         \/ UNCHANGED fs
  BY <1>1 DEF DeleteFile
<1>5. Control'
  BY <1>2, <1>3, <1>4, Leaves
<1>6. FilesOK' /\ Contained
  BY <1>2, <1>4, Unlinks, Removes, Keeps
<1> QED
  BY <1>5, <1>6 DEF StepOK

\* What "mkdir -p" makes is on the way to the destination.
LEMMA ParentsAre ==
  ASSUME NEW d \in Seq(Names), NEW q \in Parents(d)
  PROVE  /\ q \in Seq(Names) /\ Below(d, q) /\ Len(q) < Len(d)
         /\ q # Root => Front(q) \in Parents(d) /\ Len(Front(q)) = Len(q) - 1
<1>1. PICK n \in 0..(Len(d) - 1) : q = SubSeq(d, 1, n)
  BY DEF Parents
<1>2. Len(d) \in Nat /\ n \in 0..Len(d) /\ n < Len(d)
  BY <1>1, RootIs
<1>3. q \in Seq(Names) /\ Len(q) = n /\ \A i \in 1..n : q[i] = d[i]
  BY <1>1, <1>2, Initial
<1>4. Below(d, q)
  BY <1>2, <1>3, BelowIs
<1>5. ASSUME q # Root
      PROVE  Front(q) \in Parents(d) /\ Len(Front(q)) = Len(q) - 1
  <2>1. n - 1 \in 0..(Len(d) - 1) /\ n - 1 \in 0..Len(d)
    BY <1>2, <1>3, <1>5, RootIs
  <2>2. Front(q) = SubSeq(d, 1, n - 1)
    <3>1. n \in 1..Len(d)
      BY <1>2, <1>3, <1>5, RootIs
    <3> QED
      BY <1>1, <3>1, InitialFront
  <2> QED
    BY <1>3, <1>5, <2>1, <2>2, FrontIs DEF Parents
<1> QED
  BY <1>2, <1>3, <1>4, <1>5

\* A path has names, and only the root has none.
LEMMA PathsAre ==
  ASSUME NEW q \in Paths
  PROVE  q \in Seq(Names) /\ Len(q) \in Nat \ {0} /\ q # Root
<1>1. PICK n \in 1..MaxDepth : q \in [1..n -> Names]
  BY DEF Paths
<1>2. n \in Nat \ {0}
  BY <1>1, DataDbAssumption
<1>3. q \in Seq(Names) /\ Len(q) = n
  BY <1>1, <1>2, SeqDef, LenProperties
<1> QED
  BY <1>2, <1>3, RootIs

\* The paths of a call have a bounded number of names.
LEMMA PathLength ==
  ASSUME NEW q \in Paths
  PROVE  Len(q) \in Nat /\ Len(q) <= MaxDepth
<1>1. PICK n \in 1..MaxDepth : q \in [1..n -> Names]
  BY DEF Paths
<1>2. n \in Nat /\ n <= MaxDepth
  BY <1>1, DataDbAssumption
<1>3. Len(q) = n
  BY <1>1, <1>2, SeqDef, LenProperties
<1> QED
  BY <1>2, <1>3

\* "mkdir -p" of other words makes directories of well-formed paths, each in one that
\* is there or is made too, and takes no place of a file.
LEMMA WordsAre ==
  ASSUME FilesOK, MaxWords \in Nat, NEW words \in [1..MaxWords -> Paths \cup {Root}],
         MakeWords(Range(words))
  PROVE  \E new : /\ dirs' = dirs \cup new
                 /\ \A q \in new : /\ q \in Seq(Names) /\ ~Exists(q) /\ Len(q) <= MaxDepth
                                   /\ Front(q) \in dirs \cup new
<1>1. PICK free : /\ free = {w \in Range(words) : \A q \in Parents(w) \cup {w} : ~IsFile(q)}
                  /\ dirs' = dirs \cup UNION {Parents(w) \cup {w} : w \in free}
  BY DEF MakeWords
<1>2. ASSUME NEW w \in free
      PROVE  w \in Seq(Names) /\ Len(w) \in Nat /\ Len(w) <= MaxDepth
  <2>1. w \in Paths \cup {Root}
    BY <1>1 DEF Range
  <2>2. CASE w = Root
    BY <2>2, RootIs, DataDbAssumption, EmptySeq DEF Root
  <2> QED
    BY <2>1, <2>2, PathsAre, PathLength
<1>3. PICK made : made = UNION {Parents(w) \cup {w} : w \in free} /\ dirs' = dirs \cup made
  BY <1>1
<1>4. \A q : q \in made <=> \E w \in free : q \in Parents(w) \cup {w}
  BY <1>3, Zenon
<1>5. PICK new : new = made \ dirs
  OBVIOUS
<1>6. ASSUME NEW q \in new
      PROVE  /\ q \in Seq(Names) /\ ~Exists(q) /\ Len(q) <= MaxDepth
             /\ Front(q) \in dirs \cup new
  <2>1. PICK w \in free : q \in Parents(w) \cup {w}
    BY <1>4, <1>5
  <2>2. w \in Seq(Names) /\ Len(w) \in Nat /\ Len(w) <= MaxDepth
    BY <1>2
  <2>3. q \in Seq(Names) /\ Len(q) <= Len(w)
    <3>1. CASE q \in Parents(w)
      BY <2>2, <3>1, ParentsAre, RootIs
    <3> QED
      BY <2>1, <2>2, <3>1
  <2>4. ~Exists(q) /\ q # Root
    BY <1>1, <1>5, <2>1 DEF Exists, IsDirectory, FilesOK
  <2>5. Front(q) \in Parents(w)
    <3>1. CASE q \in Parents(w)
      BY <2>2, <2>4, <3>1, ParentsAre
    <3>2. CASE q = w
      <4>1. Len(q) \in Nat \ {0} /\ Len(q) - 1 \in 0..(Len(w) - 1)
        BY <2>2, <2>4, <3>2, RootIs
      <4> QED
        BY <3>2, <4>1 DEF Front, Parents
    <3> QED
      BY <2>1, <3>1, <3>2
  <2>6. Front(q) \in dirs \cup new
    BY <1>4, <1>5, <2>5
  <2>7. Len(q) \in Nat /\ MaxDepth \in Nat
    BY <2>3, RootIs, DataDbAssumption
  <2> QED
    BY <2>2, <2>3, <2>4, <2>6, <2>7
<1>7. dirs' = dirs \cup new
  BY <1>3, <1>5
<1> QED
  BY <1>6, <1>7

\* save_file() makes the missing parents, or as many of them as it gets to, or what
\* the shell makes of a path that is not one word.
LEMMA SaveParentsStep ==
  ASSUME Control, FilesOK, SaveParents
  PROVE  StepOK
<1>1. PICK t : t = Top
  OBVIOUS
<1>2. PICK f : f = [t EXCEPT !.pc = "open"]
  OBVIOUS
<1>3. PICK missing : missing = {q \in Parents(t.dst) : ~Exists(q)}
  OBVIOUS
<1>4. /\ stack # <<>> /\ t.fun = "save_file" /\ t \in Frames
      /\ FrameOK(t, call) /\ t.dst \in Seq(Names) /\ t.dst = call.dst /\ Len(t.dst) \in Nat
  BY <1>1, AtTop DEF SaveParents, FrameOK
<1>5. Steady /\ files' = files
  BY DEF SaveParents, Steady
<1>6. Become(f) \/ \E r \in {"success", "failure"} : Return(r)
  BY <1>1, <1>2 DEF SaveParents
<1>7. \/ dirs' = dirs
      \/ /\ ~OneWord(t.dst)
         /\ \E words \in [1..MaxWords -> Paths \cup {Root}] : MakeWords(Range(words))
      \/ /\ \A q \in Parents(t.dst) : ~IsFile(q)
         /\ \/ dirs' = dirs \cup missing
            \/ \E n \in 0..Len(t.dst) : dirs' = dirs \cup {q \in missing : Len(q) < n}
  <2>1. PICK blocked \in BOOLEAN : blocked = \E q \in Parents(t.dst) : IsFile(q)
    OBVIOUS
  <2>2. \/ dirs' = IF blocked THEN dirs ELSE dirs \cup missing
        \/ ~blocked /\ \E n \in 0..Len(t.dst) : dirs' = dirs \cup {q \in missing : Len(q) < n}
        \/ /\ ~OneWord(t.dst)
           /\ \E words \in [1..MaxWords -> Paths \cup {Root}] : MakeWords(Range(words))
        \/ UNCHANGED dirs
    BY <1>1, <1>3, <2>1, Zenon DEF SaveParents
  <2> QED
    BY <2>1, <2>2
<1>8. f \in Frames /\ f.fun = "save_file" /\ f.src = t.src /\ f.dst = t.dst /\ f.pc = "open"
  BY <1>2, <1>4 DEF Frames, Labels
<1>9. FrameOK(f, call) /\ OpenFor(f)'
  BY <1>4, <1>8 DEF FrameOK, OpenFor
<1>10. Control'
  BY <1>1, <1>4, <1>5, <1>6, <1>8, <1>9, Continues, Leaves
<1>11. ASSUME NEW new \in SUBSET missing, \A q \in Parents(t.dst) : ~IsFile(q),
              \A q \in new : q # Root /\ Front(q) \in missing => Front(q) \in new,
              dirs' = dirs \cup new
       PROVE  FilesOK' /\ Contained
  <2>1. \A q \in new : /\ q \in Seq(Names) /\ ~Exists(q)
                       /\ Front(q) \in dirs \cup new
                       /\ Below(q, call.dst) \/ Below(call.dst, q)
    <3>1. TAKE q \in new
    <3>2. q \in Parents(t.dst) /\ ~Exists(q)
      BY <1>3, <3>1
    <3>3. q \in Seq(Names) /\ Below(call.dst, q)
      BY <1>4, <3>2, ParentsAre
    <3>4. q # Root
      BY <3>2 DEF FilesOK, Exists, IsDirectory
    <3>5. Front(q) \in Parents(t.dst)
      BY <1>4, <3>2, <3>4, ParentsAre
    <3>6. Front(q) \in dirs \/ Front(q) \in missing
      BY <1>3, <1>11, <3>5 DEF Exists, IsDirectory
    <3> QED
      BY <1>11, <3>2, <3>3, <3>4, <3>6
  <2> QED
    BY <1>5, <1>11, <2>1, Makes
<1>12. FilesOK' /\ Contained
  <2>1. ASSUME \A q \in Parents(t.dst) : ~IsFile(q), dirs' = dirs \cup missing
        PROVE  FilesOK' /\ Contained
    BY <1>11, <2>1
  <2>2. ASSUME \A q \in Parents(t.dst) : ~IsFile(q), NEW n \in 0..Len(t.dst),
               dirs' = dirs \cup {q \in missing : Len(q) < n}
        PROVE  FilesOK' /\ Contained
    <3>1. PICK new : new = {q \in missing : Len(q) < n}
      OBVIOUS
    <3>2. ASSUME NEW q \in new, q # Root, Front(q) \in missing
          PROVE  Front(q) \in new
      <4>1. q \in Parents(t.dst) /\ Len(q) < n
        BY <1>3, <3>1, <3>2
      <4>2. Len(q) \in Nat /\ Len(Front(q)) = Len(q) - 1
        BY <1>4, <3>2, <4>1, ParentsAre, RootIs
      <4> QED
        BY <3>1, <3>2, <4>1, <4>2
    <3>3. dirs' = dirs \cup new /\ new \in SUBSET missing
      BY <2>2, <3>1
    <3> QED
      BY <1>11, <2>2, <3>2, <3>3
  <2>3. ASSUME dirs' = dirs
        PROVE  FilesOK' /\ Contained
    BY <1>5, <2>3, Keeps DEF fs
  <2>4. ASSUME ~OneWord(t.dst),
               NEW words \in [1..MaxWords -> Paths \cup {Root}], MakeWords(Range(words))
        PROVE  FilesOK' /\ Contained
    <3>1. CutUp
      BY <1>4, <2>4 DEF CutUp, FrameOK
    <3>2. PICK new : /\ dirs' = dirs \cup new
                     /\ \A q \in new : /\ q \in Seq(Names) /\ ~Exists(q)
                                       /\ Front(q) \in dirs \cup new
      BY <2>4, WordsAre, DataDbAssumption
    <3> QED
      BY <1>5, <3>1, <3>2, Makes
  <2> QED
    BY <1>7, <2>1, <2>2, <2>3, <2>4
<1> QED
  BY <1>10, <1>12 DEF StepOK

\* save_file() truncates the file or creates it.
LEMMA SaveOpenStep ==
  ASSUME Control, FilesOK, SaveOpen
  PROVE  StepOK
<1>1. PICK t : t = Top
  OBVIOUS
<1>2. PICK f : f = [t EXCEPT !.pc = "write"]
  OBVIOUS
<1>3. /\ stack # <<>> /\ t.fun = "save_file" /\ t \in Frames
      /\ FrameOK(t, call) /\ t.dst \in Seq(Names) /\ Below(t.dst, call.dst)
  BY <1>1, AtTop DEF SaveOpen, FrameOK
<1>4. Steady /\ dirs' = dirs
  BY DEF SaveOpen, Steady
<1>5. \/ \E r \in {"success", "failure"} : Return(r) /\ UNCHANGED files
      \/ Become(f) /\ Writable(t.dst) /\ Put(t.dst, <<>>)
  BY <1>1, <1>2 DEF SaveOpen
<1>6. ASSUME Writable(t.dst), Put(t.dst, <<>>)
      PROVE  FilesOK' /\ Contained /\ IsFile(t.dst)'
  <2>1. <<>> \in Seq(Buffers)
    OBVIOUS
  <2> QED
    BY <1>3, <1>4, <1>6, <2>1, Puts
<1>7. f \in Frames /\ f.fun = "save_file" /\ f.src = t.src /\ f.dst = t.dst /\ f.pc = "write"
  BY <1>2, <1>3 DEF Frames, Labels
<1>8. FrameOK(f, call)
  BY <1>3, <1>7 DEF FrameOK
<1>9. ASSUME Become(f), Writable(t.dst), Put(t.dst, <<>>)
      PROVE  Control'
  <2>1. OpenFor(f)'
    BY <1>6, <1>7, <1>9 DEF OpenFor, IsFile
  <2> QED
    BY <1>1, <1>3, <1>4, <1>7, <1>8, <1>9, <2>1, Continues
<1> QED
  BY <1>3, <1>4, <1>5, <1>6, <1>9, Leaves, Keeps DEF StepOK, fs

\* save_file() writes a buffer.
LEMMA SaveWriteStep ==
  ASSUME Control, FilesOK, SaveWrite
  PROVE  StepOK
<1>1. PICK t : t = Top
  OBVIOUS
<1>2. PICK f : f = [t EXCEPT !.k = @ + 1]
  OBVIOUS
<1>3. PICK c : c = Append(files[t.dst], Data(t.k + 1))
  OBVIOUS
<1>4. /\ stack # <<>> /\ t.fun = "save_file" /\ t.pc = "write" /\ t \in Frames /\ t.k \in Nat
      /\ FrameOK(t, call) /\ t.dst \in Seq(Names) /\ Below(t.dst, call.dst) /\ IsFile(t.dst)
  BY <1>1, AtTop DEF SaveWrite, FrameOK, OpenFor
<1>5. Steady /\ dirs' = dirs
  BY DEF SaveWrite, Steady
<1>6. \/ Return("success") /\ UNCHANGED files
      \/ Become(f) /\ Put(t.dst, c)
  BY <1>1, <1>2, <1>3 DEF SaveWrite
<1>7. PICK k \in Nat : k = t.k + 1
  BY <1>4
<1>8. f \in Frames /\ f.fun = "save_file" /\ f.src = t.src /\ f.dst = t.dst /\ f.pc = "write"
  <2>1. f = [t EXCEPT !.k = k]
    BY <1>2, <1>7
  <2> QED
    BY <1>4, <2>1 DEF Frames
<1>9. c \in Seq(Buffers)
  <2>1. files[t.dst] \in Seq(Buffers) /\ Data(k) \in Buffers
    BY <1>4, RootIs DEF FilesOK, IsFile, Data, Buffers
  <2> QED
    BY <1>3, <1>7, <2>1
<1>10. ASSUME Become(f), Put(t.dst, c)
       PROVE  Control' /\ FilesOK' /\ Contained
  <2>1. FilesOK' /\ Contained /\ IsFile(t.dst)'
    BY <1>4, <1>5, <1>9, <1>10, Puts
  <2>2. FrameOK(f, call) /\ OpenFor(f)'
    BY <1>4, <1>8, <2>1 DEF FrameOK, OpenFor, IsFile
  <2> QED
    BY <1>1, <1>4, <1>5, <1>8, <1>10, <2>1, <2>2, Continues
<1>11. ASSUME Return("success"), UNCHANGED files
       PROVE  Control' /\ FilesOK' /\ Contained
  BY <1>4, <1>5, <1>11, Leaves, Keeps DEF fs
<1> QED
  BY <1>6, <1>10, <1>11 DEF StepOK

-----------------------------------------------------------------------------
(* The invariant.                                                           *)

\* The program finds a tree.
LEMMA InitFilesOK ==
  ASSUME Init
  PROVE  FilesOK
<1>1. PICK nodes \in SUBSET Paths, d \in SUBSET Paths :
        /\ d \subseteq nodes /\ Tree(d \cup {Root}, nodes \ d) /\ dirs = d \cup {Root}
        /\ \E length \in [nodes \ d -> Lengths] :
             files = [q \in nodes \ d |-> [k \in 1..length[q] |-> Found(q, k)]]
  BY DEF Init
<1>2. PICK length \in [nodes \ d -> Lengths] :
        files = [q \in nodes \ d |-> [k \in 1..length[q] |-> Found(q, k)]]
  BY <1>1
<1>3. DOMAIN files = nodes \ d
  BY <1>2
<1>4. \A q \in dirs \cup DOMAIN files : q \in Seq(Names)
  <2>1. Root \in Seq(Names)
    BY EmptySeq DEF Root
  <2> QED
    BY <1>1, <1>3, <2>1, PathsAre
<1>5. Root \in dirs /\ Tree(dirs, DOMAIN files) /\ dirs \cap DOMAIN files = {}
  BY <1>1, <1>3, PathsAre
<1>6. ASSUME NEW q \in DOMAIN files
      PROVE  files[q] \in Seq(Buffers)
  <2>1. PICK n \in Nat : n = length[q]
    BY <1>2, <1>3, <1>6, DataDbAssumption
  <2>2. files[q] = [k \in 1..n |-> Found(q, k)]
    BY <1>2, <1>3, <1>6, <2>1
  <2>3. \A k \in 1..n : Found(q, k) \in Buffers
    BY <1>4, <1>6 DEF Found, Buffers
  <2>4. files[q] \in [1..n -> Buffers]
    BY <2>2, <2>3
  <2> QED
    BY <2>1, <2>4, SeqDef
<1> QED
  BY <1>4, <1>5, <1>6 DEF FilesOK

\* No call runs at first.
LEMMA InitControl ==
  ASSUME Init
  PROVE  Control
<1>1. /\ stack = <<>> /\ ret = "none" /\ fails = 0 /\ calls = 0
      /\ call = [fun |-> "none", src |-> Root, dst |-> Root, len |-> 0]
  BY DEF Init
<1>2. stack \in Seq(Frames) /\ Len(stack) = 0
  BY <1>1, EmptySeq
<1>3. StackOK /\ OpenOK
  BY <1>1, <1>2 DEF StackOK, OpenOK
<1>4. CallOK
  <2>1. Root \in Seq(Names)
    BY EmptySeq DEF Root
  <2> QED
    BY <1>1, <2>1 DEF CallOK
<1>5. ResultOK
  BY <1>1, DataDbAssumption DEF ResultOK
<1> QED
  BY <1>1, <1>3, <1>4, <1>5 DEF Control, BottomOK

\* A call starts with one frame.
LEMMA StartStep ==
  ASSUME Control, FilesOK, NEW f \in Funs, NEW s \in Paths, NEW d \in Paths, NEW n \in Nat,
         f \in {"delete_dir", "delete_file"} => s = d,
         Start(f, s, d, n), calls < MaxCalls, calls' = calls + 1
  PROVE  Control' /\ FilesOK' /\ NothingElse'
<1>1. /\ call' = [fun |-> f, src |-> s, dst |-> d, len |-> n]
      /\ before' = [dirs |-> dirs, files |-> files]
      /\ ret' = "none" /\ stack' = <<Frame(f, s, d)>> /\ fails' = 0
      /\ dirs' = dirs /\ files' = files
  BY DEF Start, fs
<1>2. /\ s \in Seq(Names) /\ Len(s) \in Nat \ {0} /\ d \in Seq(Names) /\ Len(d) \in Nat \ {0}
      /\ Below(d, d)
  BY PathsAre, BelowOrder
<1>3. PICK h : h = Frame(f, s, d)
  OBVIOUS
<1>4. FrameOK(h, call') /\ h.fun = f /\ h.src = s /\ h.pc = "start"
  <2>1. PICK c : c = call'
    OBVIOUS
  <2>2. c.fun = f /\ c.dst = d
    BY <1>1, <2>1
  <2>3. FrameOK(h, c) /\ h.fun = f /\ h.src = s /\ h.pc = "start"
    BY <1>2, <1>3, <2>2, NewFrame
  <2> QED
    BY <2>1, <2>3
<1>5. h \in Frames
  BY <1>4 DEF FrameOK
<1>6. stack' = <<h>> /\ stack' \in Seq(Frames) /\ Len(stack') = 1 /\ stack'[1] = h
  BY <1>1, <1>3, <1>5
<1>7. Deep(h) >= 1
  <2>1. CASE f \in Walkers
    BY <1>2, <1>4, <2>1 DEF Deep
  <2>2. CASE f \notin Walkers
    BY <1>2, <1>4, <2>2 DEF Deep
  <2> QED
    BY <2>1, <2>2
<1>8. StackOK'
  <2>1. ASSUME NEW j \in 1..1
        PROVE  FrameOK(stack'[j], call') /\ ~(j < 1) /\ j <= Deep(stack'[j])
    <3>1. j = 1 /\ stack'[j] = h
      BY <1>1, <1>6, <2>1
    <3> QED
      BY <1>4, <1>7, <3>1
  <2> QED
    BY <1>6, <2>1 DEF StackOK
<1>9. OpenOK'
  <2>1. Top' = h
    BY <1>6 DEF Top, Last
  <2> QED
    BY <1>4, <2>1 DEF OpenOK, OpenFor
<1>10. CallOK'
  BY <1>1, <1>2 DEF CallOK
<1>11. ResultOK'
  BY <1>1, DataDbAssumption DEF ResultOK, Control
<1>12. FilesOK' /\ NothingElse'
  BY <1>1 DEF FilesOK, Tree, NothingElse
<1>13. BottomOK'
  BY <1>1, <1>4, <1>6 DEF BottomOK
<1> QED
  BY <1>8, <1>9, <1>10, <1>11, <1>12, <1>13 DEF Control

\* DATADB is called.
LEMMA CallStep ==
  ASSUME Control, FilesOK, Call
  PROVE  Control' /\ FilesOK' /\ NothingElse'
<1>1. calls < MaxCalls /\ calls' = calls + 1
  BY DEF Call
<1>2. \E f \in Funs, s \in Paths, d \in Paths, n \in Nat :
        /\ f \in {"delete_dir", "delete_file"} => s = d
        /\ Start(f, s, d, n)
  <2>1. Lengths \in SUBSET Nat /\ 0 \in Nat
    BY DataDbAssumption
  <2> QED
    BY <2>1, Zenon DEF Call, Funs
<1> QED
  BY <1>1, <1>2, StartStep

\* A step of the running call, or its death.
LEMMA RunStep ==
  ASSUME Control, FilesOK, Run \/ Crash
  PROVE  StepOK
<1>1. ASSUME Crash
      PROVE  StepOK
  <2>1. stack # <<>> /\ Steady /\ Dies /\ UNCHANGED fs
    BY <1>1 DEF Crash, Steady, Dies
  <2> QED
    BY <2>1, Ends, Keeps DEF StepOK
<1> QED
  BY <1>1, MakeDirStep, CopyAccessStep, CopyOpenStep, CopyChunkStep,
     DirCopyStartStep, DirCopyNullStep, DirCopyEntryStep, DirCopyEndStep,
     DeleteStartStep, DeleteEntryStep, DeleteSelfStep, DeleteFileStep,
     SaveParentsStep, SaveOpenStep, SaveWriteStep DEF Run

\* Every step keeps the invariant.
LEMMA InvStep ==
  ASSUME Control, FilesOK, [Next]_vars
  PROVE  Control' /\ FilesOK'
<1>1. CASE Call
  BY <1>1, CallStep
<1>2. CASE Run \/ Crash
  BY <1>2, RunStep DEF StepOK
<1>3. CASE UNCHANGED vars
  <2>1. UNCHANGED <<dirs, files, stack, ret, call, fails, calls>>
    BY <1>3 DEF vars
  <2>2. FilesOK' /\ StackOK' /\ CallOK' /\ ResultOK' /\ BottomOK'
    BY <2>1 DEF Control, FilesOK, Tree, StackOK, CallOK, ResultOK, BottomOK
  <2>3. OpenOK'
    BY <2>1 DEF Control, OpenOK, OpenFor, Top, IsFile
  <2> QED
    BY <2>2, <2>3 DEF Control
<1> QED
  BY <1>1, <1>2, <1>3 DEF Next

\* The invariant holds.
LEMMA InvHolds == Spec => [](Control /\ FilesOK)
<1>1. Init => Control /\ FilesOK
  BY InitControl, InitFilesOK
<1>2. Control /\ FilesOK /\ [Next]_vars => (Control /\ FilesOK)'
  BY InvStep
<1> QED
  BY <1>1, <1>2, PTL DEF Spec

\* The file system of DATADB's callers stays a tree of well-formed paths and the
\* functions call one another no deeper than the path they work on, whatever
\* fails and wherever the process dies.
THEOREM TypeCorrect == Spec => []TypeOK
<1>1. Control /\ FilesOK => TypeOK
  <2> SUFFICES ASSUME Control, FilesOK PROVE TypeOK
    OBVIOUS
  <2>1. /\ \A q \in dirs \cup DOMAIN files : q \in Seq(Names)
        /\ Root \in dirs /\ Tree(dirs, DOMAIN files) /\ dirs \cap DOMAIN files = {}
        /\ \A q \in DOMAIN files : files[q] \in Seq(Seq(Names) \X Nat)
    BY DEF FilesOK, Buffers
  <2>2. ASSUME NEW j \in DOMAIN stack
        PROVE  stack[j].fun \in Funs /\ j <= Len(stack[j].src) + 1
    <3>1. stack \in Seq(Frames) /\ j \in 1..Len(stack)
      BY LenProperties DEF Control, StackOK
    <3>2. PICK t \in Frames : t = stack[j]
      BY <3>1, ElementOfSeq
    <3>3. j <= Deep(t) /\ t.fun \in Funs /\ Len(t.src) \in Nat /\ j \in Nat
      BY <3>1, <3>2, RootIs, LenProperties DEF Control, StackOK, Frames
    <3>4. j <= Len(t.src) + 1
      <4>1. CASE t.fun \in Walkers
        BY <3>3, <4>1 DEF Deep
      <4>2. CASE t.fun \notin Walkers
        BY <3>3, <4>2 DEF Deep
      <4> QED
        BY <4>1, <4>2
    <3> QED
      BY <3>2, <3>3, <3>4
  <2>3. /\ ret \in {"none", "died", "success", "failure"}
        /\ fails \in 0..MaxFails /\ calls \in 0..MaxCalls
    BY DEF Control, ResultOK
  <2> QED
    BY <2>1, <2>2, <2>3 DEF TypeOK
<1> QED
  BY <1>1, InvHolds, PTL

\* Whatever fails and wherever the process dies, a call of DATADB touches nothing
\* but what is at or below its destination, and makes parents of it; only a
\* save_file() whose path the shell does not take as one word may make directories
\* elsewhere, and it too touches no file and takes no directory away.
THEOREM TouchesNothingElse == Spec => []NothingElse
<1>1. Init => NothingElse
  BY DEF Init, NothingElse
<1>2. ASSUME Control, FilesOK, NothingElse, [Next]_vars
      PROVE  NothingElse'
  <2>1. CASE Call
    BY <1>2, <2>1, CallStep
  <2>2. CASE Run \/ Crash
    <3>1. Contained
      BY <1>2, <2>2, RunStep DEF StepOK
    <3>2. call' = call /\ before' = before
      BY <2>2 DEF ghosts, Run, Crash, MakeDir, CopyAccess, CopyOpen, CopyChunk,
        DirCopyStart, DirCopyNull, DirCopyEntry, DirCopyEnd,
        DeleteStart, DeleteEntry, DeleteSelf, DeleteFile, SaveParents, SaveOpen, SaveWrite
    <3> QED
      BY <1>2, <3>1, <3>2, ContainedStep
  <2>3. CASE UNCHANGED vars
    BY <1>2, <2>3 DEF vars, NothingElse, CutUp
  <2> QED
    BY <1>2, <2>1, <2>2, <2>3 DEF Next
<1> QED
  BY <1>1, <1>2, InvHolds, PTL DEF Spec

-----------------------------------------------------------------------------
(* delete_dir(): an empty directory has nothing below it.                   *)

\* Every ancestor of a node is there: the outermost one that were missing would
\* be the parent of a node.
LEMMA Ancestors ==
  ASSUME NEW D, NEW F, \A p \in D \cup F : p \in Seq(Names), Tree(D, F),
         NEW q \in D \cup F, NEW n \in 0..Len(q)
  PROVE  SubSeq(q, 1, n) \in D \cup F
<1> DEFINE Nodes == D \cup F
           T == {m \in Nat : m <= Len(q) /\ SubSeq(q, 1, Len(q) - m) \notin Nodes}
<1>1. q \in Seq(Names) /\ Len(q) \in Nat
  BY RootIs
<1>2. T = {}
  <2> SUFFICES ASSUME T # {} PROVE FALSE
    OBVIOUS
  <2>1. T \subseteq Nat
    OBVIOUS
  <2>2. \E x \in T : \A y \in T : ~(<<y, x>> \in OpToRel(<, Nat))
    BY <2>1, NatLessThanWellFounded, WFMin, Zenon
  <2>3. PICK x \in T : \A y \in T : ~(y < x)
    BY <2>1, <2>2 DEF OpToRel
  <2>4. x \in Nat /\ x <= Len(q) /\ SubSeq(q, 1, Len(q) - x) \notin Nodes
    OBVIOUS
  <2>5. x # 0
    <3>1. Len(q) - 0 = Len(q) /\ SubSeq(q, 1, Len(q)) = q
      BY <1>1, SubSeqFull
    <3> QED
      BY <2>4, <3>1
  <2>6. PICK m \in 1..Len(q) : m = Len(q) - x + 1
    <3>1. Len(q) - x + 1 \in 1..Len(q)
      <4> HIDE DEF T
      <4>1. PICK l \in Nat : l = Len(q)
        BY <1>1
      <4> QED
        BY <2>4, <2>5, <4>1
    <3> QED
      BY <3>1
  <2>7. SubSeq(q, 1, m) \in Nodes
    <3>1. x - 1 \in Nat /\ x - 1 < x /\ x - 1 <= Len(q) /\ Len(q) - (x - 1) = m
      BY <1>1, <2>4, <2>5, <2>6
    <3>2. x - 1 \notin T
      BY <2>3, <3>1
    <3> QED
      BY <3>1, <3>2
  <2>8. Front(SubSeq(q, 1, m)) = SubSeq(q, 1, m - 1) /\ SubSeq(q, 1, m) # Root
    BY <1>1, InitialFront
  <2>9. Front(SubSeq(q, 1, m)) \in D
    BY <2>7, <2>8 DEF Tree
  <2>10. m - 1 = Len(q) - x
    BY <1>1, <2>4, <2>6
  <2> QED
    BY <2>4, <2>8, <2>9, <2>10
<1>3. Len(q) - n \in Nat /\ Len(q) - n <= Len(q) /\ Len(q) - (Len(q) - n) = n
  BY <1>1
<1>4. Len(q) - n \notin T
  BY <1>2
<1> QED
  BY <1>3, <1>4

\* Nothing is strictly below a directory without entries.
LEMMA NothingBelow ==
  ASSUME FilesOK, NEW d \in Seq(Names), Entries(d) = {".", ".."},
         NEW q \in dirs \cup DOMAIN files, Below(q, d)
  PROVE  q = d
<1> SUFFICES ASSUME q # d PROVE FALSE
  OBVIOUS
<1>1. q \in Seq(Names) /\ Len(q) \in Nat /\ Len(d) \in Nat
  BY RootIs DEF FilesOK
<1>2. Len(d) <= Len(q) /\ \A i \in 1..Len(d) : q[i] = d[i]
  BY <1>1, BelowIs
<1>3. Len(d) # Len(q)
  BY <1>1, <1>2, PathEqual
<1>4. PICK n \in 1..Len(q) : n = Len(d) + 1
  BY <1>1, <1>2, <1>3
<1>5. n \in 0..Len(q) /\ n - 1 = Len(d) /\ Len(d) \in 0..Len(q)
  BY <1>1, <1>2, <1>4
<1>6. PICK a : a = SubSeq(q, 1, n)
  OBVIOUS
<1>7. a \in dirs \cup DOMAIN files
  BY <1>5, <1>6, Ancestors DEF FilesOK
<1>8. Front(a) = SubSeq(q, 1, Len(d)) /\ a # Root
  BY <1>1, <1>5, <1>6, InitialFront
<1>9. SubSeq(q, 1, Len(d)) = d
  <2>1. PICK p \in Seq(Names) : /\ p = SubSeq(q, 1, Len(d)) /\ Len(p) = Len(d)
                                /\ \A i \in 1..Len(d) : p[i] = q[i]
    <3>1. PICK l \in 0..Len(q) : l = Len(d)
      BY <1>5
    <3>2. PICK p \in Seq(Names) : p = SubSeq(q, 1, l) /\ Len(p) = l /\ \A i \in 1..l : p[i] = q[i]
      <4>1. /\ SubSeq(q, 1, l) \in Seq(Names) /\ Len(SubSeq(q, 1, l)) = l
            /\ \A i \in 1..l : SubSeq(q, 1, l)[i] = q[i]
        BY <1>1, Initial
      <4> QED
        BY <4>1
    <3> QED
      BY <3>1, <3>2
  <2> QED
    BY <1>2, <2>1, PathEqual
<1> QED
  BY <1>7, <1>8, <1>9, EntriesAre

\* Once delete_dir() has looked at its path, there is no file there.
DeleteInv ==
  /\ call.fun = "delete_dir" /\ stack # <<>> /\ stack[1].pc # "start" => ~IsFile(call.src)
  /\ DeleteDone

\* A step that ends delete_dir() with success removes an empty directory that was opened.
LEMMA DeleteStep ==
  ASSUME Control, FilesOK, DeleteInv, [Next]_vars
  PROVE  DeleteInv'
<1>1. CASE Call
  <2>1. \E f, s, d, n : Start(f, s, d, n)
    BY <1>1, Zenon DEF Call
  <2>2. PICK h : stack' = <<h>> /\ h.pc = "start" /\ ret' = "none"
    BY <2>1 DEF Start, Frame
  <2> QED
    BY <2>2 DEF DeleteInv, DeleteDone, Returned
<1>2. CASE Run \/ Crash
  <2>1. stack # <<>>
    BY <1>2 DEF Run, Crash, In, MakeDir, CopyAccess, CopyOpen, CopyChunk,
      DirCopyStart, DirCopyNull, DirCopyEntry, DirCopyEnd,
      DeleteStart, DeleteEntry, DeleteSelf, DeleteFile, SaveParents, SaveOpen, SaveWrite
  <2> SUFFICES ASSUME call'.fun = "delete_dir"
               PROVE  DeleteInv'
    BY DEF DeleteInv, DeleteDone, Returned
  <2>2. call' = call
    BY <1>2 DEF ghosts, Run, Crash, MakeDir, CopyAccess, CopyOpen, CopyChunk,
      DirCopyStart, DirCopyNull, DirCopyEntry, DirCopyEnd,
      DeleteStart, DeleteEntry, DeleteSelf, DeleteFile, SaveParents, SaveOpen, SaveWrite
  <2>3. Top.fun = "delete_dir" /\ Top \in Frames
    BY <2>1, <2>2, TopIs DEF Control, FrameOK
  <2>4. ret = "none" /\ stack[1].src = call.src
    BY <2>1 DEF Control, BottomOK
  <2>5. Len(stack) = 1 => Top = stack[1]
    BY <2>1, First
  <2>6. DeleteStart \/ DeleteEntry \/ DeleteSelf \/ Crash
    BY <1>2, <2>3 DEF Run, In, MakeDir, CopyAccess, CopyOpen, CopyChunk,
      DirCopyStart, DirCopyNull, DirCopyEntry, DirCopyEnd,
      DeleteFile, SaveParents, SaveOpen, SaveWrite
  <2>7. CASE DeleteStart
    <3>1. PICK f \in Frames : f = [Top EXCEPT !.pc = "scan", !.had = Entries(Top.src)]
      <4>1. Entries(Top.src) \in SUBSET EntryNames
        BY <2>3, EntryIs DEF Frames
      <4> QED
        BY <2>3, <4>1 DEF Frames, Labels
    <3>2. UNCHANGED files /\ ((IsDirectory(Top.src) /\ Become(f)) \/ Return("failure"))
      BY <2>7, <3>1 DEF DeleteStart, fs
    <3>3. ASSUME IsDirectory(Top.src), Become(f)
          PROVE  DeleteInv'
      <4>1. stack' # <<>> /\ stack'[1] = IF Len(stack) = 1 THEN f ELSE stack[1]
        BY <2>1, <3>3, First DEF Become
      <4>2. Len(stack) = 1 => ~IsFile(call.src)
        BY <2>4, <2>5, <3>3 DEF IsDirectory, IsFile, FilesOK
      <4> QED
        BY <2>1, <2>2, <3>2, <4>1, <4>2 DEF DeleteInv, DeleteDone, Returned, IsFile
    <3>4. ASSUME Return("failure")
          PROVE  DeleteInv'
      <4>1. stack' = <<>> \/ stack'[1] = stack[1]
        BY <2>1, <3>4, First DEF Return
      <4>2. ret' # "success"
        BY <2>4, <3>4 DEF Return
      <4> QED
        BY <2>1, <2>2, <3>2, <4>1, <4>2 DEF DeleteInv, DeleteDone, Returned, IsFile
    <3> QED
      BY <3>2, <3>3, <3>4
  <2>8. CASE DeleteEntry
    <3>1. PICK t \in Frames : t = Top
      BY <2>3
    <3>2. t.fun = "delete_dir" /\ t.pc = "scan" /\ t.src \in Seq(Names) /\ (Len(stack) = 1 => t = stack[1])
      BY <2>3, <2>5, <2>8, <3>1 DEF DeleteEntry, In, Frames
    <3>3. DOMAIN files' \subseteq DOMAIN files
      BY <2>8 DEF DeleteEntry, Unlink
    <3>4. ASSUME NEW f \in Frames, Become(f) \/ \E g \in Frames : CallFrom(f, g)
          PROVE  stack' # <<>> /\ (Len(stack) = 1 \/ stack'[1] = stack[1])
      BY <2>1, <3>4, First DEF Become, CallFrom
    <3>5. \E f \in Frames : Become(f) \/ \E g \in Frames : CallFrom(f, g)
      <4>1. \/ Become([t EXCEPT !.pc = "remove"])
            \/ \E n \in Entries(t.src) :
                 \/ Become([t EXCEPT !.done = @ \cup {n}])
                 \/ ~Skipped(n) /\ CallFrom([t EXCEPT !.done = @ \cup {n}],
                                            Frame("delete_dir", Walk(t.src, n), Walk(t.src, n)))
        BY <2>8, <3>1, Zenon DEF DeleteEntry, NextEntries
      <4>2. [t EXCEPT !.pc = "remove"] \in Frames
        BY DEF Frames, Labels
      <4>3. \A n \in Entries(t.src) : [t EXCEPT !.done = @ \cup {n}] \in Frames
        BY <3>2, EntryIs DEF Frames
      <4>4. ASSUME NEW n \in Entries(t.src), ~Skipped(n)
            PROVE  Frame("delete_dir", Walk(t.src, n), Walk(t.src, n)) \in Frames
        <5>1. Walk(t.src, n) \in Seq(Names)
          <6>1. n \in Names /\ Walk(t.src, n) = Append(t.src, n)
            BY <3>2, <4>4, EntryIs
          <6> QED
            BY <3>2, <6>1, EntryBelow
        <5> QED
          BY <5>1 DEF Frame, Frames, Funs, Labels
      <4> QED
        BY <4>1, <4>2, <4>3, <4>4
    <3> QED
      BY <2>1, <2>2, <3>2, <3>3, <3>4, <3>5 DEF DeleteInv, DeleteDone, Returned, IsFile
  <2>9. CASE DeleteSelf
    <3>1. PICK d \in Seq(Names) : d = Top.src
      BY <2>3 DEF Frames
    <3>2. \/ Entries(d) = {".", ".."} /\ dirs' = dirs \ {d} /\ Return("success") /\ UNCHANGED files
          \/ Dies
      BY <2>9, <3>1 DEF DeleteSelf
    <3>3. Top.pc = "remove"
      BY <2>9 DEF DeleteSelf, In
    <3>4. ASSUME Entries(d) = {".", ".."}, dirs' = dirs \ {d}, Return("success"), UNCHANGED files,
                 Len(stack) = 1
          PROVE  DeleteInv'
      <4>1. d = call.src /\ d \notin DOMAIN files
        BY <2>1, <2>2, <2>4, <2>5, <3>1, <3>3, <3>4 DEF DeleteInv, IsFile
      <4>2. \A q \in dirs' \cup DOMAIN files' : ~Below(q, d)
        BY <3>4, <4>1, NothingBelow
      <4>3. stack' = <<>>
        BY <2>1, <3>4, First DEF Return
      <4> QED
        BY <2>2, <4>1, <4>2, <4>3 DEF DeleteInv, DeleteDone
    <3>5. ASSUME Return("success"), UNCHANGED files, Len(stack) # 1
          PROVE  DeleteInv'
      <4>1. stack' # <<>> /\ stack'[1] = stack[1]
        BY <2>1, <3>5, First DEF Return
      <4> QED
        BY <2>1, <2>2, <3>5, <4>1 DEF DeleteInv, DeleteDone, Returned, IsFile
    <3>6. ASSUME Dies
          PROVE  DeleteInv'
      BY <3>6 DEF Dies, DeleteInv, DeleteDone, Returned
    <3> QED
      BY <3>2, <3>4, <3>5, <3>6
  <2>10. CASE Crash
    BY <2>10 DEF Crash, Dies, DeleteInv, DeleteDone, Returned
  <2> QED
    BY <2>6, <2>7, <2>8, <2>9, <2>10
<1>3. CASE UNCHANGED vars
  BY <1>3 DEF vars, DeleteInv, DeleteDone, Returned, IsFile
<1> QED
  BY <1>1, <1>2, <1>3 DEF Next

\* When delete_dir() reports success, nothing is left at or below its path,
\* although it ignores what the calls it makes on the way return.
THEOREM DeletedIsGone == Spec => []DeleteDone
<1>1. Init => DeleteInv
  <2> SUFFICES ASSUME Init PROVE DeleteInv
    OBVIOUS
  <2>1. stack = <<>> /\ call.fun = "none"
    BY DEF Init
  <2> QED
    BY <2>1 DEF DeleteInv, DeleteDone, Returned
<1>2. Control /\ FilesOK /\ DeleteInv /\ [Next]_vars => DeleteInv'
  BY DeleteStep
<1>3. DeleteInv => DeleteDone
  BY DEF DeleteInv
<1> QED
  BY <1>1, <1>2, <1>3, InvHolds, PTL DEF Spec

-----------------------------------------------------------------------------
(* save_file(): the file is as before, or holds the data so far.            *)

AsBefore ==
  /\ IsFile(call.dst) <=> call.dst \in DOMAIN before.files
  /\ IsFile(call.dst) => files[call.dst] = before.files[call.dst]
Written(k) == [j \in 1..k |-> Data(j)]

\* Until the file is opened nothing is changed; then it holds what is written.
SaveInv ==
  /\ call.fun = "save_file" /\ stack # <<>> =>
       \/ Top.pc \in {"start", "open"} /\ Top.k = 0 /\ AsBefore
       \/ /\ Top.pc = "write" /\ Top.k <= call.len
          /\ IsFile(call.dst) /\ files[call.dst] = Written(Top.k)
  /\ SaveDone

\* What is written is a part of the data from its beginning.
LEMMA WrittenIs ==
  ASSUME NEW k \in Nat
  PROVE  /\ Written(k) \in Seq(Buffers) /\ Len(Written(k)) = k
         /\ \A n \in Nat : k <= n => IsPrefix(Written(k), Written(n))
         /\ Append(Written(k), Data(k + 1)) = Written(k + 1)
         /\ Written(0) = <<>>
<1>1. ASSUME NEW n \in Nat
      PROVE  /\ Written(n) \in Seq(Buffers) /\ Len(Written(n)) = n
             /\ \A j \in 1..n : Written(n)[j] = Data(j)
  <2>1. Root \in Seq(Names)
    BY EmptySeq DEF Root
  <2>2. \A j \in 1..n : Data(j) \in Buffers
    BY <2>1 DEF Data, Buffers
  <2>3. Written(n) \in [1..n -> Buffers] /\ \A j \in 1..n : Written(n)[j] = Data(j)
    BY <2>2 DEF Written
  <2>4. Written(n) \in Seq(Buffers)
    BY <2>3, SeqDef
  <2> QED
    BY <2>3, <2>4, LenProperties
<1>2. ASSUME NEW n \in Nat, k <= n
      PROVE  IsPrefix(Written(k), Written(n))
  <2>1. PICK a \in Seq(Buffers) : a = Written(k) /\ Len(a) = k /\ \A j \in 1..k : a[j] = Data(j)
    BY <1>1
  <2>2. PICK b \in Seq(Buffers) : b = Written(n) /\ Len(b) = n /\ \A j \in 1..n : b[j] = Data(j)
    BY <1>1
  <2>3. \A j \in 1..k : b[j] = a[j]
    BY <1>2, <2>1, <2>2
  <2> QED
    BY <1>2, <2>1, <2>2, <2>3, PrefixIs
<1>3. Append(Written(k), Data(k + 1)) = Written(k + 1)
  <2>1. PICK a \in Seq(Buffers) : a = Written(k) /\ Len(a) = k /\ \A j \in 1..k : a[j] = Data(j)
    BY <1>1
  <2>2. PICK n \in Nat : n = k + 1
    OBVIOUS
  <2>3. PICK b \in Seq(Buffers) : b = Written(n) /\ Len(b) = n /\ \A j \in 1..n : b[j] = Data(j)
    BY <1>1
  <2>4. Data(n) \in Buffers
    BY EmptySeq DEF Data, Buffers, Root
  <2>5. PICK c \in Seq(Buffers) : /\ c = Append(a, Data(n)) /\ Len(c) = n
                                  /\ c[n] = Data(n) /\ \A j \in 1..k : c[j] = a[j]
    <3>1. /\ Append(a, Data(n)) \in Seq(Buffers) /\ Len(Append(a, Data(n))) = k + 1
          /\ Append(a, Data(n))[k + 1] = Data(n) /\ \A j \in 1..k : Append(a, Data(n))[j] = a[j]
      BY <2>1, <2>4, LenProperties
    <3> QED
      BY <2>2, <3>1
  <2>6. \A j \in 1..n : c[j] = b[j]
    <3>1. TAKE j \in 1..n
    <3>2. j = n \/ j \in 1..k
      BY <2>2
    <3> QED
      BY <2>1, <2>3, <2>5, <3>2
  <2>7. c = b
    BY <2>3, <2>5, <2>6, SeqEqual
  <2> QED
    BY <2>1, <2>2, <2>3, <2>5, <2>7
<1>4. Written(0) = <<>>
  BY <1>1, EmptySeq
<1> QED
  BY <1>1, <1>2, <1>3, <1>4

\* Each step of save_file() leaves the file as before or adds to what is written.
LEMMA SaveStep ==
  ASSUME Control, FilesOK, SaveInv, [Next]_vars
  PROVE  SaveInv'
<1>1. CASE Call
  <2>1. \E f, s, d, n : Start(f, s, d, n)
    BY <1>1, Zenon DEF Call
  <2>2. PICK h : stack' = <<h>> /\ h.pc = "start" /\ h.k = 0
    BY <2>1 DEF Start, Frame
  <2>3. Top' = h
    BY <2>2 DEF Top, Last
  <2>4. AsBefore' /\ ret' # "success"
    BY <2>1 DEF Start, AsBefore, IsFile, fs
  <2>5. call'.len \in Nat
    BY <1>1, CallStep DEF Control, CallOK
  <2>6. call'.fun = "save_file" => SaveDone'
    <3> SUFFICES ASSUME call'.fun = "save_file" PROVE SaveDone'
      OBVIOUS
    <3> QED
      BY <2>4 DEF SaveDone, AsBefore
  <2> QED
    BY <2>2, <2>3, <2>4, <2>6 DEF SaveInv, SaveDone
<1>2. CASE Run \/ Crash
  <2>1. stack # <<>>
    BY <1>2 DEF Run, Crash, In, MakeDir, CopyAccess, CopyOpen, CopyChunk,
      DirCopyStart, DirCopyNull, DirCopyEntry, DirCopyEnd,
      DeleteStart, DeleteEntry, DeleteSelf, DeleteFile, SaveParents, SaveOpen, SaveWrite
  <2> SUFFICES ASSUME call'.fun = "save_file"
               PROVE  SaveInv'
    BY DEF SaveInv, SaveDone
  <2>2. call' = call /\ before' = before
    BY <1>2 DEF ghosts, Run, Crash, MakeDir, CopyAccess, CopyOpen, CopyChunk,
      DirCopyStart, DirCopyNull, DirCopyEntry, DirCopyEnd,
      DeleteStart, DeleteEntry, DeleteSelf, DeleteFile, SaveParents, SaveOpen, SaveWrite
  <2>3. ret = "none" /\ call.len \in Nat /\ fails \in Nat
    BY <2>1 DEF Control, BottomOK, CallOK, ResultOK
  <2>4. Len(stack) = 1 /\ Top = stack[1]
    <3>1. 1 \in 1..Len(stack) /\ Len(stack) \in Nat
      BY <2>1, TopIs DEF Control
    <3>2. stack[1].fun \notin Walkers
      BY <2>1, <2>2 DEF Control, BottomOK, Walkers
    <3>3. ~(1 < Len(stack))
      BY <3>1, <3>2 DEF Control, StackOK
    <3>4. Len(stack) = 1
      <4>1. PICK n \in Nat : n = Len(stack)
        BY <3>1
      <4>2. 1 \in 1..n /\ ~(1 < n) => n = 1
        OBVIOUS
      <4> QED
        BY <3>1, <3>3, <4>1, <4>2
    <3> QED
      BY <2>1, <3>4, First
  <2>5. PICK t \in Frames : t = Top /\ t.fun = "save_file" /\ t.dst = call.dst /\ t.k \in Nat
    BY <2>1, <2>2, <2>4, TopIs DEF Control, BottomOK, FrameOK, Frames
  <2>6. SaveParents \/ SaveOpen \/ SaveWrite \/ Crash
    BY <1>2, <2>5 DEF Run, In, MakeDir, CopyAccess, CopyOpen, CopyChunk,
      DirCopyStart, DirCopyNull, DirCopyEntry, DirCopyEnd,
      DeleteStart, DeleteEntry, DeleteSelf, DeleteFile
  <2>7. ASSUME NEW f \in Frames, Become(f)
        PROVE  stack' # <<>> /\ Top' = f /\ ret' = "none"
    BY <2>1, <2>3, <2>7, ReplaceTop DEF Become, Top, Control, StackOK
  <2>8. ASSUME NEW r, Return(r)
        PROVE  stack' = <<>> /\ ret' = r
    BY <2>1, <2>4, <2>8, First DEF Return
  <2>9. CASE SaveParents
    <3>1. PICK f \in Frames : f = [t EXCEPT !.pc = "open"]
      BY DEF Frames, Labels
    <3>2. t.pc = "start" /\ t.k = 0 /\ AsBefore
      BY <2>1, <2>2, <2>5, <2>9 DEF SaveInv, SaveParents, In
    <3>3. files' = files /\ (Become(f) \/ Return("failure"))
      BY <2>5, <2>9, <3>1 DEF SaveParents
    <3>4. f.pc = "open" /\ f.k = 0
      BY <3>1, <3>2 DEF Frames
    <3>5. AsBefore' /\ ret' # "success"
      BY <2>2, <2>7, <2>8, <3>2, <3>3 DEF AsBefore, IsFile
    <3>6. SaveDone'
      BY <2>2, <3>5 DEF SaveDone, AsBefore
    <3> QED
      BY <2>7, <2>8, <3>3, <3>4, <3>5, <3>6 DEF SaveInv
  <2>10. CASE SaveOpen
    <3>1. PICK f \in Frames : f = [t EXCEPT !.pc = "write"]
      BY DEF Frames, Labels
    <3>2. t.pc = "open" /\ t.k = 0 /\ AsBefore
      BY <2>1, <2>2, <2>5, <2>10 DEF SaveInv, SaveOpen, In
    <3>3. \/ UNCHANGED files /\ Return("failure")
          \/ Put(t.dst, <<>>) /\ Become(f)
      BY <2>5, <2>10, <3>1 DEF SaveOpen
    <3>4. f.pc = "write" /\ f.k = 0
      BY <3>1, <3>2 DEF Frames
    <3>5. CASE UNCHANGED files /\ Return("failure")
      <4>1. AsBefore' /\ ret' # "success" /\ stack' = <<>>
        BY <2>2, <2>8, <3>2, <3>5 DEF AsBefore, IsFile
      <4>2. SaveDone'
        BY <2>2, <4>1 DEF SaveDone, AsBefore
      <4> QED
        BY <4>1, <4>2 DEF SaveInv
    <3>6. CASE Put(t.dst, <<>>) /\ Become(f)
      <4>1. call.dst \in DOMAIN files' /\ files'[call.dst] = Written(0)
        BY <2>5, <3>6, WrittenIs DEF Put
      <4>2. IsFile(call.dst)' /\ ret' # "success"
        BY <2>2, <2>7, <3>6, <4>1 DEF IsFile
      <4>3. SaveDone'
        <5>1. 0 \in Nat /\ 0 <= call.len
          BY <2>3
        <5>2. IsPrefix(Written(0), Written(call.len))
          BY <2>3, <5>1, WrittenIs
        <5> QED
          BY <2>2, <4>1, <4>2, <5>2 DEF SaveDone, Written
      <4> QED
        BY <2>2, <2>3, <2>7, <3>4, <3>6, <4>1, <4>2, <4>3 DEF SaveInv
    <3> QED
      BY <3>3, <3>5, <3>6
  <2>11. CASE SaveWrite
    <3>1. PICK k \in Nat : k = t.k + 1
      BY <2>5
    <3>2. PICK f \in Frames : f = [t EXCEPT !.k = k]
      BY DEF Frames
    <3>3. t.pc = "write" /\ t.k <= call.len /\ IsFile(call.dst) /\ files[call.dst] = Written(t.k)
      BY <2>1, <2>2, <2>5, <2>11 DEF SaveInv, SaveWrite, In
    <3>4. \/ t.k < call.len /\ Put(t.dst, Append(files[t.dst], Data(k))) /\ Become(f)
          \/ t.k = call.len /\ Return("success") /\ UNCHANGED files
          \/ fails' = fails + 1 /\ Return("success") /\ UNCHANGED files
      BY <2>5, <2>11, <3>1, <3>2 DEF SaveWrite, Fails
    <3>5. CASE t.k < call.len /\ Put(t.dst, Append(files[t.dst], Data(k))) /\ Become(f)
      <4>1. f.pc = "write" /\ f.k = k /\ k <= call.len
        BY <2>3, <2>5, <3>1, <3>2, <3>3, <3>5 DEF Frames
      <4>2. call.dst \in DOMAIN files' /\ files'[call.dst] = Written(k)
        BY <2>5, <3>1, <3>3, <3>5, WrittenIs DEF Put
      <4>3. ret' # "success"
        BY <2>7, <3>5
      <4>4. IsPrefix(files'[call.dst], Written(call.len))
        BY <2>3, <4>1, <4>2, WrittenIs
      <4>5. SaveDone'
        BY <2>2, <4>2, <4>3, <4>4 DEF SaveDone, Written, IsFile
      <4> QED
        BY <2>2, <2>7, <3>5, <4>1, <4>2, <4>5 DEF SaveInv, IsFile
    <3>6. CASE Return("success") /\ UNCHANGED files /\ (t.k = call.len \/ fails' = fails + 1)
      <4>1. IsPrefix(files'[call.dst], Written(call.len))
        BY <2>3, <2>5, <3>3, <3>6, WrittenIs
      <4>2. fails' = 0 => files'[call.dst] = Written(call.len)
        BY <2>3, <3>3, <3>6
      <4>3. call.dst \in DOMAIN files'
        BY <3>3, <3>6 DEF IsFile
      <4>4. SaveDone'
        BY <2>2, <4>1, <4>2, <4>3 DEF SaveDone, Written, IsFile
      <4> QED
        BY <2>8, <3>6, <4>4 DEF SaveInv
    <3> QED
      BY <3>4, <3>5, <3>6
  <2>12. CASE Crash
    <3>1. stack' = <<>> /\ ret' = "died" /\ files' = files
      BY <2>12 DEF Crash, Dies, fs
    <3>2. SaveDone'
      BY <2>2, <3>1 DEF SaveInv, SaveDone, IsFile
    <3> QED
      BY <3>1, <3>2 DEF SaveInv
  <2> QED
    BY <2>6, <2>9, <2>10, <2>11, <2>12
<1>3. CASE UNCHANGED vars
  BY <1>3 DEF vars, SaveInv, SaveDone, AsBefore, IsFile, Top
<1> QED
  BY <1>1, <1>2, <1>3 DEF Next

\* At any time and after any failure or death in save_file() the file is as
\* before or holds the first buffers of the data; all of them when it succeeded
\* and no system call failed.
THEOREM SavedInOrder == Spec => []SaveDone
<1>1. Init => SaveInv
  <2> SUFFICES ASSUME Init PROVE SaveInv
    OBVIOUS
  <2>1. call.fun = "none"
    BY DEF Init
  <2> QED
    BY <2>1 DEF SaveInv, SaveDone
<1>2. Control /\ FilesOK /\ SaveInv /\ [Next]_vars => SaveInv'
  BY SaveStep
<1>3. SaveInv => SaveDone
  BY DEF SaveInv
<1> QED
  BY <1>1, <1>2, <1>3, InvHolds, PTL DEF Spec

-----------------------------------------------------------------------------
(* DirCopy() and FileCopy().  First the paths: what is below the source goes *)
(* to the same place below the destination.                                 *)

\* Where path q at or below s goes when s goes to d.
Shift(s, d, q) == d \o SubSeq(q, Len(s) + 1, Len(q))

\* Path m has the names of d, and those of q after s.
HasNames(m, s, d, q) ==
  /\ Len(s) <= Len(q) /\ Len(m) = Len(d) + (Len(q) - Len(s))
  /\ \A i \in 1..Len(d) : m[i] = d[i]
  /\ \A i \in 1..(Len(q) - Len(s)) : m[Len(d) + i] = q[Len(s) + i]

\* A shifted path is that.
LEMMA ShiftIs ==
  ASSUME NEW s \in Seq(Names), NEW d \in Seq(Names), NEW q \in Seq(Names), Below(q, s)
  PROVE  Shift(s, d, q) \in Seq(Names) /\ HasNames(Shift(s, d, q), s, d, q)
<1>1. PICK a \in Nat, b \in Nat, e \in Nat : a = Len(s) /\ b = Len(q) /\ e = Len(d)
  BY RootIs
<1>2. a <= b
  BY <1>1, BelowIs
<1>3. a + 1 \in Int /\ b \in Int /\ \A i \in (a + 1)..b : q[i] \in Names
  BY <1>1, ElementOfSeq
<1>4. /\ SubSeq(q, a + 1, b) \in Seq(Names)
      /\ Len(SubSeq(q, a + 1, b)) = IF a + 1 <= b THEN b - (a + 1) + 1 ELSE 0
      /\ \A i \in 1..(b - (a + 1) + 1) : SubSeq(q, a + 1, b)[i] = q[a + 1 + i - 1]
  BY <1>3, SubSeqProperties
<1>5. PICK t \in Seq(Names) :
      /\ t = SubSeq(q, a + 1, b)
      /\ Len(t) = IF a + 1 <= b THEN b - (a + 1) + 1 ELSE 0
      /\ \A i \in 1..(b - (a + 1) + 1) : t[i] = q[a + 1 + i - 1]
  BY <1>4, Zenon
<1>6. Len(t) = b - a
  <2>1. (IF a + 1 <= b THEN b - (a + 1) + 1 ELSE 0) = b - a
    BY <1>2
  <2> QED
    BY <1>5, <2>1, Zenon
<1>7. ASSUME NEW i \in 1..(b - a)
      PROVE  t[i] = q[a + i]
  <2>1. i \in 1..(b - (a + 1) + 1) /\ a + 1 + i - 1 = a + i
    OBVIOUS
  <2>2. t[i] = q[a + 1 + i - 1]
    BY <1>5, <2>1, Zenon
  <2> QED
    BY <2>1, <2>2, Zenon
<1>8. /\ d \o t \in Seq(Names) /\ Len(d \o t) = Len(d) + Len(t)
      /\ \A i \in 1..(Len(d) + Len(t)) : (d \o t)[i] = IF i <= Len(d) THEN d[i] ELSE t[i - Len(d)]
  BY ConcatProperties
<1>9. PICK m \in Seq(Names) :
        /\ m = d \o t /\ Len(m) = Len(d) + Len(t)
        /\ \A i \in 1..(Len(d) + Len(t)) : m[i] = IF i <= Len(d) THEN d[i] ELSE t[i - Len(d)]
  BY <1>8, Zenon
<1>10. m = Shift(s, d, q)
  BY <1>1, <1>5, <1>9, Zenon DEF Shift
<1>11. Len(m) = e + (b - a)
  BY <1>1, <1>6, <1>9, Zenon
<1>12. \A i \in 1..(e + (b - a)) : m[i] = IF i <= e THEN d[i] ELSE t[i - e]
  BY <1>1, <1>6, <1>9, Zenon
<1>13. ASSUME NEW i \in 1..e
       PROVE  m[i] = d[i]
  <2>1. i \in 1..(e + (b - a)) /\ i <= e
    BY <1>2
  <2> QED
    BY <1>12, <2>1
<1>14. ASSUME NEW i \in 1..(b - a)
       PROVE  m[e + i] = q[a + i]
  <2>1. e + i \in 1..(e + (b - a)) /\ ~(e + i <= e) /\ (e + i) - e = i
    BY <1>2
  <2>2. m[e + i] = IF e + i <= e THEN d[e + i] ELSE t[(e + i) - e]
    BY <1>12, <2>1, Zenon
  <2>3. m[e + i] = t[i]
    BY <2>1, <2>2, Zenon
  <2> QED
    BY <1>7, <2>3, Zenon
<1>15. HasNames(m, s, d, q)
  BY <1>1, <1>2, <1>11, <1>13, <1>14, Zenon DEF HasNames
<1> QED
  BY <1>10, <1>15

\* A shifted path is below the new place, and s itself goes to d.
LEMMA ShiftBelow ==
  ASSUME NEW s \in Seq(Names), NEW d \in Seq(Names), NEW q \in Seq(Names), Below(q, s)
  PROVE  Shift(s, d, q) \in Seq(Names) /\ Below(Shift(s, d, q), d) /\ (q = s => Shift(s, d, q) = d)
<1>1. PICK m \in Seq(Names) : m = Shift(s, d, q) /\ HasNames(m, s, d, q)
  BY ShiftIs
<1>2. PICK a \in Nat, b \in Nat, e \in Nat : a = Len(s) /\ b = Len(q) /\ e = Len(d)
  BY RootIs
<1>3. a <= b /\ Len(m) = e + (b - a) /\ \A i \in 1..e : m[i] = d[i]
  BY <1>1, <1>2 DEF HasNames
<1>4. Below(m, d)
  <2>1. e <= Len(m)
    BY <1>3
  <2> QED
    BY <1>2, <1>3, <2>1, BelowIs
<1>5. q = s => m = d
  <2>1. ASSUME q = s PROVE Len(m) = e
    BY <1>2, <1>3, <2>1
  <2> QED
    BY <1>2, <1>3, <2>1, PathEqual
<1> QED
  BY <1>1, <1>4, <1>5

\* An entry of q goes to the entry of that name.
LEMMA ShiftEntry ==
  ASSUME NEW s \in Seq(Names), NEW d \in Seq(Names), NEW q \in Seq(Names), Below(q, s), NEW n \in Names
  PROVE  Below(Append(q, n), s) /\ Shift(s, d, Append(q, n)) = Append(Shift(s, d, q), n)
<1>1. PICK a \in Nat, b \in Nat, e \in Nat : a = Len(s) /\ b = Len(q) /\ e = Len(d)
  BY RootIs
<1>2. PICK r \in Seq(Names) : r = Append(q, n) /\ Below(r, s) /\ Len(r) = b + 1
  BY <1>1, EntryBelow
<1>3. r[b + 1] = n /\ \A i \in 1..b : r[i] = q[i]
  BY <1>1, <1>2
<1>4. PICK m \in Seq(Names) : m = Shift(s, d, q) /\ HasNames(m, s, d, q)
  BY ShiftIs
<1>5. PICK o \in Seq(Names) : o = Shift(s, d, r) /\ HasNames(o, s, d, r)
  BY <1>2, ShiftIs
<1>6. /\ a <= b /\ Len(m) = e + (b - a)
      /\ \A i \in 1..e : m[i] = d[i]
      /\ \A i \in 1..(b - a) : m[e + i] = q[a + i]
  BY <1>1, <1>4, Zenon DEF HasNames
<1>7. /\ Len(o) = e + (b + 1 - a)
      /\ \A i \in 1..e : o[i] = d[i]
      /\ \A i \in 1..(b + 1 - a) : o[e + i] = r[a + i]
  <2>1. PICK c \in Nat : c = Len(r) /\ c = b + 1
    BY <1>2, RootIs
  <2>2. /\ Len(o) = e + (c - a)
        /\ \A i \in 1..e : o[i] = d[i]
        /\ \A i \in 1..(c - a) : o[e + i] = r[a + i]
    BY <1>1, <1>5, <2>1, Zenon DEF HasNames
  <2> QED
    BY <2>1, <2>2
<1>8. PICK l \in Nat : l = e + (b - a)
  BY <1>6
<1>9. PICK p \in Seq(Names) : p = Append(m, n) /\ Len(p) = l + 1 /\ p[l + 1] = n /\ \A i \in 1..l : p[i] = m[i]
  <2>1. Len(m) = l
    BY <1>6, <1>8
  <2>2. PICK p \in Seq(Names) : p = Append(m, n)
    BY EntryBelow
  <2>3. Len(p) = Len(m) + 1 /\ p[Len(m) + 1] = n /\ \A i \in 1..Len(m) : p[i] = m[i]
    BY <2>2, AppendProperties
  <2>4. Len(p) = l + 1 /\ p[l + 1] = n /\ \A i \in 1..l : p[i] = m[i]
    BY <2>1, <2>3, Zenon
  <2> QED
    BY <2>2, <2>4
<1>10. ASSUME NEW i \in 1..(l + 1)
       PROVE  o[i] = p[i]
  <2>1. CASE i <= e
    <3>1. i \in 1..e /\ i \in 1..l
      BY <1>6, <1>8, <2>1
    <3> QED
      BY <1>6, <1>7, <1>9, <3>1
  <2>2. CASE ~(i <= e)
    <3>1. PICK j \in 1..(b + 1 - a) : i = e + j
      <4>1. i - e \in 1..(b + 1 - a) /\ i = e + (i - e)
        BY <1>6, <1>8, <2>2
      <4> QED
        BY <4>1
    <3>2. o[i] = r[a + j]
      BY <1>7, <3>1
    <3>3. CASE j = b + 1 - a
      <4>1. a + j = b + 1 /\ i = l + 1
        BY <1>6, <1>8, <3>1, <3>3
      <4> QED
        BY <1>3, <1>9, <3>2, <4>1
    <3>4. CASE j # b + 1 - a
      <4>1. j \in 1..(b - a) /\ a + j \in 1..b /\ i \in 1..l
        BY <1>6, <1>8, <3>1, <3>4
      <4>2. o[i] = q[a + j]
        BY <1>3, <3>2, <4>1
      <4>3. p[i] = m[e + j]
        BY <1>9, <3>1, <4>1
      <4> QED
        BY <1>6, <4>1, <4>2, <4>3
    <3> QED
      BY <3>3, <3>4
  <2> QED
    BY <2>1, <2>2
<1>11. Len(o) = l + 1
  BY <1>6, <1>7, <1>8
<1>12. o = p
  BY <1>9, <1>10, <1>11, PathEqual
<1> QED
  BY <1>2, <1>4, <1>5, <1>9, <1>12

\* Two paths do not go to one place.
LEMMA ShiftOnce ==
  ASSUME NEW s \in Seq(Names), NEW d \in Seq(Names), NEW q \in Seq(Names), NEW r \in Seq(Names),
         Below(q, s), Below(r, s), Shift(s, d, q) = Shift(s, d, r)
  PROVE  q = r
<1>1. PICK a \in Nat, b \in Nat, c \in Nat, e \in Nat :
        a = Len(s) /\ b = Len(q) /\ c = Len(r) /\ e = Len(d)
  BY RootIs
<1>2. PICK m \in Seq(Names) : m = Shift(s, d, q) /\ HasNames(m, s, d, q) /\ HasNames(m, s, d, r)
  <2>1. Shift(s, d, q) \in Seq(Names) /\ HasNames(Shift(s, d, q), s, d, q)
    BY ShiftIs
  <2>2. HasNames(Shift(s, d, r), s, d, r)
    BY ShiftIs
  <2> QED
    BY <2>1, <2>2
<1>3. /\ a <= b /\ Len(m) = e + (b - a)
      /\ \A i \in 1..(b - a) : m[e + i] = q[a + i]
  BY <1>1, <1>2, Zenon DEF HasNames
<1>4. /\ a <= c /\ Len(m) = e + (c - a)
      /\ \A i \in 1..(c - a) : m[e + i] = r[a + i]
  BY <1>1, <1>2, Zenon DEF HasNames
<1>5. b = c
  BY <1>3, <1>4
<1>6. \A i \in 1..a : q[i] = s[i] /\ r[i] = s[i]
  BY <1>1, BelowIs
<1>7. ASSUME NEW i \in 1..b
      PROVE  q[i] = r[i]
  <2>1. CASE i <= a
    BY <1>6, <2>1
  <2>2. CASE ~(i <= a)
    <3>1. PICK j \in 1..(b - a) : i = a + j
      <4>1. i - a \in 1..(b - a) /\ i = a + (i - a)
        BY <2>2
      <4> QED
        BY <4>1
    <3> QED
      BY <1>3, <1>4, <1>5, <3>1
  <2> QED
    BY <2>1, <2>2
<1> QED
  BY <1>1, <1>5, <1>7, PathEqual

\* What leads to a shifted path leads to d, or is where what leads to the path goes.
LEMMA ShiftUp ==
  ASSUME NEW s \in Seq(Names), NEW d \in Seq(Names), NEW q \in Seq(Names), Below(q, s),
         NEW p \in Seq(Names), Below(Shift(s, d, q), p)
  PROVE  \/ IsStrictPrefix(p, d)
         \/ \E n \in 0..Len(q) : Below(SubSeq(q, 1, n), s) /\ p = Shift(s, d, SubSeq(q, 1, n))
<1>1. PICK a \in Nat, b \in Nat, e \in Nat, k \in Nat :
        a = Len(s) /\ b = Len(q) /\ e = Len(d) /\ k = Len(p)
  BY RootIs
<1>2. PICK m \in Seq(Names) : m = Shift(s, d, q) /\ HasNames(m, s, d, q)
  BY ShiftIs
<1>3. /\ a <= b /\ Len(m) = e + (b - a)
      /\ \A i \in 1..e : m[i] = d[i]
      /\ \A i \in 1..(b - a) : m[e + i] = q[a + i]
  BY <1>1, <1>2, Zenon DEF HasNames
<1>4. k <= Len(m) /\ \A i \in 1..k : m[i] = p[i]
  BY <1>1, <1>2, BelowIs
<1>5. CASE k < e
  <2>1. \A i \in 1..k : d[i] = p[i]
    BY <1>3, <1>4, <1>5
  <2>2. IsPrefix(p, d)
    BY <1>1, <1>5, <2>1, PrefixIs
  <2>3. p # d
    BY <1>1, <1>5
  <2> QED
    BY <2>2, <2>3 DEF IsStrictPrefix
<1>6. CASE ~(k < e)
  <2>1. PICK n \in 0..b : a <= n /\ k = e + (n - a)
    <3>1. a + (k - e) \in 0..b /\ a <= a + (k - e) /\ k = e + (a + (k - e) - a)
      BY <1>3, <1>4, <1>6
    <3> QED
      BY <3>1
  <2>2. PICK r \in Seq(Names) : r = SubSeq(q, 1, n) /\ Len(r) = n /\ \A i \in 1..n : r[i] = q[i]
    <3>1. /\ SubSeq(q, 1, n) \in Seq(Names) /\ Len(SubSeq(q, 1, n)) = n
          /\ \A i \in 1..n : SubSeq(q, 1, n)[i] = q[i]
      BY <1>1, Initial
    <3> QED
      BY <3>1
  <2>3. Below(r, s)
    <3>1. \A i \in 1..a : q[i] = s[i]
      BY <1>1, BelowIs
    <3>2. \A i \in 1..a : r[i] = s[i]
      BY <2>1, <2>2, <3>1
    <3> QED
      BY <1>1, <2>1, <2>2, <3>2, BelowIs
  <2>4. PICK v \in Seq(Names) : v = Shift(s, d, r) /\ HasNames(v, s, d, r)
    BY <2>3, ShiftIs
  <2>5. /\ Len(v) = e + (n - a)
        /\ \A i \in 1..e : v[i] = d[i]
        /\ \A i \in 1..(n - a) : v[e + i] = r[a + i]
    BY <1>1, <2>2, <2>4, Zenon DEF HasNames
  <2>6. ASSUME NEW i \in 1..k
        PROVE  p[i] = v[i]
    <3>1. CASE i <= e
      BY <1>3, <1>4, <2>5, <3>1
    <3>2. CASE ~(i <= e)
      <4>1. PICK j \in 1..(n - a) : i = e + j
        <5>1. i - e \in 1..(n - a) /\ i = e + (i - e)
          BY <2>1, <3>2
        <5> QED
          BY <5>1
      <4>2. j \in 1..(b - a) /\ a + j \in 1..n
        <5>1. n \in Nat /\ n <= b /\ a <= n
          BY <2>1
        <5> QED
          BY <4>1, <5>1
      <4>3. v[i] = q[a + j]
        BY <2>2, <2>5, <4>1, <4>2
      <4> QED
        BY <1>3, <1>4, <4>1, <4>2, <4>3
    <3> QED
      BY <3>1, <3>2
  <2>7. Len(v) = k
    BY <2>1, <2>5
  <2>8. p = v
    BY <1>1, <2>6, <2>7, PathEqual
  <2> QED
    BY <1>1, <2>2, <2>3, <2>4, <2>8
<1> QED
  BY <1>5, <1>6

\* Two paths above one are one above the other.
LEMMA BothAbove ==
  ASSUME NEW q \in Seq(Names), NEW s \in Seq(Names), NEW d \in Seq(Names), Below(q, s), Below(q, d)
  PROVE  Below(s, d) \/ Below(d, s)
<1>1. PICK a \in Nat, e \in Nat : a = Len(s) /\ e = Len(d)
  BY RootIs
<1>2. \A i \in 1..a : q[i] = s[i]
  BY <1>1, BelowIs
<1>3. \A i \in 1..e : q[i] = d[i]
  BY <1>1, BelowIs
<1>4. CASE a <= e
  BY <1>1, <1>2, <1>3, <1>4, BelowIs
<1>5. CASE ~(a <= e)
  <2>1. e <= a
    BY <1>5
  <2> QED
    BY <1>1, <1>2, <1>3, <2>1, BelowIs
<1> QED
  BY <1>4, <1>5

\* The beginnings of a path lead to it.
LEMMA AboveIs ==
  ASSUME NEW q \in Seq(Names), NEW n \in 0..Len(q)
  PROVE  SubSeq(q, 1, n) \in Seq(Names) /\ Below(q, SubSeq(q, 1, n)) /\ (n = Len(q) => SubSeq(q, 1, n) = q)
<1>1. PICK p \in Seq(Names) : p = SubSeq(q, 1, n) /\ Len(p) = n /\ \A i \in 1..n : p[i] = q[i]
  <2>1. /\ SubSeq(q, 1, n) \in Seq(Names) /\ Len(SubSeq(q, 1, n)) = n
        /\ \A i \in 1..n : SubSeq(q, 1, n)[i] = q[i]
    BY Initial
  <2> QED
    BY <2>1
<1>2. n \in Nat /\ n <= Len(q)
  BY RootIs
<1>3. Below(q, p)
  BY <1>1, <1>2, BelowIs
<1>4. n = Len(q) => p = q
  BY <1>1, PathEqual
<1> QED
  BY <1>1, <1>3, <1>4

\* What leads to a node, and is not the node, is a directory.
LEMMA AboveNode ==
  ASSUME NEW D, NEW F, \A p \in D \cup F : p \in Seq(Names), Tree(D, F),
         NEW q \in D \cup F, NEW p \in Seq(Names), Below(q, p), p # q
  PROVE  p \in D
<1>1. PICK b \in Nat, k \in Nat : b = Len(q) /\ k = Len(p) /\ q \in Seq(Names)
  BY RootIs
<1>2. k <= b /\ \A i \in 1..k : q[i] = p[i]
  BY <1>1, BelowIs
<1>3. k # b
  BY <1>1, <1>2, PathEqual
<1>4. k + 1 \in 0..b /\ k + 1 \in 1..b /\ (k + 1) - 1 = k /\ k \in 0..b
  BY <1>2, <1>3
<1>5. PICK r : r = SubSeq(q, 1, k + 1)
  OBVIOUS
<1>6. r \in D \cup F
  BY <1>1, <1>4, <1>5, Ancestors
<1>7. Front(r) = SubSeq(q, 1, k) /\ r # Root
  <2>1. PICK m \in 1..Len(q) : m = k + 1
    BY <1>1, <1>4
  <2>2. Front(SubSeq(q, 1, m)) = SubSeq(q, 1, m - 1) /\ SubSeq(q, 1, m) # Root
    BY <1>1, InitialFront
  <2>3. m - 1 = k
    BY <2>1
  <2> QED
    BY <1>5, <2>1, <2>2, <2>3
<1>8. SubSeq(q, 1, k) = p
  <2>1. PICK o \in Seq(Names) : o = SubSeq(q, 1, k) /\ Len(o) = k /\ \A i \in 1..k : o[i] = q[i]
    <3>1. /\ SubSeq(q, 1, k) \in Seq(Names) /\ Len(SubSeq(q, 1, k)) = k
          /\ \A i \in 1..k : SubSeq(q, 1, k)[i] = q[i]
      BY <1>1, <1>4, Initial
    <3> QED
      BY <3>1
  <2> QED
    BY <1>1, <1>2, <2>1, PathEqual
<1> QED
  BY <1>6, <1>7, <1>8 DEF Tree

\* Where the nodes of the source go.
LEMMA MovedIs ==
  ASSUME CallOK
  PROVE  /\ Below(call.src, call.src) /\ Moved(call.src) = call.dst
         /\ \A q \in Seq(Names) : Below(q, call.src) =>
              /\ Moved(q) \in Seq(Names) /\ Below(Moved(q), call.dst)
              /\ \A n \in Names :
                   Below(Append(q, n), call.src) /\ Moved(Append(q, n)) = Append(Moved(q), n)
              /\ \A r \in Seq(Names) : Below(r, call.src) /\ Moved(r) = Moved(q) => r = q
              /\ \A p \in Seq(Names) : Below(Moved(q), p) =>
                   \/ IsStrictPrefix(p, call.dst)
                   \/ \E r \in Seq(Names) : Below(q, r) /\ Below(r, call.src) /\ p = Moved(r)
<1>1. PICK s \in Seq(Names), d \in Seq(Names) : s = call.src /\ d = call.dst
  BY DEF CallOK
<1>2. \A q : Moved(q) = Shift(s, d, q)
  BY <1>1 DEF Moved, Shift
<1>3. Below(s, s) /\ Moved(s) = d
  BY <1>2, BelowOrder, ShiftBelow
<1>4. ASSUME NEW q \in Seq(Names), Below(q, s)
      PROVE  /\ Moved(q) \in Seq(Names) /\ Below(Moved(q), d)
             /\ \A n \in Names : Below(Append(q, n), s) /\ Moved(Append(q, n)) = Append(Moved(q), n)
             /\ \A r \in Seq(Names) : Below(r, s) /\ Moved(r) = Moved(q) => r = q
             /\ \A p \in Seq(Names) : Below(Moved(q), p) =>
                  \/ IsStrictPrefix(p, d)
                  \/ \E r \in Seq(Names) : Below(q, r) /\ Below(r, s) /\ p = Moved(r)
  <2>1. Moved(q) \in Seq(Names) /\ Below(Moved(q), d)
    BY <1>2, <1>4, ShiftBelow
  <2>2. \A n \in Names : Below(Append(q, n), s) /\ Moved(Append(q, n)) = Append(Moved(q), n)
    BY <1>2, <1>4, ShiftEntry
  <2>3. \A r \in Seq(Names) : Below(r, s) /\ Moved(r) = Moved(q) => r = q
    BY <1>2, <1>4, ShiftOnce
  <2>4. ASSUME NEW p \in Seq(Names), Below(Moved(q), p)
        PROVE  \/ IsStrictPrefix(p, d)
               \/ \E r \in Seq(Names) : Below(q, r) /\ Below(r, s) /\ p = Moved(r)
    <3>1. Below(Shift(s, d, q), p)
      BY <1>2, <2>4
    <3>2. \/ IsStrictPrefix(p, d)
          \/ \E n \in 0..Len(q) : Below(SubSeq(q, 1, n), s) /\ p = Shift(s, d, SubSeq(q, 1, n))
      BY <1>4, <3>1, ShiftUp
    <3>3. ASSUME NEW n \in 0..Len(q), Below(SubSeq(q, 1, n), s), p = Shift(s, d, SubSeq(q, 1, n))
          PROVE  \E r \in Seq(Names) : Below(q, r) /\ Below(r, s) /\ p = Moved(r)
      BY <1>2, <3>3, AboveIs
    <3> QED
      BY <3>2, <3>3
  <2> QED
    BY <2>1, <2>2, <2>3, <2>4
<1> QED
  BY <1>1, <1>3, <1>4

-----------------------------------------------------------------------------
(* What is copied so far, and what is left to the frames of the stack.       *)

\* Before the call the file system was a tree, too.
BeforeOK ==
  /\ \A q \in before.dirs \cup DOMAIN before.files : q \in Seq(Names)
  /\ Tree(before.dirs, DOMAIN before.files) /\ before.dirs \cap DOMAIN before.files = {}
  /\ \A q \in DOMAIN before.files : before.files[q] \in Seq(Buffers)

\* The first k buffers of file d are those of q, and what a longer old file d had
\* after the length of q is still there.
HeadIs(q, d, k) ==
  d \in DOMAIN files /\ k <= Len(files[d]) /\ \A j \in 1..k : files[d][j] = before.files[q][j]
TailIs(q, d) ==
  d \in DOMAIN before.files =>
    /\ d \in DOMAIN files /\ Len(before.files[d]) <= Len(files[d])
    /\ \A j \in (Len(before.files[q]) + 1)..Len(before.files[d]) : files[d][j] = before.files[d][j]

\* What the source holds.
SrcDirs == {q \in before.dirs : Below(q, call.src)}
SrcFiles == {q \in DOMAIN before.files : Below(q, call.src)}

\* The trees still fit on one another, and no directory is lost.
Room ==
  /\ \A q \in SrcDirs : Moved(q) \notin DOMAIN files
  /\ \A q \in SrcFiles : Moved(q) \notin dirs
  /\ \A q \in DOMAIN files : ~IsStrictPrefix(q, call.dst)
  /\ before.dirs \subseteq dirs

\* A frame works on a node of the source, towards its place; a directory is opened
\* with all its entries, and made from the outside in.
Placed(f) ==
  /\ Below(f.src, call.src) /\ f.dst = Moved(f.src)
  /\ f.fun \in {"DirCopy", "FileCopy", "CreateDir"}
  /\ f.fun = "FileCopy" =>
       /\ f.src \in DOMAIN before.files /\ Front(f.dst) \in dirs
       /\ f.pc = "copy" => f.w = f.k /\ HeadIs(f.src, f.dst, f.k)
  /\ f.fun = "CreateDir" =>
       f.src \in before.dirs /\ f.pc = "start" /\ \A m \in 0..f.k : SubSeq(f.dst, 1, m) \in dirs
  /\ f.fun = "DirCopy" =>
       /\ f.pc \in {"start", "scan", "end"}
       /\ f.pc = "start" => f.done = {}
       /\ f.pc = "scan" => f.src \in before.dirs /\ Entries(f.src) \subseteq f.had

\* While t is at the top: what a frame scans has been made, or is being made.
Made(f, t) ==
  f.fun = "DirCopy" /\ f.pc = "scan" => f.dst \in dirs \/ (t.fun = "CreateDir" /\ t.src = f.src)

\* DirCopy() calls itself for a directory.
Inner(f) == f.fun = "DirCopy" => f.src \in before.dirs

FramesIn ==
  \A j \in 1..Len(stack) :
    Placed(stack[j]) /\ Made(stack[j], Top) /\ (j # 1 => Inner(stack[j]))

\* What frame f is going to copy or to have copied.
Pending(f, q) ==
  \/ f.fun \in {"FileCopy", "CreateDir"} /\ q = f.src
  \/ f.fun = "DirCopy" /\ f.pc = "start" /\ Below(q, f.src)
  \/ f.fun = "DirCopy" /\ f.pc = "scan" /\ \E n \in Names \ f.done : Below(q, Append(f.src, n))

IsDone(q) ==
  /\ q \in before.dirs => Moved(q) \in dirs
  /\ q \in DOMAIN before.files => Copied(q, Moved(q))

Tails == \A q \in SrcFiles : TailIs(q, Moved(q))
Covered == \A q \in SrcDirs \cup SrcFiles : IsDone(q) \/ \E j \in 1..Len(stack) : Pending(stack[j], q)

\* DirCopy() that met no failure.
DirCopyInv ==
  call.fun = "DirCopy" /\ fails = 0 /\ Fits =>
    /\ Room /\ Tails /\ FramesIn
    /\ stack # <<>> \/ ret = "success" => Covered

\* The source of a copy stays as it was.
SourceSame ==
  Fits /\ call.fun \notin {"none", "save_file"} =>
    \A q \in Seq(Names) : Below(q, call.src) =>
      /\ q \in dirs <=> q \in before.dirs
      /\ q \in DOMAIN files <=> q \in DOMAIN before.files
      /\ q \in DOMAIN files => files[q] = before.files[q]

\* For what is below the source is not below the destination, nor above it.
LEMMA SourceStays ==
  ASSUME Control, NothingElse
  PROVE  SourceSame
<1> SUFFICES ASSUME Fits, call.fun \notin {"none", "save_file"},
                    NEW q \in Seq(Names), Below(q, call.src)
             PROVE  /\ q \in dirs <=> q \in before.dirs
                    /\ q \in DOMAIN files <=> q \in DOMAIN before.files
                    /\ q \in DOMAIN files => files[q] = before.files[q]
  BY DEF SourceSame
<1>1. call.src \in Seq(Names) /\ call.dst \in Seq(Names)
  BY DEF Control, CallOK
<1>2. ~Below(call.src, call.dst) /\ ~Below(call.dst, call.src)
  BY DEF Fits
<1>3. ~Below(q, call.dst)
  BY <1>1, <1>2, BothAbove
<1>4. ~Below(call.dst, q)
  BY <1>1, <1>2, BelowOrder
<1> QED
  BY <1>3, <1>4 DEF NothingElse, CutUp

\* What is known of every state from the theorems above.
Known == Control /\ FilesOK /\ BeforeOK /\ SourceSame

\* It holds at any time.
LEMMA KnownHolds == Spec => []Known
<1>1. Init => BeforeOK
  <2> SUFFICES ASSUME Init PROVE BeforeOK
    OBVIOUS
  <2>1. FilesOK
    BY InitFilesOK
  <2>2. before = [dirs |-> dirs, files |-> files]
    BY DEF Init
  <2> QED
    BY <2>1, <2>2 DEF BeforeOK, FilesOK
<1>2. ASSUME FilesOK, BeforeOK, [Next]_vars
      PROVE  BeforeOK'
  <2>1. CASE Call
    <3>1. \E f, s, d, n : Start(f, s, d, n)
      BY <2>1, Zenon DEF Call
    <3>2. before' = [dirs |-> dirs, files |-> files]
      BY <3>1 DEF Start
    <3> QED
      BY <1>2, <3>2 DEF BeforeOK, FilesOK
  <2>2. CASE Run \/ Crash
    <3>1. before' = before
      BY <2>2 DEF ghosts, Run, Crash, MakeDir, CopyAccess, CopyOpen, CopyChunk,
        DirCopyStart, DirCopyNull, DirCopyEntry, DirCopyEnd,
        DeleteStart, DeleteEntry, DeleteSelf, DeleteFile, SaveParents, SaveOpen, SaveWrite
    <3> QED
      BY <1>2, <3>1 DEF BeforeOK
  <2>3. CASE UNCHANGED vars
    BY <1>2, <2>3 DEF vars, BeforeOK
  <2> QED
    BY <1>2, <2>1, <2>2, <2>3 DEF Next
<1>3. Control /\ FilesOK /\ BeforeOK /\ NothingElse => Known
  BY SourceStays DEF Known
<1> QED
  BY <1>1, <1>2, <1>3, InvHolds, TouchesNothingElse, PTL DEF Spec

\* The source is a tree: a file has nothing below it, what leads to a node is a
\* directory, and what is below a directory is below one of its entries.
LEMMA SourceTree ==
  ASSUME Known
  PROVE  /\ \A q \in SrcDirs \cup SrcFiles : q \in Seq(Names) /\ Below(q, call.src)
         /\ SrcDirs \cap SrcFiles = {}
         /\ \A q \in SrcDirs \cup SrcFiles, r \in Seq(Names) :
              Below(q, r) /\ Below(r, call.src) => r = q \/ r \in SrcDirs
         /\ \A q \in SrcDirs \cup SrcFiles, r \in Seq(Names) :
              Below(q, r) /\ q # r => \E n \in Names : Below(q, Append(r, n))
<1>1. \A q \in SrcDirs \cup SrcFiles : q \in Seq(Names) /\ Below(q, call.src)
  BY DEF Known, BeforeOK, SrcDirs, SrcFiles
<1>2. SrcDirs \cap SrcFiles = {}
  BY DEF Known, BeforeOK, SrcDirs, SrcFiles
<1>3. ASSUME NEW q \in SrcDirs \cup SrcFiles, NEW r \in Seq(Names), Below(q, r), Below(r, call.src), r # q
      PROVE  r \in SrcDirs
  <2>1. q \in before.dirs \cup DOMAIN before.files
    BY <1>3 DEF SrcDirs, SrcFiles
  <2>2. r \in before.dirs
    BY <1>3, <2>1, AboveNode DEF Known, BeforeOK
  <2> QED
    BY <1>3, <2>2 DEF SrcDirs
<1>4. ASSUME NEW q \in Seq(Names), NEW r \in Seq(Names), Below(q, r), q # r
      PROVE  \E n \in Names : Below(q, Append(r, n))
  <2>1. PICK b \in Nat, k \in Nat : b = Len(q) /\ k = Len(r)
    BY RootIs
  <2>2. k <= b /\ \A i \in 1..k : q[i] = r[i]
    BY <1>4, <2>1, BelowIs
  <2>3. k # b
    BY <1>4, <2>1, <2>2, PathEqual
  <2>4. k + 1 \in 1..b
    BY <2>2, <2>3
  <2>5. PICK n \in Names : n = q[k + 1]
    BY <2>1, <2>4, ElementOfSeq
  <2>6. PICK p \in Seq(Names) : p = Append(r, n) /\ Len(p) = k + 1 /\ p[k + 1] = n /\ \A i \in 1..k : p[i] = r[i]
    <3>1. PICK p \in Seq(Names) : p = Append(r, n)
      BY EntryBelow
    <3>2. Len(p) = Len(r) + 1 /\ p[Len(r) + 1] = n /\ \A i \in 1..Len(r) : p[i] = r[i]
      BY <3>1, AppendProperties
    <3>3. Len(p) = k + 1 /\ p[k + 1] = n /\ \A i \in 1..k : p[i] = r[i]
      BY <2>1, <3>2, Zenon
    <3> QED
      BY <3>1, <3>3
  <2>7. ASSUME NEW i \in 1..(k + 1)
        PROVE  q[i] = p[i]
    <3>1. i = k + 1 \/ i \in 1..k
      OBVIOUS
    <3> QED
      BY <2>2, <2>5, <2>6, <3>1
  <2>8. k + 1 <= b
    BY <2>4
  <2>9. Below(q, p)
    BY <2>1, <2>6, <2>7, <2>8, BelowIs
  <2> QED
    BY <2>6, <2>9
<1> QED
  BY <1>1, <1>2, <1>3, <1>4

-----------------------------------------------------------------------------
(* How the frames of a copy change, and what they leave to be copied.        *)

Quiet == call' = call /\ before' = before

\* During the call the source, its places and the fit are the same.
LEMMA SameCall ==
  ASSUME Quiet
  PROVE  /\ SrcDirs' = SrcDirs /\ SrcFiles' = SrcFiles /\ (Fits' <=> Fits)
         /\ \A q : Moved(q)' = Moved(q)
<1>1. call' = call /\ before' = before
  BY DEF Quiet
<1> QED
  BY <1>1 DEF SrcDirs, SrcFiles, Fits, Moved

\* DirCopy() is running, and met no failure.
Copying ==
  /\ Known /\ call.fun = "DirCopy" /\ Fits /\ stack # <<>>
  /\ Room /\ Tails /\ FramesIn /\ Covered

\* The entries of the source are the same all the time.
LEMMA EntriesSame ==
  ASSUME Copying, Known', Quiet, NEW q \in Seq(Names), Below(q, call.src)
  PROVE  Entries(q)' = Entries(q)
<1>1. \A p \in Seq(Names) : Below(p, call.src) =>
        (p \in dirs <=> p \in before.dirs) /\ (p \in DOMAIN files <=> p \in DOMAIN before.files)
  BY DEF Copying, Known, SourceSame
<1>2. \A p \in Seq(Names) : Below(p, call.src) =>
        (p \in dirs' <=> p \in before.dirs) /\ (p \in DOMAIN files' <=> p \in DOMAIN before.files)
  <2>1. /\ Fits' /\ call' = call /\ before' = before
        /\ call.fun \notin {"none", "save_file"}
    BY SameCall DEF Quiet, Copying
  <2>2. Fits' /\ call'.fun \notin {"none", "save_file"} => \A p \in Seq(Names) : Below(p, call'.src) =>
          (p \in dirs' <=> p \in before'.dirs) /\ (p \in DOMAIN files' <=> p \in DOMAIN before'.files)
    BY Zenon DEF Known, SourceSame
  <2> QED
    BY <2>1, <2>2
<1>3. call.src \in Seq(Names)
  BY DEF Copying, Known, Control, CallOK
<1>4. \A n \in Names : Append(q, n) \in Seq(Names) /\ Below(Append(q, n), call.src)
  BY <1>3, EntryBelow
<1>5. \A n \in Names : Exists(Append(q, n))' <=> Exists(Append(q, n))
  BY <1>1, <1>2, <1>4 DEF Exists, IsFile, IsDirectory
<1> QED
  BY <1>5 DEF Entries

\* The frames below the top are of DirCopy(), and stay as they are.
LEMMA LowerFrames ==
  ASSUME Copying, Known', Quiet, dirs \subseteq dirs', NEW j \in 1..(Len(stack) - 1), NEW f, f = stack[j]
  PROVE  /\ j \in 1..Len(stack) /\ f \in Frames /\ f.fun = "DirCopy" /\ f.dst = Moved(f.src)
         /\ Placed(f)' /\ (j # 1 => Inner(f)')
<1>1. j \in 1..Len(stack) /\ j < Len(stack) /\ stack \in Seq(Frames)
  BY TopIs DEF Copying, Known, Control, StackOK
<1>2. f \in Frames /\ f.fun \in Walkers
  BY <1>1, ElementOfSeq DEF Copying, Known, Control, StackOK
<1>3. Placed(f) /\ (j # 1 => Inner(f))
  BY <1>1 DEF Copying, FramesIn
<1>4. f.fun = "DirCopy" /\ f.src \in Seq(Names) /\ f.dst = Moved(f.src) /\ Below(f.src, call.src)
  BY <1>2, <1>3 DEF Placed, Walkers, Frames
<1>5. Entries(f.src)' = Entries(f.src)
  BY <1>4, EntriesSame
<1>6. Moved(f.src)' = Moved(f.src) /\ call' = call /\ before' = before
  BY SameCall DEF Quiet
<1>7. Placed(f)'
  BY <1>3, <1>4, <1>5, <1>6 DEF Placed
<1>8. j # 1 => Inner(f)'
  BY <1>3, <1>6 DEF Inner
<1> QED
  BY <1>1, <1>2, <1>4, <1>7, <1>8

\* While nothing is written, what is copied stays so.
LEMMA CopyKept ==
  ASSUME Quiet, UNCHANGED fs, Room, Tails
  PROVE  Room' /\ Tails' /\ \A q : IsDone(q)' <=> IsDone(q)
<1>1. dirs' = dirs /\ files' = files /\ call' = call /\ before' = before
  BY DEF fs, Quiet
<1>2. Room'
  BY <1>1, SameCall DEF Room
<1>3. Tails'
  BY <1>1, SameCall DEF Tails, TailIs
<1>4. \A q : IsDone(q)' <=> IsDone(q)
  BY <1>1, SameCall DEF IsDone, Copied
<1> QED
  BY <1>2, <1>3, <1>4

\* The function at the top returns, having copied what it was called for.
LEMMA CopyReturns ==
  ASSUME Copying, Known', Quiet, UNCHANGED fs, NEW r, Return(r),
         Top.fun = "CreateDir" => Top.dst \in dirs,
         \A q \in SrcDirs \cup SrcFiles : Pending(Top, q) => IsDone(q)
  PROVE  Room' /\ Tails' /\ FramesIn' /\ Covered'
<1>1. stack \in Seq(Frames) /\ stack # <<>> /\ stack' = Front(stack) /\ dirs' = dirs
  BY DEF Copying, Known, Control, StackOK, Return, fs
<1>2. PICK n \in Nat \ {0} : n = Len(stack) /\ Top = stack[n]
  BY <1>1, StackOps DEF Top
<1>3. Len(stack') = n - 1 /\ stack' \in Seq(Frames) /\ \A j \in 1..(n - 1) : stack'[j] = stack[j]
  BY <1>1, <1>2, StackOps
<1>4. Room' /\ Tails' /\ \A q : IsDone(q)' <=> IsDone(q)
  BY CopyKept DEF Copying
<1>5. ASSUME NEW j \in 1..(n - 1)
      PROVE  Placed(stack[j])' /\ Made(stack[j], Top)' /\ (j # 1 => Inner(stack[j])')
  <2>1. PICK f : f = stack[j] /\ f = stack'[j]
    BY <1>3
  <2>2. /\ j \in 1..n /\ f \in Frames /\ f.fun = "DirCopy" /\ f.dst = Moved(f.src)
        /\ Placed(f)' /\ (j # 1 => Inner(f)')
    BY <1>1, <1>2, <2>1, LowerFrames
  <2>3. f.pc = "scan" => f.dst \in dirs
    <3>1. Made(f, Top) /\ Placed(Top)
      <4>1. n \in 1..n
        OBVIOUS
      <4> QED
        BY <1>2, <2>1, <2>2, <4>1 DEF Copying, FramesIn
    <3>2. Top.src = f.src => Top.dst = f.dst
      BY <2>2, <3>1 DEF Placed
    <3> QED
      BY <2>2, <3>1, <3>2 DEF Made
  <2>4. Made(stack[j], Top)'
    BY <1>1, <2>1, <2>3 DEF Made
  <2> QED
    BY <2>1, <2>2, <2>4
<1>6. FramesIn'
  BY <1>3, <1>5 DEF FramesIn
<1>7. Covered'
  <2>1. ASSUME NEW q \in SrcDirs \cup SrcFiles, ~IsDone(q)
        PROVE  \E j \in 1..(n - 1) : Pending(stack'[j], q)
    <3>1. PICK j \in 1..n : Pending(stack[j], q)
      BY <1>2, <2>1 DEF Copying, Covered
    <3>2. j # n
      BY <1>2, <2>1, <3>1
    <3>3. j \in 1..(n - 1)
      BY <3>2
    <3> QED
      BY <1>3, <3>1, <3>3
  <2> QED
    BY <1>3, <1>4, <2>1, SameCall DEF Covered
<1> QED
  BY <1>4, <1>6, <1>7

\* The function at the top goes on: what it has no longer to copy is copied.
LEMMA CopyGoesOn ==
  ASSUME Copying, Known', Quiet, dirs \subseteq dirs',
         NEW f \in Frames, Become(f), f.fun = Top.fun, f.src = Top.src, Placed(f)',
         f.fun = "DirCopy" /\ f.pc = "scan" => Top.pc = "scan",
         \A q \in SrcDirs \cup SrcFiles : IsDone(q) => IsDone(q)',
         \A q \in SrcDirs \cup SrcFiles : Pending(Top, q) => Pending(f, q) \/ IsDone(q)'
  PROVE  FramesIn' /\ Covered'
<1>1. stack \in Seq(Frames) /\ stack # <<>> /\ stack' = Append(Front(stack), f)
  BY DEF Copying, Known, Control, StackOK, Become
<1>2. PICK n \in Nat \ {0} : n = Len(stack) /\ Top = stack[n]
  BY <1>1, StackOps DEF Top
<1>3. Len(stack') = n /\ stack'[n] = f /\ Top' = f /\ \A j \in 1..(n - 1) : stack'[j] = stack[j]
  BY <1>1, <1>2, ReplaceTop DEF Top
<1>4. n \in 1..n /\ \A j \in 1..n : j = n \/ j \in 1..(n - 1)
  OBVIOUS
<1>5. Placed(Top) /\ Made(Top, Top) /\ (n # 1 => Inner(Top))
  BY <1>2, <1>4 DEF Copying, FramesIn
<1>6. ASSUME NEW j \in 1..(n - 1), NEW g, g = stack[j]
      PROVE  Placed(g)' /\ Made(g, f)' /\ (j # 1 => Inner(g)')
  <2>1. /\ j \in 1..n /\ g \in Frames /\ g.fun = "DirCopy"
        /\ Placed(g)' /\ (j # 1 => Inner(g)')
    BY <1>1, <1>2, <1>6, LowerFrames
  <2>2. Made(g, Top)
    BY <1>2, <1>6, <2>1 DEF Copying, FramesIn
  <2> QED
    BY <2>1, <2>2 DEF Made
<1>7. Made(f, f)'
  <2>1. ASSUME f.fun = "DirCopy", f.pc = "scan" PROVE f.dst \in dirs'
    <3>1. Top.dst \in dirs
      BY <1>5, <2>1 DEF Made
    <3>2. f.dst = Top.dst
      BY <1>5, SameCall DEF Placed
    <3> QED
      BY <3>1, <3>2
  <2> QED
    BY <2>1 DEF Made
<1>8. n # 1 => Inner(f)'
  BY <1>5 DEF Inner, Quiet
<1>9. FramesIn'
  <2>1. ASSUME NEW j \in 1..n, NEW g, g = stack'[j]
        PROVE  Placed(g)' /\ Made(g, f)' /\ (j # 1 => Inner(g)')
    <3>1. CASE j = n
      BY <1>3, <1>7, <1>8, <2>1, <3>1
    <3>2. CASE j \in 1..(n - 1)
      BY <1>3, <1>6, <2>1, <3>2
    <3> QED
      BY <1>4, <3>1, <3>2
  <2>2. \A j \in 1..n : Placed(stack[j])' /\ Made(stack[j], Top)' /\ (j # 1 => Inner(stack[j])')
    BY <1>3, <2>1
  <2> QED
    BY <1>3, <2>2 DEF FramesIn
<1>10. Covered'
  <2>1. ASSUME NEW q \in SrcDirs \cup SrcFiles, ~IsDone(q)'
        PROVE  \E j \in 1..n : Pending(stack'[j], q)
    <3>1. PICK j \in 1..n : Pending(stack[j], q)
      BY <1>2, <2>1 DEF Copying, Covered
    <3>2. CASE j = n
      <4>1. Pending(f, q)
        BY <1>2, <2>1, <3>1, <3>2
      <4> QED
        BY <1>3, <1>4, <4>1
    <3>3. CASE j \in 1..(n - 1)
      BY <1>3, <3>1, <3>3
    <3> QED
      BY <1>4, <3>2, <3>3
  <2> QED
    BY <1>3, <2>1, SameCall DEF Covered
<1> QED
  BY <1>9, <1>10

\* DirCopy() calls g and goes on with f.
LEMMA CopyCalls ==
  ASSUME Copying, Known', Quiet, UNCHANGED fs, NEW f \in Frames, NEW g \in Frames, CallFrom(f, g),
         Top.fun = "DirCopy", f.fun = "DirCopy", f.src = Top.src, g.pc = "start", Inner(g),
         Placed(f), Made(f, g), Placed(g),
         \A q \in SrcDirs \cup SrcFiles : Pending(Top, q) => Pending(f, q) \/ Pending(g, q) \/ IsDone(q)
  PROVE  Room' /\ Tails' /\ FramesIn' /\ Covered'
<1>1. stack \in Seq(Frames) /\ stack # <<>> /\ stack' = Front(stack) \o <<f, g>>
  BY DEF Copying, Known, Control, StackOK, CallFrom
<1>2. PICK n \in Nat \ {0} : n = Len(stack) /\ Top = stack[n]
  BY <1>1, StackOps DEF Top
<1>3. /\ Len(stack') = n + 1 /\ stack'[n] = f /\ stack'[n + 1] = g /\ Top' = g
      /\ \A j \in 1..(n - 1) : stack'[j] = stack[j]
  BY <1>1, <1>2, PutOnTop DEF Top
<1>4. /\ n \in 1..n /\ n \in 1..(n + 1) /\ n + 1 \in 1..(n + 1) /\ n + 1 # n
      /\ \A j \in 1..(n + 1) : j = n + 1 \/ j = n \/ j \in 1..(n - 1)
      /\ \A j \in 1..(n - 1) : j \in 1..(n + 1)
  OBVIOUS
<1>5. n # 1 => Inner(Top)
  BY <1>2, <1>4 DEF Copying, FramesIn
<1>6. dirs' = dirs /\ files' = files /\ call' = call /\ before' = before
  BY DEF fs, Quiet
<1>7. Room' /\ Tails' /\ \A q : IsDone(q)' <=> IsDone(q)
  BY CopyKept DEF Copying
<1>8. ASSUME NEW h, Placed(h)
      PROVE  Placed(h)'
  BY <1>6, <1>8, SameCall DEF Placed, HeadIs, Entries, Exists, IsFile, IsDirectory
<1>9. Made(g, g)' /\ Made(f, g)' /\ Inner(g)' /\ (n # 1 => Inner(f)')
  BY <1>5, <1>6 DEF Made, Inner
<1>10. ASSUME NEW j \in 1..(n - 1), NEW h, h = stack[j]
       PROVE  Placed(h)' /\ Made(h, g)' /\ (j # 1 => Inner(h)')
  <2>1. j \in 1..n /\ h \in Frames /\ h.fun = "DirCopy" /\ Placed(h)' /\ (j # 1 => Inner(h)')
    BY <1>1, <1>2, <1>6, <1>10, LowerFrames
  <2>2. Made(h, Top)
    BY <1>2, <1>10, <2>1 DEF Copying, FramesIn
  <2> QED
    BY <1>6, <2>1, <2>2 DEF Made
<1>11. FramesIn'
  <2>1. ASSUME NEW j \in 1..(n + 1), NEW h, h = stack'[j]
        PROVE  Placed(h)' /\ Made(h, g)' /\ (j # 1 => Inner(h)')
    <3>1. CASE j = n + 1
      BY <1>3, <1>8, <1>9, <2>1, <3>1
    <3>2. CASE j = n
      BY <1>3, <1>8, <1>9, <2>1, <3>2
    <3>3. CASE j \in 1..(n - 1)
      BY <1>3, <1>10, <2>1, <3>3
    <3> QED
      BY <1>4, <3>1, <3>2, <3>3
  <2>2. \A j \in 1..(n + 1) : Placed(stack[j])' /\ Made(stack[j], Top)' /\ (j # 1 => Inner(stack[j])')
    BY <1>3, <2>1
  <2> QED
    BY <1>3, <2>2 DEF FramesIn
<1>12. Covered'
  <2>1. ASSUME NEW q \in SrcDirs \cup SrcFiles, ~IsDone(q)
        PROVE  \E j \in 1..(n + 1) : Pending(stack'[j], q)
    <3>1. PICK j \in 1..n : Pending(stack[j], q)
      BY <1>2, <2>1 DEF Copying, Covered
    <3>2. CASE j = n
      <4>1. Pending(f, q) \/ Pending(g, q)
        BY <1>2, <2>1, <3>1, <3>2
      <4> QED
        BY <1>3, <1>4, <4>1
    <3>3. CASE j # n
      <4>1. j \in 1..(n - 1)
        BY <3>3
      <4> QED
        BY <1>3, <1>4, <3>1, <4>1
    <3> QED
      BY <3>2, <3>3
  <2> QED
    BY <1>3, <1>7, <2>1, SameCall DEF Covered
<1> QED
  BY <1>7, <1>11, <1>12

-----------------------------------------------------------------------------
(* The steps of DirCopy() that met no failure.                               *)

CopyOK == Room /\ Tails /\ FramesIn /\ (stack # <<>> \/ ret = "success" => Covered)

\* A path strictly above another is not below it.
LEMMA NotBoth ==
  ASSUME NEW p \in Seq(Names), NEW d \in Seq(Names), IsStrictPrefix(p, d)
  PROVE  ~Below(p, d)
<1> SUFFICES ASSUME Below(p, d) PROVE FALSE
  OBVIOUS
<1>1. PICK k \in Nat, e \in Nat : k = Len(p) /\ e = Len(d)
  BY RootIs
<1>2. IsPrefix(p, d) /\ p # d
  BY DEF IsStrictPrefix
<1>3. k <= e /\ \A i \in 1..k : d[i] = p[i]
  BY <1>1, <1>2, PrefixIs
<1>4. e <= k
  BY <1>1, BelowIs
<1>5. k = e
  BY <1>3, <1>4
<1> QED
  BY <1>1, <1>2, <1>3, <1>5, PathEqual

\* What leads to the place of a source directory is not a file, nor the place of one.
LEMMA WayIsFree ==
  ASSUME Copying, NEW q \in SrcDirs, NEW p \in Seq(Names), Below(Moved(q), p)
  PROVE  p \notin DOMAIN files /\ \A f \in SrcFiles : p # Moved(f)
<1>1. call.src \in Seq(Names) /\ call.dst \in Seq(Names) /\ CallOK
  BY DEF Copying, Known, Control, CallOK
<1>2. q \in Seq(Names) /\ Below(q, call.src)
  BY SourceTree DEF Copying
<1>3. \/ IsStrictPrefix(p, call.dst)
      \/ \E r \in Seq(Names) : Below(q, r) /\ Below(r, call.src) /\ p = Moved(r)
  BY <1>1, <1>2, MovedIs
<1>4. ASSUME IsStrictPrefix(p, call.dst)
      PROVE  p \notin DOMAIN files /\ \A f \in SrcFiles : p # Moved(f)
  <2>1. ~Below(p, call.dst)
    BY <1>1, <1>4, NotBoth
  <2>2. \A f \in SrcFiles : Below(Moved(f), call.dst)
    BY <1>1, MovedIs, SourceTree DEF Copying
  <2> QED
    BY <1>4, <2>1, <2>2 DEF Copying, Room
<1>5. ASSUME NEW r \in Seq(Names), Below(q, r), Below(r, call.src), p = Moved(r)
      PROVE  p \notin DOMAIN files /\ \A f \in SrcFiles : p # Moved(f)
  <2>1. r \in SrcDirs
    BY <1>5, SourceTree DEF Copying
  <2>2. \A f \in SrcFiles : f \in Seq(Names) /\ Below(f, call.src) /\ f # r
    BY <2>1, SourceTree DEF Copying
  <2>3. \A f \in SrcFiles : Moved(f) # Moved(r)
    BY <1>1, <1>5, <2>2, MovedIs
  <2> QED
    BY <1>5, <2>1, <2>3 DEF Copying, Room
<1> QED
  BY <1>3, <1>4, <1>5

\* The frame at the top is one of the frames.
LEMMA TopPlaced ==
  ASSUME Copying
  PROVE  Placed(Top) /\ Made(Top, Top) /\ (Len(stack) # 1 => Inner(Top))
<1>1. Len(stack) \in 1..Len(stack) /\ Top = stack[Len(stack)]
  BY TopIs DEF Copying, Known, Control
<1> QED
  BY <1>1 DEF Copying, FramesIn

\* CreateDir() makes the place of a directory of the source, component by component.
LEMMA CopyMakesDir ==
  ASSUME Copying, Known', fails = 0, fails' = 0, MakeDir
  PROVE  CopyOK'
<1>1. PICK t : t = Top
  OBVIOUS
<1>2. /\ t.fun = "CreateDir" /\ t.pc = "start" /\ t \in Frames /\ t.k \in Nat /\ t.k <= Len(t.dst)
      /\ t.dst \in Seq(Names) /\ t.src \in Seq(Names) /\ Len(t.dst) \in Nat
  BY <1>1, AtTop DEF MakeDir, FrameOK, Copying, Known
<1>3. Placed(t)
  BY <1>1, TopPlaced
<1>4. t.src \in SrcDirs /\ t.dst = Moved(t.src) /\ \A m \in 0..t.k : SubSeq(t.dst, 1, m) \in dirs
  BY <1>2, <1>3 DEF Placed, SrcDirs
<1>5. PICK q : q = SubSeq(t.dst, 1, t.k + 1)
  OBVIOUS
<1>6. PICK f : f = [t EXCEPT !.k = @ + 1]
  OBVIOUS
<1>7. Quiet
  BY DEF MakeDir, ghosts, Quiet
<1>8. \/ t.k = Len(t.dst) /\ Return("success") /\ UNCHANGED fs
      \/ t.k # Len(t.dst) /\ Exists(q) /\ Become(f) /\ UNCHANGED fs
      \/ /\ t.k # Len(t.dst) /\ ~Exists(q) /\ IsDirectory(Front(q))
         /\ Become(f) /\ dirs' = dirs \cup {q} /\ files' = files
      \/ t.k # Len(t.dst) /\ ~IsDirectory(Front(q))
  BY <1>1, <1>5, <1>6 DEF MakeDir, AllMade, NextComponent, Fails
<1>9. CASE t.k = Len(t.dst) /\ Return("success") /\ UNCHANGED fs
  <2>1. t.dst \in dirs
    <3>1. t.k \in 0..t.k /\ SubSeq(t.dst, 1, Len(t.dst)) = t.dst
      BY <1>2, SubSeqFull
    <3> QED
      BY <1>4, <1>9, <3>1
  <2>2. \A r \in SrcDirs \cup SrcFiles : Pending(t, r) => IsDone(r)
    <3>1. t.src \notin DOMAIN before.files
      BY <1>4, SourceTree DEF Copying, SrcFiles, SrcDirs
    <3> QED
      BY <1>2, <1>4, <2>1, <3>1 DEF Pending, IsDone
  <2> QED
    BY <1>1, <1>7, <1>9, <2>1, <2>2, CopyReturns DEF CopyOK
<1>10. CASE t.k # Len(t.dst)
  <2>1. t.k + 1 \in 0..Len(t.dst) /\ t.k + 1 \in 1..Len(t.dst) /\ t.k + 1 - 1 = t.k
    BY <1>2, <1>10
  <2>2. PICK m \in 1..Len(t.dst) : m = t.k + 1
    BY <2>1
  <2>3. q \in Seq(Names) /\ Below(t.dst, q)
    BY <1>2, <1>5, <2>1, AboveIs
  <2>4. q \notin DOMAIN files /\ \A r \in SrcFiles : q # Moved(r)
    BY <1>4, <2>3, WayIsFree
  <2>5. IsDirectory(Front(q))
    <3>1. Front(SubSeq(t.dst, 1, m)) = SubSeq(t.dst, 1, m - 1)
      BY <1>2, InitialFront
    <3>2. t.k \in 0..t.k
      BY <1>2
    <3>3. Front(q) = SubSeq(t.dst, 1, t.k)
      <4>1. q = SubSeq(t.dst, 1, m)
        BY <1>5, <2>2, Zenon
      <4>2. m - 1 = t.k
        <5>1. \A k \in Nat : m = k + 1 => m - 1 = k
          OBVIOUS
        <5> QED
          BY <1>2, <2>2, <5>1, Zenon
      <4> QED
        BY <3>1, <4>1, <4>2, Zenon
    <3> QED
      BY <1>4, <3>2, <3>3 DEF IsDirectory
  <2>6. Become(f) /\ files' = files /\ dirs' = dirs \cup {q}
    <3>1. CASE Exists(q) /\ Become(f) /\ UNCHANGED fs
      BY <2>4, <3>1 DEF Exists, IsFile, IsDirectory, fs
    <3> QED
      BY <1>8, <1>10, <2>5, <3>1
  <2>7. /\ f \in Frames /\ f.fun = "CreateDir" /\ f.pc = "start" /\ f.src = t.src
        /\ f.dst = t.dst /\ f.k = t.k + 1
    <3>1. PICK k \in Nat : k = t.k + 1
      BY <1>2
    <3>2. f = [t EXCEPT !.k = k]
      BY <1>6, <3>1
    <3> QED
      BY <1>2, <3>1, <3>2 DEF Frames
  <2>8. \A i \in 0..(t.k + 1) : SubSeq(t.dst, 1, i) \in dirs'
    <3>1. \A i \in 0..(t.k + 1) : i = t.k + 1 \/ i \in 0..t.k
      BY <1>2
    <3> QED
      BY <1>4, <1>5, <2>6, <3>1
  <2>9. Placed(f)'
    <3>1. Moved(t.src)' = Moved(t.src) /\ call' = call /\ before' = before
      BY <1>7, SameCall DEF Quiet
    <3> QED
      BY <1>3, <1>4, <2>7, <2>8, <3>1 DEF Placed, SrcDirs
  <2>10. Room' /\ Tails'
    <3>1. before' = before /\ call' = call
      BY <1>7 DEF Quiet
    <3>2. Room'
      BY <1>7, <2>4, <2>6, <3>1, SameCall DEF Room, Copying
    <3>3. Tails'
      BY <1>7, <2>6, <3>1, SameCall DEF Tails, TailIs, Copying
    <3> QED
      BY <3>2, <3>3
  <2>11. \A r \in SrcDirs \cup SrcFiles : IsDone(r) => IsDone(r)'
    <3>1. before' = before
      BY <1>7 DEF Quiet
    <3> QED
      BY <1>7, <2>6, <3>1, SameCall DEF IsDone, Copied
  <2>12. \A r \in SrcDirs \cup SrcFiles : Pending(t, r) => Pending(f, r)
    BY <1>2, <2>7 DEF Pending
  <2>13. FramesIn' /\ Covered'
    BY <1>1, <1>2, <1>7, <2>6, <2>7, <2>9, <2>11, <2>12, CopyGoesOn
  <2> QED
    BY <2>10, <2>13 DEF CopyOK
<1> QED
  BY <1>8, <1>9, <1>10

\* FileCopy() finds its source, and its place is no directory.
LEMMA CopyFindsFile ==
  ASSUME Copying, Known', fails = 0, fails' = 0, CopyAccess
  PROVE  CopyOK'
<1>1. PICK t : t = Top
  OBVIOUS
<1>2. /\ t.fun = "FileCopy" /\ t.pc = "start" /\ t \in Frames
      /\ t.dst \in Seq(Names) /\ t.src \in Seq(Names)
  BY <1>1, AtTop DEF CopyAccess, Copying, Known
<1>3. Placed(t)
  BY <1>1, TopPlaced
<1>4. t.src \in SrcFiles /\ t.dst = Moved(t.src) /\ Below(t.src, call.src)
  BY <1>2, <1>3 DEF Placed, SrcFiles
<1>5. PICK f \in Frames : f = [t EXCEPT !.pc = "open"]
  BY <1>2 DEF Frames, Labels
<1>6. /\ f.fun = "FileCopy" /\ f.pc = "open" /\ f.src = t.src /\ f.dst = t.dst
      /\ f.k = t.k /\ f.w = t.w
  BY <1>2, <1>5 DEF Frames
<1>7. Quiet /\ UNCHANGED fs
  BY DEF CopyAccess, ghosts, Quiet
<1>8. Become(f)
  <2>1. Exists(t.src)
    BY <1>2, <1>4 DEF Copying, Known, SourceSame, SrcFiles, Exists, IsFile
  <2>2. CopyTarget(t.src, t.dst) = t.dst
    BY <1>4 DEF CopyTarget, IsDirectory, Copying, Room
  <2>3. Become([t EXCEPT !.pc = "open", !.dst = CopyTarget(t.src, t.dst)])
    BY <1>1, <2>1 DEF CopyAccess, Fails
  <2>4. [t EXCEPT !.pc = "open", !.dst = t.dst] = f
    BY <1>2, <1>5 DEF Frames
  <2> QED
    BY <2>2, <2>3, <2>4
<1>9. dirs' = dirs /\ files' = files /\ call' = call /\ before' = before
  BY <1>7 DEF fs, Quiet
<1>10. Placed(f)'
  BY <1>3, <1>6, <1>7, <1>9, SameCall, <1>2 DEF Placed
<1>11. \A q \in SrcDirs \cup SrcFiles : Pending(t, q) => Pending(f, q)
  BY <1>2, <1>6 DEF Pending
<1>12. Room' /\ Tails' /\ \A q : IsDone(q)' <=> IsDone(q)
  BY <1>7, CopyKept DEF Copying
<1>13. FramesIn' /\ Covered'
  BY <1>1, <1>2, <1>6, <1>7, <1>8, <1>9, <1>10, <1>11, <1>12, CopyGoesOn
<1> QED
  BY <1>12, <1>13 DEF CopyOK

\* FileCopy() opens both files; a new one is empty.
LEMMA CopyOpensFile ==
  ASSUME Copying, Known', fails = 0, fails' = 0, CopyOpen
  PROVE  CopyOK'
<1>1. PICK t : t = Top
  OBVIOUS
<1>2. /\ t.fun = "FileCopy" /\ t.pc = "open" /\ t \in Frames /\ t.k = 0 /\ t.w = 0
      /\ t.dst \in Seq(Names) /\ t.src \in Seq(Names) /\ Len(t.dst) \in Nat \ {0}
  <2>1. /\ t.fun = "FileCopy" /\ t.pc = "open" /\ t \in Frames /\ FrameOK(t, call)
        /\ t.dst \in Seq(Names) /\ t.src \in Seq(Names) /\ Len(t.dst) \in Nat /\ t.w \in Nat /\ t.k \in Nat
    BY <1>1, AtTop DEF CopyOpen, Copying, Known
  <2>2. Len(call.dst) \in Nat \ {0} /\ Len(t.dst) >= Len(call.dst)
    BY <1>1, TopDst DEF Copying, Known
  <2> QED
    BY <2>1, <2>2 DEF FrameOK
<1>3. Placed(t)
  BY <1>1, TopPlaced
<1>4. t.src \in SrcFiles /\ t.dst = Moved(t.src) /\ Below(t.src, call.src) /\ Front(t.dst) \in dirs
  BY <1>2, <1>3 DEF Placed, SrcFiles
<1>5. PICK f \in Frames : f = [t EXCEPT !.pc = "copy"]
  BY <1>2 DEF Frames, Labels
<1>6. /\ f.fun = "FileCopy" /\ f.pc = "copy" /\ f.src = t.src /\ f.dst = t.dst
      /\ f.k = 0 /\ f.w = 0
  BY <1>2, <1>5 DEF Frames
<1>7. Quiet /\ dirs' = dirs /\ call' = call /\ before' = before
  BY DEF CopyOpen, ghosts, Quiet
<1>8. Writable(t.dst)
  BY <1>2, <1>4, RootIs DEF Writable, IsDirectory, Copying, Room
<1>9. Become(f) /\ (IF IsFile(t.dst) THEN UNCHANGED files ELSE Put(t.dst, <<>>))
  BY <1>1, <1>5, <1>8 DEF CopyOpen, Fails
<1>10. /\ DOMAIN files' = DOMAIN files \cup {t.dst}
       /\ \A q \in DOMAIN files : files'[q] = files[q]
  BY <1>9 DEF Put, IsFile
<1>11. \A q \in SrcFiles : TailIs(q, Moved(q))
  BY DEF Copying, Tails
<1>12. Placed(f)'
  <2>1. Len(files'[t.dst]) \in Nat
    BY <1>10, LenProperties DEF Known, FilesOK
  <2>2. HeadIs(t.src, t.dst, 0)'
    BY <1>10, <2>1 DEF HeadIs
  <2>3. Moved(t.src)' = Moved(t.src)
    BY <1>7, SameCall
  <2> QED
    BY <1>2, <1>3, <1>4, <1>6, <1>7, <2>2, <2>3 DEF Placed
<1>13. Room'
  <2>1. \A q \in SrcDirs : Moved(q) # t.dst
    <3>1. CallOK
      BY DEF Copying, Known, Control
    <3>2. \A q \in SrcDirs : q \in Seq(Names) /\ Below(q, call.src) /\ q # t.src
      BY <1>4, SourceTree DEF Copying
    <3> QED
      BY <1>2, <1>4, <3>1, <3>2, MovedIs
  <2>2. ~IsStrictPrefix(t.dst, call.dst)
    <3>1. Below(t.dst, call.dst) /\ call.dst \in Seq(Names)
      BY <1>2, <1>4, MovedIs DEF Copying, Known, Control, CallOK
    <3> QED
      BY <1>2, <3>1, NotBoth
  <2> QED
    BY <1>7, <1>10, <2>1, <2>2, SameCall DEF Room, Copying
<1>14. Tails'
  <2>1. ASSUME NEW q \in SrcFiles
        PROVE  TailIs(q, Moved(q))'
    BY <1>7, <1>10, <1>11, SameCall DEF TailIs
  <2> QED
    BY <1>7, <2>1, SameCall DEF Tails
<1>15. \A q \in SrcDirs \cup SrcFiles : IsDone(q) => IsDone(q)'
  BY <1>7, <1>10, SameCall DEF IsDone, Copied
<1>16. \A q \in SrcDirs \cup SrcFiles : Pending(t, q) => Pending(f, q)
  BY <1>2, <1>6 DEF Pending
<1>17. FramesIn' /\ Covered'
  BY <1>1, <1>2, <1>6, <1>7, <1>9, <1>12, <1>15, <1>16, CopyGoesOn
<1> QED
  BY <1>13, <1>14, <1>17 DEF CopyOK

\* The next buffer of a file, written over what is there.
LEMMA OverwriteHas ==
  ASSUME NEW c \in Seq(Buffers), NEW d \in Seq(Buffers), NEW n \in 1..Len(c), n <= Len(d) + 1,
         \A j \in 1..(n - 1) : d[j] = c[j], NEW o, o = Overwrite(d, n, c[n])
  PROVE  /\ o \in Seq(Buffers) /\ Len(o) >= n /\ Len(o) >= Len(d)
         /\ \A j \in 1..n : o[j] = c[j]
         /\ \A j \in (Len(c) + 1)..Len(d) : o[j] = d[j]
         /\ IsPrefix(c, d) => IsPrefix(c, o)
<1>1. PICK a \in Nat, b \in Nat : a = Len(c) /\ b = Len(d) /\ n \in Nat \ {0} /\ n <= a
  BY LenProperties
<1>2. c[n] \in Buffers
  BY ElementOfSeq
<1>4. o \in Seq(Buffers) /\ Len(o) >= n /\ Len(o) >= b
  BY <1>1, <1>2, OverwriteIs
<1>5. ASSUME NEW j \in Nat \ {0}, j <= b \/ j = n
      PROVE  o[j] = IF j = n THEN c[n] ELSE d[j]
  <2>1. j \in 1..(IF n > b THEN n ELSE b)
    BY <1>5
  <2>2. o = [i \in 1..(IF n > b THEN n ELSE b) |-> IF i = n THEN c[n] ELSE d[i]]
    BY <1>1 DEF Overwrite
  <2> QED
    BY <2>1, <2>2, Zenon
<1>6. ASSUME NEW j \in 1..n
      PROVE  o[j] = c[j]
  <2>1. j \in Nat \ {0} /\ (j <= b \/ j = n) /\ (j = n \/ j \in 1..(n - 1))
    BY <1>1
  <2>2. o[j] = IF j = n THEN c[n] ELSE d[j]
    BY <1>5, <2>1
  <2> QED
    BY <2>1, <2>2
<1>7. ASSUME NEW j \in (a + 1)..b
      PROVE  o[j] = d[j]
  <2>1. j \in Nat \ {0} /\ j <= b /\ j # n
    BY <1>1
  <2> QED
    BY <1>5, <2>1
<1>8. ASSUME IsPrefix(c, d)
      PROVE  IsPrefix(c, o)
  <2>1. a <= b /\ \A j \in 1..a : d[j] = c[j]
    BY <1>1, <1>8, PrefixIs
  <2>2. ASSUME NEW j \in 1..a
        PROVE  o[j] = c[j]
    <3>1. j \in Nat \ {0} /\ j <= b
      BY <2>1
    <3>2. o[j] = IF j = n THEN c[n] ELSE d[j]
      BY <1>5, <3>1
    <3> QED
      BY <2>1, <3>2
  <2>3. Len(o) \in Nat /\ a <= Len(o)
    BY <1>4, <2>1, LenProperties
  <2> QED
    BY <1>1, <1>4, <2>2, <2>3, PrefixIs
<1> QED
  BY <1>1, <1>4, <1>6, <1>7, <1>8, Zenon

\* With one more buffer of file q in file d, as much more of it is copied.
LEMMA BufferAdded ==
  ASSUME BeforeOK, before' = before, NEW q, before.files[q] \in Seq(Buffers),
         NEW d, files[d] \in Seq(Buffers), NEW n \in 1..Len(before.files[q]),
         HeadIs(q, d, n - 1), TailIs(q, d), d \in DOMAIN files',
         files'[d] = Overwrite(files[d], n, before.files[q][n])
  PROVE  HeadIs(q, d, n)' /\ TailIs(q, d)' /\ (Copied(q, d) => Copied(q, d)')
<1>1. PICK c \in Seq(Buffers), b \in Seq(Buffers) : c = before.files[q] /\ b = files[d]
  OBVIOUS
<1>2. PICK o : o = files'[d] /\ o = Overwrite(b, n, c[n])
  BY <1>1
<1>3. Len(c) \in Nat /\ Len(b) \in Nat
  BY LenProperties
<1>4. n \in 1..Len(c) /\ n <= Len(b) + 1 /\ \A j \in 1..(n - 1) : b[j] = c[j]
  BY <1>1, <1>3 DEF HeadIs
<1>5. /\ o \in Seq(Buffers) /\ Len(o) >= n /\ Len(o) >= Len(b)
      /\ \A j \in 1..n : o[j] = c[j]
      /\ \A j \in (Len(c) + 1)..Len(b) : o[j] = b[j]
      /\ IsPrefix(c, b) => IsPrefix(c, o)
  BY <1>2, <1>4, OverwriteHas
<1>6. Len(o) \in Nat
  BY <1>5, LenProperties
<1>7. HeadIs(q, d, n)'
  BY <1>1, <1>2, <1>3, <1>4, <1>5, <1>6 DEF HeadIs
<1>8. TailIs(q, d)'
  <2> SUFFICES ASSUME d \in DOMAIN before.files
               PROVE  TailIs(q, d)'
    BY DEF TailIs
  <2>1. PICK a \in Seq(Buffers) : a = before.files[d]
    BY DEF BeforeOK
  <2>2. Len(a) <= Len(b) /\ \A j \in (Len(c) + 1)..Len(a) : b[j] = a[j]
    BY <1>1, <2>1 DEF TailIs
  <2>3. Len(a) \in Nat
    BY LenProperties
  <2>4. \A j \in (Len(c) + 1)..Len(a) : j \in (Len(c) + 1)..Len(b)
    BY <1>3, <2>2, <2>3
  <2>5. \A j \in (Len(c) + 1)..Len(a) : o[j] = a[j]
    BY <1>5, <2>2, <2>4
  <2>6. Len(a) <= Len(o)
    BY <1>3, <1>5, <1>6, <2>2, <2>3
  <2> QED
    BY <1>1, <1>2, <2>1, <2>5, <2>6 DEF TailIs
<1>9. ASSUME Copied(q, d)
      PROVE  Copied(q, d)'
  <2>1. IsPrefix(c, files'[d])
    BY <1>1, <1>2, <1>5, <1>9 DEF Copied
  <2> QED
    BY <1>1, <1>8, <2>1 DEF Copied, TailIs
<1> QED
  BY <1>7, <1>8, <1>9

\* What FileCopy() has in hand: the source as it was, and its place, which holds
\* what it has read and what a longer old file had after it.
LEMMA CopyHolds ==
  ASSUME Copying, Top.fun = "FileCopy", Top.pc = "copy"
  PROVE  /\ Top.src \in SrcFiles /\ Top.dst = Moved(Top.src) /\ Top.w = Top.k /\ Top.k \in Nat
         /\ HeadIs(Top.src, Top.dst, Top.k) /\ TailIs(Top.src, Top.dst)
         /\ IsFile(Top.src) /\ files[Top.src] = before.files[Top.src]
         /\ before.files[Top.src] \in Seq(Buffers) /\ files[Top.dst] \in Seq(Buffers)
         /\ Top.k <= Len(before.files[Top.src])
<1>1. Placed(Top)
  BY TopPlaced
<1>2. /\ Top.src \in SrcFiles /\ Top.dst = Moved(Top.src) /\ Top.w = Top.k
      /\ HeadIs(Top.src, Top.dst, Top.k)
  BY <1>1 DEF Placed, SrcFiles
<1>3. Top \in Frames /\ OpenFor(Top) /\ Top.k \in Nat /\ Top.src \in Seq(Names)
  BY TopIs DEF Copying, Known, Control, OpenOK, Frames
<1>4. IsFile(Top.src) /\ files[Top.src] = before.files[Top.src]
  BY <1>2, <1>3 DEF Copying, Known, SourceSame, SrcFiles, IsFile
<1>5. before.files[Top.src] \in Seq(Buffers) /\ files[Top.dst] \in Seq(Buffers)
  BY <1>2 DEF Copying, Known, BeforeOK, FilesOK, SrcFiles, HeadIs
<1>6. TailIs(Top.src, Top.dst)
  BY <1>2 DEF Copying, Tails
<1>7. Top.k <= Len(before.files[Top.src])
  BY <1>3, <1>4 DEF OpenFor
<1> QED
  BY <1>2, <1>3, <1>4, <1>5, <1>6, <1>7

\* At the end of the source FileCopy() has copied it.
LEMMA CopyIsWhole ==
  ASSUME NEW q, NEW d, before.files[q] \in Seq(Buffers), files[d] \in Seq(Buffers),
         HeadIs(q, d, Len(before.files[q])), TailIs(q, d)
  PROVE  Copied(q, d)
<1>1. IsPrefix(before.files[q], files[d])
  BY PrefixIs DEF HeadIs
<1> QED
  BY <1>1 DEF Copied, HeadIs, TailIs

\* FileCopy() copies a buffer, or has copied all.
LEMMA CopyTakesBuffer ==
  ASSUME Copying, Known', fails = 0, fails' = 0, CopyChunk
  PROVE  CopyOK'
<1>1. PICK t : t = Top
  OBVIOUS
<1>2. /\ stack # <<>> /\ t.fun = "FileCopy" /\ t.pc = "copy" /\ t \in Frames
      /\ t.dst \in Seq(Names) /\ t.src \in Seq(Names)
  BY <1>1, AtTop DEF CopyChunk, Copying, Known
<1>3. /\ t.src \in SrcFiles /\ t.dst = Moved(t.src) /\ t.w = t.k /\ t.k \in Nat
      /\ HeadIs(t.src, t.dst, t.k) /\ TailIs(t.src, t.dst)
      /\ IsFile(t.src) /\ files[t.src] = before.files[t.src]
      /\ before.files[t.src] \in Seq(Buffers) /\ files[t.dst] \in Seq(Buffers)
      /\ t.k <= Len(before.files[t.src])
  BY <1>1, <1>2, CopyHolds
<1>4. PICK c \in Seq(Buffers), d \in Seq(Buffers) : c = before.files[t.src] /\ d = files[t.dst]
  BY <1>3
<1>5. PICK o : o = Overwrite(d, t.k + 1, c[t.k + 1])
  OBVIOUS
<1>6. PICK f : f = [t EXCEPT !.k = @ + 1, !.w = @ + 1]
  OBVIOUS
<1>7. Quiet /\ dirs' = dirs /\ call' = call /\ before' = before
  BY DEF CopyChunk, ghosts, Quiet
<1>8. \/ t.k = Len(c) /\ Return("success") /\ files' = files
      \/ t.k # Len(c) /\ Put(t.dst, o) /\ Become(f)
  BY <1>1, <1>3, <1>4, <1>5, <1>6 DEF CopyChunk, AtEnd, Fails
<1>9. \A q \in SrcFiles : q \notin before.dirs /\ q \in DOMAIN before.files /\ TailIs(q, Moved(q))
  BY SourceTree DEF Copying, SrcFiles, SrcDirs, Tails
<1>10. CASE t.k = Len(c) /\ Return("success") /\ files' = files
  <2>1. Copied(t.src, t.dst)
    BY <1>3, <1>4, <1>10, CopyIsWhole
  <2>2. IsDone(t.src)
    BY <1>3, <1>9, <2>1 DEF IsDone
  <2>3. \A q \in SrcDirs \cup SrcFiles : Pending(t, q) => IsDone(q)
    BY <1>2, <2>2 DEF Pending
  <2>4. UNCHANGED fs
    BY <1>7, <1>10 DEF fs
  <2> QED
    BY <1>1, <1>2, <1>7, <1>10, <2>3, <2>4, CopyReturns DEF CopyOK
<1>11. CASE t.k # Len(c) /\ Put(t.dst, o) /\ Become(f)
  <2>1. PICK k \in Nat : k = t.k + 1
    BY <1>3
  <2>2. k \in 1..Len(c) /\ k - 1 = t.k
    <3>1. Len(c) \in Nat
      BY LenProperties
    <3> QED
      BY <1>3, <1>4, <1>11, <2>1, <3>1
  <2>4. /\ DOMAIN files' = DOMAIN files /\ files'[t.dst] = o
        /\ \A q \in DOMAIN files : q # t.dst => files'[q] = files[q]
    BY <1>3, <1>11 DEF Put, HeadIs
  <2>5. /\ f \in Frames /\ f.fun = "FileCopy" /\ f.pc = "copy" /\ f.src = t.src
        /\ f.dst = t.dst /\ f.k = k /\ f.w = k
    <3>1. f = [t EXCEPT !.k = k, !.w = k]
      BY <1>3, <1>6, <2>1
    <3> QED
      BY <1>2, <2>1, <3>1 DEF Frames
  <2>6. \A q \in SrcFiles : q # t.src => Moved(q) # t.dst
    <3>1. CallOK /\ Below(t.src, call.src)
      BY <1>3 DEF Copying, Known, Control, SrcFiles
    <3>2. \A q \in SrcFiles : q \in Seq(Names) /\ Below(q, call.src)
      BY SourceTree DEF Copying
    <3> QED
      BY <1>2, <1>3, <3>1, <3>2, MovedIs
  <2>7. HeadIs(t.src, t.dst, k - 1) /\ t.dst \in DOMAIN files'
    BY <1>3, <2>2, <2>4 DEF HeadIs
  <2>8. files'[t.dst] = Overwrite(files[t.dst], k, before.files[t.src][k])
    BY <1>4, <1>5, <2>1, <2>4, Zenon
  <2>9. /\ HeadIs(t.src, t.dst, k)' /\ TailIs(t.src, t.dst)'
        /\ Copied(t.src, t.dst) => Copied(t.src, t.dst)'
    BY <1>3, <1>4, <1>7, <2>2, <2>7, <2>8, BufferAdded DEF Copying, Known
  <2>10. Tails'
    <3>1. ASSUME NEW q \in SrcFiles, q # t.src
          PROVE  TailIs(q, Moved(q))'
      BY <1>7, <1>9, <2>4, <2>6, <3>1, SameCall DEF TailIs
    <3>2. Moved(t.src)' = t.dst
      BY <1>3, <1>7, SameCall
    <3> QED
      BY <1>7, <2>9, <3>1, <3>2, SameCall DEF Tails
  <2>11. Room'
    BY <1>7, <2>4, SameCall DEF Room, Copying
  <2>12. ASSUME NEW q \in SrcDirs \cup SrcFiles, IsDone(q)
         PROVE  IsDone(q)'
    <3>1. Moved(q)' = Moved(q)
      BY <1>7, SameCall
    <3>2. q \in before.dirs => Moved(q) \in dirs
      BY <2>12 DEF IsDone
    <3>3. ASSUME q \in DOMAIN before.files
          PROVE  Copied(q, Moved(q))'
      <4>1. Copied(q, Moved(q))
        BY <2>12, <3>3 DEF IsDone
      <4>2. q \in SrcFiles
        BY <2>12, <3>3 DEF SrcFiles, SrcDirs
      <4>3. CASE q # t.src
        BY <1>7, <2>4, <2>6, <3>1, <4>1, <4>2, <4>3 DEF Copied
      <4>4. CASE q = t.src
        BY <1>3, <2>9, <3>1, <4>1, <4>4
      <4> QED
        BY <4>3, <4>4
    <3> QED
      BY <1>7, <3>1, <3>2, <3>3 DEF IsDone
  <2>13. Placed(f)'
    <3>1. Below(t.src, call.src) /\ t.src \in DOMAIN before.files /\ Front(t.dst) \in dirs
      BY <1>1, <1>2, TopPlaced DEF Placed
    <3>2. Moved(t.src)' = t.dst
      BY <1>3, <1>7, SameCall
    <3> QED
      BY <1>7, <2>5, <2>9, <3>1, <3>2 DEF Placed
  <2>14. \A q \in SrcDirs \cup SrcFiles : Pending(t, q) => Pending(f, q)
    BY <1>2, <2>5 DEF Pending
  <2>15. FramesIn' /\ Covered'
    BY <1>1, <1>2, <1>7, <1>11, <2>5, <2>12, <2>13, <2>14, CopyGoesOn
  <2> QED
    BY <2>10, <2>11, <2>15 DEF CopyOK
<1> QED
  BY <1>8, <1>10, <1>11

\* The fields of a new frame.
LEMMA FrameIs ==
  ASSUME NEW f \in Funs, NEW s \in Seq(Names), NEW d \in Seq(Names), NEW g, g = Frame(f, s, d)
  PROVE  /\ g \in Frames /\ g.fun = f /\ g.pc = "start" /\ g.src = s /\ g.dst = d
         /\ g.done = {} /\ g.k = 0 /\ g.w = 0
  BY DEF Frame, Frames, Labels

\* DirCopy() calls FileCopy() for a file, the one it was called for, and
\* CreateDir() for a directory, whose entries are left to be copied.
LEMMA CopyStarts ==
  ASSUME Copying, Known', fails = 0, fails' = 0, DirCopyStart
  PROVE  CopyOK'
<1>1. PICK t : t = Top
  OBVIOUS
<1>2. /\ stack # <<>> /\ t.fun = "DirCopy" /\ t.pc = "start" /\ t \in Frames
      /\ t.dst \in Seq(Names) /\ t.src \in Seq(Names)
  BY <1>1, AtTop DEF DirCopyStart, Copying, Known
<1>3. /\ Below(t.src, call.src) /\ t.dst = Moved(t.src) /\ t.done = {}
      /\ Len(stack) # 1 => t.src \in before.dirs
  BY <1>1, <1>2, TopPlaced DEF Placed, Inner
<1>4. Quiet /\ UNCHANGED fs
  BY DEF DirCopyStart, ghosts, Quiet
<1>5. /\ t.src \in dirs <=> t.src \in before.dirs
      /\ t.src \in DOMAIN files <=> t.src \in DOMAIN before.files
  BY <1>2, <1>3 DEF Copying, Known, SourceSame
<1>6. PICK end : end = [t EXCEPT !.pc = "end"]
  OBVIOUS
<1>7. PICK scan : scan = [t EXCEPT !.pc = "scan", !.had = Entries(t.src)]
  OBVIOUS
<1>8. PICK g \in Frames : /\ g = Frame("FileCopy", t.src, t.dst) /\ g.fun = "FileCopy" /\ g.pc = "start"
                          /\ g.src = t.src /\ g.dst = t.dst
  BY <1>2, FrameIs DEF Funs
<1>9. PICK h \in Frames : /\ h = Frame("CreateDir", t.src, t.dst) /\ h.fun = "CreateDir" /\ h.pc = "start"
                          /\ h.src = t.src /\ h.dst = t.dst /\ h.k = 0
  BY <1>2, FrameIs DEF Funs
<1>10. \/ IsFile(t.src) /\ CallFrom(end, g)
       \/ ~Exists(t.src) /\ Return("failure")
       \/ IsDirectory(t.src) /\ CallFrom(scan, h)
  <2>1. ~Fails
    BY DEF Fails
  <2> QED
    BY <1>1, <1>6, <1>7, <1>8, <1>9, <2>1, Zenon DEF DirCopyStart
<1>11. CASE IsFile(t.src) /\ CallFrom(end, g)
  <2>1. t.src \in SrcFiles /\ t.src \notin SrcDirs /\ t.src \notin before.dirs
    BY <1>3, <1>5, <1>11, SourceTree DEF Copying, SrcFiles, SrcDirs, IsFile
  <2>2. t.src = call.src
    BY <1>1, <1>3, <2>1, First DEF Copying, Known, Control, BottomOK
  <2>3. Front(t.dst) \in dirs
    <3>1. t.dst = call.dst
      BY <1>3, <2>2, MovedIs DEF Copying, Known, Control
    <3>2. Front(call.dst) \in before.dirs
      BY <2>1, <2>2 DEF Copying, Fits, SrcFiles
    <3> QED
      BY <3>1, <3>2 DEF Copying, Room
  <2>4. Placed(g) /\ Inner(g)
    BY <1>3, <1>8, <2>1, <2>3 DEF Placed, Inner, SrcFiles
  <2>5. end \in Frames /\ end.fun = "DirCopy" /\ end.pc = "end" /\ end.src = t.src /\ end.dst = t.dst
    BY <1>2, <1>6 DEF Frames, Labels
  <2>6. Placed(end) /\ Made(end, g)
    BY <1>3, <2>5 DEF Placed, Made
  <2>7. ASSUME NEW q \in SrcDirs \cup SrcFiles, Pending(t, q)
        PROVE  Pending(g, q)
    <3>1. Below(q, t.src)
      BY <1>2, <2>7 DEF Pending
    <3>2. q = t.src
      BY <1>2, <1>3, <2>1, <3>1, SourceTree DEF Copying
    <3> QED
      BY <1>8, <3>2 DEF Pending
  <2>8. Room' /\ Tails' /\ FramesIn' /\ Covered'
    BY <1>1, <1>2, <1>4, <1>8, <1>11, <2>4, <2>5, <2>6, <2>7, CopyCalls
  <2> QED
    BY <2>8 DEF CopyOK
<1>12. CASE ~Exists(t.src) /\ Return("failure")
  <2>1. Len(stack) = 1
    BY <1>3, <1>5, <1>12 DEF Exists, IsDirectory
  <2>2. stack' = <<>> /\ ret' = "failure"
    BY <1>2, <1>12, <2>1, First DEF Copying, Known, Return
  <2>3. Room' /\ Tails'
    BY <1>4, CopyKept DEF Copying
  <2>4. FramesIn'
    BY <2>2, EmptySeq DEF FramesIn
  <2> QED
    BY <2>2, <2>3, <2>4 DEF CopyOK
<1>13. CASE IsDirectory(t.src) /\ CallFrom(scan, h)
  <2>1. t.src \in before.dirs
    BY <1>5, <1>13 DEF IsDirectory
  <2>2. Placed(h) /\ Inner(h)
    <3>1. \A m \in 0..0 : SubSeq(t.dst, 1, m) \in dirs
      <4>1. 0 \in 0..Len(t.dst)
        BY <1>2, RootIs
      <4>2. SubSeq(t.dst, 1, 0) \in Seq(Names) /\ Len(SubSeq(t.dst, 1, 0)) = 0
        BY <1>2, <4>1, Initial
      <4>3. SubSeq(t.dst, 1, 0) = Root
        BY <4>2, RootIs
      <4>4. Root \in dirs /\ \A m \in 0..0 : m = 0
        BY DEF Copying, Known, FilesOK
      <4> QED
        BY <4>3, <4>4, Zenon
    <3> QED
      BY <1>3, <1>9, <2>1, <3>1 DEF Placed, Inner
  <2>3. /\ scan \in Frames /\ scan.fun = "DirCopy" /\ scan.pc = "scan" /\ scan.src = t.src
        /\ scan.dst = t.dst /\ scan.had = Entries(t.src) /\ scan.done = {}
    <3>1. Entries(t.src) \in SUBSET EntryNames
      BY <1>2, EntryIs
    <3> QED
      BY <1>2, <1>3, <1>7, <3>1 DEF Frames, Labels
  <2>4. Placed(scan) /\ Made(scan, h)
    BY <1>3, <1>9, <2>1, <2>3 DEF Placed, Made
  <2>5. ASSUME NEW q \in SrcDirs \cup SrcFiles, Pending(t, q)
        PROVE  Pending(scan, q) \/ Pending(h, q)
    <3>1. Below(q, t.src)
      BY <1>2, <2>5 DEF Pending
    <3>2. q # t.src => \E n \in Names : Below(q, Append(t.src, n))
      BY <1>2, <3>1, SourceTree DEF Copying
    <3> QED
      BY <1>9, <2>3, <3>2 DEF Pending
  <2>6. Room' /\ Tails' /\ FramesIn' /\ Covered'
    BY <1>1, <1>2, <1>4, <1>9, <1>13, <2>2, <2>3, <2>4, <2>5, CopyCalls
  <2> QED
    BY <2>6 DEF CopyOK
<1> QED
  BY <1>10, <1>11, <1>12, <1>13

\* DirCopy() leaves no entry of the source out: it passes over "." and "..", calls
\* for each of the others, and ends when it has seen all.
LEMMA CopyEntries ==
  ASSUME Copying, Known', fails = 0, fails' = 0, DirCopyEntry
  PROVE  CopyOK'
<1>1. PICK t : t = Top
  OBVIOUS
<1>2. /\ stack # <<>> /\ t.fun = "DirCopy" /\ t.pc = "scan" /\ t \in Frames
      /\ t.dst \in Seq(Names) /\ t.src \in Seq(Names)
  BY <1>1, AtTop DEF DirCopyEntry, Copying, Known
<1>3. /\ Placed(t) /\ Below(t.src, call.src) /\ t.dst = Moved(t.src) /\ t.src \in before.dirs
      /\ Entries(t.src) \subseteq t.had /\ t.dst \in dirs
  BY <1>1, <1>2, TopPlaced DEF Placed, Made
<1>4. Quiet /\ UNCHANGED fs /\ dirs' = dirs
  BY DEF DirCopyEntry, ghosts, Quiet, fs
<1>5. Room' /\ Tails' /\ \A q : IsDone(q)' <=> IsDone(q)
  BY <1>4, CopyKept DEF Copying
<1>6. CallOK
  BY DEF Copying, Known, Control
<1>7. ASSUME NEW n \in Names
      PROVE  /\ Append(t.src, n) \in Seq(Names) /\ Below(Append(t.src, n), call.src)
             /\ Append(t.dst, n) \in Seq(Names) /\ Moved(Append(t.src, n)) = Append(t.dst, n)
             /\ Append(t.src, n) \in dirs <=> Append(t.src, n) \in before.dirs
             /\ Append(t.src, n) \in DOMAIN files <=> Append(t.src, n) \in DOMAIN before.files
  <2>1. /\ Append(t.src, n) \in Seq(Names) /\ Below(Append(t.src, n), call.src)
        /\ Append(t.dst, n) \in Seq(Names) /\ Moved(Append(t.src, n)) = Append(t.dst, n)
    BY <1>2, <1>3, <1>6, MovedIs, EntryBelow
  <2> QED
    BY <2>1 DEF Copying, Known, SourceSame
<1>8. ASSUME NEW n \in Entries(t.src) \ t.done, NEW f, f = [t EXCEPT !.done = @ \cup {n}]
      PROVE  /\ f \in Frames /\ f.fun = "DirCopy" /\ f.pc = "scan" /\ f.src = t.src /\ f.dst = t.dst
             /\ f.had = t.had /\ f.done = t.done \cup {n}
             /\ Placed(f) /\ \A g : Made(f, g)
             /\ \A q : Pending(t, q) => Pending(f, q) \/ (n \in Names /\ Below(q, Append(t.src, n)))
  <2>1. n \in EntryNames
    BY <1>2, <1>8, EntryIs
  <2>2. /\ f \in Frames /\ f.fun = "DirCopy" /\ f.pc = "scan" /\ f.src = t.src /\ f.dst = t.dst
        /\ f.had = t.had /\ f.done = t.done \cup {n}
    BY <1>2, <1>8, <2>1 DEF Frames
  <2>3. Placed(f) /\ \A g : Made(f, g)
    BY <1>3, <2>2 DEF Placed, Made
  <2>4. ASSUME NEW q, Pending(t, q)
        PROVE  Pending(f, q) \/ (n \in Names /\ Below(q, Append(t.src, n)))
    <3>1. PICK m \in Names \ t.done : Below(q, Append(t.src, m))
      BY <1>2, <2>4 DEF Pending
    <3>2. m = n \/ m \in Names \ f.done
      BY <2>2
    <3> QED
      BY <2>2, <3>1, <3>2 DEF Pending
  <2> QED
    BY <2>2, <2>3, <2>4
<1>9. \/ \E n \in Entries(t.src) \ t.done : Skipped(n) /\ Become([t EXCEPT !.done = @ \cup {n}])
      \/ \E n \in Entries(t.src) \ t.done :
           /\ ~Skipped(n) /\ IsDirectory(Walk(t.src, n))
           /\ CallFrom([t EXCEPT !.done = @ \cup {n}], Frame("DirCopy", Walk(t.src, n), Walk(t.dst, n)))
      \/ \E n \in Entries(t.src) \ t.done :
           /\ ~Skipped(n) /\ IsFile(Walk(t.src, n))
           /\ CallFrom([t EXCEPT !.done = @ \cup {n}], Frame("FileCopy", Walk(t.src, n), Walk(t.dst, n)))
      \/ ScanEnds(t) /\ Return("success")
  <2>1. ~Fails
    BY DEF Fails
  <2> QED
    BY <1>1, <2>1, Zenon DEF DirCopyEntry, NextEntries
<1>10. ASSUME NEW n \in Entries(t.src) \ t.done, Skipped(n), Become([t EXCEPT !.done = @ \cup {n}])
       PROVE  CopyOK'
  <2>1. PICK f : f = [t EXCEPT !.done = @ \cup {n}]
    OBVIOUS
  <2>2. /\ f \in Frames /\ f.fun = "DirCopy" /\ f.pc = "scan" /\ f.src = t.src /\ Placed(f)
        /\ \A q : Pending(t, q) => Pending(f, q) \/ (n \in Names /\ Below(q, Append(t.src, n)))
    BY <1>8, <2>1
  <2>3. n \notin Names
    BY <1>10, DataDbAssumption DEF Skipped
  <2>4. Placed(f)'
    <3>1. dirs' = dirs /\ files' = files /\ call' = call /\ before' = before
      BY <1>4 DEF fs, Quiet
    <3> QED
      BY <1>4, <2>2, <3>1, SameCall DEF Placed, HeadIs, Entries, Exists, IsFile, IsDirectory
  <2>5. FramesIn' /\ Covered'
    BY <1>1, <1>2, <1>4, <1>5, <1>10, <2>1, <2>2, <2>3, <2>4, CopyGoesOn
  <2> QED
    BY <1>5, <2>5 DEF CopyOK
<1>11. ASSUME NEW n \in Entries(t.src) \ t.done, ~Skipped(n), NEW fun \in {"DirCopy", "FileCopy"},
              IF fun = "DirCopy" THEN IsDirectory(Walk(t.src, n)) ELSE IsFile(Walk(t.src, n)),
              CallFrom([t EXCEPT !.done = @ \cup {n}], Frame(fun, Walk(t.src, n), Walk(t.dst, n)))
       PROVE  CopyOK'
  <2>1. PICK f : f = [t EXCEPT !.done = @ \cup {n}]
    OBVIOUS
  <2>2. /\ f \in Frames /\ f.fun = "DirCopy" /\ f.pc = "scan" /\ f.src = t.src /\ Placed(f)
        /\ \A g : Made(f, g)
        /\ \A q : Pending(t, q) => Pending(f, q) \/ Below(q, Append(t.src, n))
    BY <1>8, <2>1
  <2>3. n \in Names /\ Walk(t.src, n) = Append(t.src, n) /\ Walk(t.dst, n) = Append(t.dst, n)
    BY <1>2, <1>11, EntryIs
  <2>4. PICK s \in Seq(Names), d \in Seq(Names) :
          /\ s = Append(t.src, n) /\ d = Append(t.dst, n) /\ Below(s, call.src) /\ d = Moved(s)
          /\ s \in dirs <=> s \in before.dirs
          /\ s \in DOMAIN files <=> s \in DOMAIN before.files
    BY <1>7, <2>3
  <2>5. PICK g \in Frames : /\ g = Frame(fun, s, d) /\ g.fun = fun /\ g.pc = "start"
                            /\ g.src = s /\ g.dst = d /\ g.done = {}
    <3>1. fun \in Funs
      BY DEF Funs
    <3>2. PICK g : g = Frame(fun, s, d)
      OBVIOUS
    <3> QED
      BY <3>1, <3>2, FrameIs
  <2>6. CallFrom(f, g)
    BY <1>11, <2>1, <2>3, <2>4, <2>5
  <2>7. IF fun = "DirCopy" THEN s \in SrcDirs ELSE s \in SrcFiles
    BY <1>11, <2>3, <2>4 DEF IsDirectory, IsFile, SrcDirs, SrcFiles
  <2>8. Front(d) \in dirs
    <3>1. Front(Append(t.dst, n)) = t.dst
      BY <1>2, <2>3, FrontIs
    <3> QED
      BY <1>3, <2>4, <3>1
  <2>9. Placed(g) /\ Inner(g)
    BY <2>4, <2>5, <2>7, <2>8 DEF Placed, Inner, SrcDirs, SrcFiles
  <2>10. ASSUME NEW q \in SrcDirs \cup SrcFiles, Pending(t, q)
         PROVE  Pending(f, q) \/ Pending(g, q)
    <3> SUFFICES ASSUME Below(q, s) PROVE Pending(g, q)
      BY <2>2, <2>4, <2>10
    <3>1. CASE fun = "DirCopy"
      BY <2>5, <3>1 DEF Pending
    <3>2. CASE fun = "FileCopy"
      <4>1. s \in SrcFiles /\ s \notin SrcDirs
        BY <2>7, <3>2, SourceTree DEF Copying
      <4>2. q = s
        BY <2>4, <4>1, SourceTree DEF Copying
      <4> QED
        BY <2>5, <3>2, <4>2 DEF Pending
    <3> QED
      BY <3>1, <3>2
  <2>11. Room' /\ Tails' /\ FramesIn' /\ Covered'
    BY <1>1, <1>2, <1>4, <2>2, <2>5, <2>6, <2>9, <2>10, CopyCalls
  <2> QED
    BY <2>11 DEF CopyOK
<1>12. ASSUME ScanEnds(t), Return("success")
       PROVE  CopyOK'
  <2>1. ASSUME NEW q \in SrcDirs \cup SrcFiles
        PROVE  ~Pending(t, q)
    <3> SUFFICES ASSUME Pending(t, q) PROVE FALSE
      OBVIOUS
    <3>1. PICK n \in Names \ t.done : Below(q, Append(t.src, n))
      BY <1>2 DEF Pending
    <3>2. Append(t.src, n) = q \/ Append(t.src, n) \in SrcDirs
      BY <1>7, <3>1, SourceTree DEF Copying
    <3>3. Exists(Append(t.src, n))
      BY <1>7, <3>2 DEF SrcDirs, SrcFiles, Exists, IsFile, IsDirectory
    <3>4. n \in Entries(t.src)
      BY <3>3 DEF Entries
    <3> QED
      BY <1>3, <1>12, <3>4 DEF ScanEnds, NextEntries
  <2>2. Room' /\ Tails' /\ FramesIn' /\ Covered'
    BY <1>1, <1>2, <1>4, <1>12, <2>1, CopyReturns
  <2> QED
    BY <2>2 DEF CopyOK
<1> QED
  <2>1. "DirCopy" \in {"DirCopy", "FileCopy"} /\ "FileCopy" \in {"DirCopy", "FileCopy"} /\ "FileCopy" # "DirCopy"
    OBVIOUS
  <2> QED
    BY <1>9, <1>10, <1>11, <1>12, <2>1, Zenon

\* DirCopy() ends after a file.
LEMMA CopyEnds ==
  ASSUME Copying, Known', DirCopyEnd
  PROVE  CopyOK'
<1>1. Top.fun = "DirCopy" /\ Top.pc = "end"
  BY DEF DirCopyEnd, In
<1>2. Quiet /\ UNCHANGED fs /\ Return("success")
  BY DEF DirCopyEnd, ghosts, Quiet
<1>3. \A q : ~Pending(Top, q)
  BY <1>1 DEF Pending
<1> QED
  BY <1>1, <1>2, <1>3, CopyReturns DEF CopyOK

\* When the process dies nothing is said of what was to be copied.
LEMMA CopyDies ==
  ASSUME Copying, Crash
  PROVE  CopyOK'
<1>1. Quiet /\ UNCHANGED fs /\ stack' = <<>> /\ ret' = "died"
  BY DEF Crash, Dies, ghosts, Quiet
<1>2. Room' /\ Tails'
  BY <1>1, CopyKept DEF Copying
<1>3. FramesIn'
  BY <1>1, EmptySeq DEF FramesIn
<1> QED
  BY <1>1, <1>2, <1>3 DEF CopyOK

\* Each step of DirCopy(), and of what it calls, keeps what is known of the copy.
LEMMA CopyRuns ==
  ASSUME Known, Known', DirCopyInv, Run \/ Crash
  PROVE  DirCopyInv'
<1>1. stack # <<>>
  BY DEF Run, Crash, In, MakeDir, CopyAccess, CopyOpen, CopyChunk,
    DirCopyStart, DirCopyNull, DirCopyEntry, DirCopyEnd,
    DeleteStart, DeleteEntry, DeleteSelf, DeleteFile, SaveParents, SaveOpen, SaveWrite
<1>2. Quiet
  BY DEF Quiet, ghosts, Run, Crash, MakeDir, CopyAccess, CopyOpen, CopyChunk,
    DirCopyStart, DirCopyNull, DirCopyEntry, DirCopyEnd,
    DeleteStart, DeleteEntry, DeleteSelf, DeleteFile, SaveParents, SaveOpen, SaveWrite
<1>3. UNCHANGED fails \/ Fails
  BY Zenon DEF Run, Crash, MakeDir, CopyAccess, CopyOpen, CopyChunk,
    DirCopyStart, DirCopyNull, DirCopyEntry, DirCopyEnd,
    DeleteStart, DeleteEntry, DeleteSelf, DeleteFile, SaveParents, SaveOpen, SaveWrite
<1> SUFFICES ASSUME call'.fun = "DirCopy", fails' = 0, Fits'
             PROVE  CopyOK'
  BY DEF DirCopyInv, CopyOK
<1>4. fails = 0
  BY <1>3 DEF Known, Control, ResultOK, Fails
<1>5. Copying
  BY <1>1, <1>2, <1>4, SameCall DEF Copying, DirCopyInv, Quiet
<1>6. /\ Top.fun \in {"DirCopy", "FileCopy", "CreateDir"}
      /\ Top.fun = "DirCopy" => Top.pc \in {"start", "scan", "end"}
  BY <1>5, TopPlaced DEF Placed
<1>7. \/ MakeDir \/ CopyAccess \/ CopyOpen \/ CopyChunk
      \/ DirCopyStart \/ DirCopyEntry \/ DirCopyEnd \/ Crash
  BY <1>6 DEF Run, In, DirCopyNull, DeleteStart, DeleteEntry, DeleteSelf, DeleteFile,
    SaveParents, SaveOpen, SaveWrite
<1> QED
  BY <1>4, <1>5, <1>7, CopyMakesDir, CopyFindsFile, CopyOpensFile, CopyTakesBuffer,
     CopyStarts, CopyEntries, CopyEnds, CopyDies

\* When DirCopy() is called nothing is copied and all is pending.
LEMMA CopyBegins ==
  ASSUME Known', Call
  PROVE  DirCopyInv'
<1> SUFFICES ASSUME call'.fun = "DirCopy", Fits'
             PROVE  CopyOK'
  BY DEF DirCopyInv, CopyOK
<1>1. \E f, s, d, n : Start(f, s, d, n)
  BY Zenon DEF Call
<1>2. PICK s \in Seq(Names), d \in Seq(Names) : s = call'.src /\ d = call'.dst
  BY DEF Known, Control, CallOK
<1>3. PICK h : h = Frame("DirCopy", s, d)
  OBVIOUS
<1>4. /\ stack' = <<h>> /\ dirs' = dirs /\ files' = files
      /\ before'.dirs = dirs' /\ before'.files = files'
  BY <1>1, <1>2, <1>3 DEF Start, fs
<1>5. h.fun = "DirCopy" /\ h.pc = "start" /\ h.src = s /\ h.dst = d /\ h.done = {}
  BY <1>2, <1>3, FrameIs DEF Funs
<1>6. stack' # <<>> /\ Len(stack') = 1 /\ stack'[1] = h /\ Top' = h
  BY <1>4 DEF Top, Last
<1>7. Room'
  BY <1>4 DEF Room, Fits, SrcDirs, SrcFiles
<1>8. Tails'
  <2>1. \A q \in DOMAIN files' : Len(files'[q]) \in Nat
    BY LenProperties DEF Known, FilesOK
  <2> QED
    BY <1>4, <2>1 DEF Tails, TailIs
<1>9. Placed(h)'
  <2>1. Below(s, s) /\ Shift(s, d, s) = d
    BY <1>2, BelowOrder, ShiftBelow
  <2> QED
    BY <1>2, <1>5, <2>1 DEF Placed, Moved, Shift
<1>10. Made(h, h)'
  BY <1>5 DEF Made
<1>11. FramesIn'
  <2>1. \A j \in 1..1 : j = 1
    OBVIOUS
  <2> QED
    BY <1>6, <1>9, <1>10, <2>1 DEF FramesIn
<1>12. Covered'
  <2>1. \A q \in SrcDirs' \cup SrcFiles' : Pending(h, q)
    BY <1>2, <1>5 DEF Pending, SrcDirs, SrcFiles
  <2>2. 1 \in 1..1
    OBVIOUS
  <2>3. \A q \in SrcDirs' \cup SrcFiles' : \E j \in 1..Len(stack') : Pending(stack'[j], q)
    BY <1>6, <2>1, <2>2
  <2> QED
    BY <2>3 DEF Covered
<1> QED
  BY <1>7, <1>8, <1>11, <1>12 DEF CopyOK

\* So it is known at any time.
LEMMA DirCopyStep ==
  ASSUME Known, Known', DirCopyInv, [Next]_vars
  PROVE  DirCopyInv'
<1>1. CASE UNCHANGED vars
  <2>1. /\ dirs' = dirs /\ files' = files /\ stack' = stack /\ ret' = ret
        /\ call' = call /\ before' = before /\ fails' = fails
    BY <1>1 DEF vars
  <2>2. Quiet /\ UNCHANGED fs
    BY <2>1 DEF Quiet, fs
  <2> SUFFICES ASSUME DirCopyInv, call.fun = "DirCopy", fails = 0, Fits
               PROVE  CopyOK'
    BY <2>1, <2>2, SameCall DEF DirCopyInv, CopyOK
  <2>3. Room' /\ Tails' /\ \A q : IsDone(q)' <=> IsDone(q)
    BY <2>2, CopyKept DEF DirCopyInv
  <2>4. \A f : Placed(f) => Placed(f)'
    BY <2>1, <2>2, SameCall DEF Placed, HeadIs, Entries, Exists, IsFile, IsDirectory
  <2>5. FramesIn'
    BY <2>1, <2>4 DEF FramesIn, Made, Inner, Top, DirCopyInv
  <2>6. stack # <<>> \/ ret = "success" => Covered'
    BY <2>1, <2>2, <2>3, SameCall DEF Covered, DirCopyInv
  <2> QED
    BY <2>1, <2>3, <2>5, <2>6 DEF CopyOK
<1> QED
  BY <1>1, CopyRuns, CopyBegins DEF Next

-----------------------------------------------------------------------------
(* FileCopy(), called by the program.                                        *)

\* Where the copy goes.
Target == IF call.dst \in before.dirs THEN Append(call.dst, Last(call.src)) ELSE call.dst

\* Nothing is changed until the files are open; then the source is as it was, and
\* its buffers read so far are in the destination.
FileCopyInv ==
  call.fun = "FileCopy" /\ fails = 0 =>
    IF stack = <<>> THEN ret = "success" => Copied(call.src, Target)
    ELSE /\ Top.pc = "start" => Top.dst = call.dst /\ dirs = before.dirs /\ files = before.files
         /\ Top.pc = "open" => /\ Top.dst = Target /\ dirs = before.dirs /\ files = before.files
                               /\ Exists(call.src)
         /\ Top.pc = "copy" => /\ Top.dst = Target /\ Top.w = Top.k
                               /\ IsFile(call.src) => /\ call.src \in DOMAIN before.files
                                                      /\ files[call.src] = before.files[call.src]
                                                      /\ HeadIs(call.src, Target, Top.k)
                                                      /\ TailIs(call.src, Target)

\* A buffer written over itself.
LEMMA OverwriteSame ==
  ASSUME NEW c \in Seq(Buffers), NEW n \in 1..Len(c)
  PROVE  Overwrite(c, n, c[n]) = c
<1>1. PICK a \in Nat : a = Len(c) /\ n \in Nat \ {0} /\ n <= a
  BY LenProperties
<1>2. PICK o : o = Overwrite(c, n, c[n])
  OBVIOUS
<1>3. (IF n > a THEN n ELSE a) = a
  BY <1>1
<1>4. o = [j \in 1..a |-> IF j = n THEN c[n] ELSE c[j]]
  BY <1>1, <1>2, <1>3, Zenon DEF Overwrite
<1>5. \A j \in 1..a : o[j] = c[j]
  BY <1>4
<1>6. o \in Seq(Buffers) /\ Len(o) = a
  <2>1. c[n] \in Buffers
    BY ElementOfSeq
  <2>2. o \in Seq(Buffers)
    <3>1. n \in Nat \ {0} /\ n <= Len(c) + 1
      BY <1>1
    <3> QED
      BY <1>2, <2>1, <3>1, OverwriteIs
  <2>3. DOMAIN o = 1..a
    BY <1>4
  <2> QED
    BY <1>1, <2>2, <2>3, LenProperties
<1> QED
  BY <1>1, <1>2, <1>5, <1>6, SeqEqual

\* Each step of FileCopy() keeps what is known of the copy.
LEMMA FileCopyStep ==
  ASSUME Known, Known', FileCopyInv, [Next]_vars
  PROVE  FileCopyInv'
<1>1. CASE Call
  <2>1. \E f, s, d, n : Start(f, s, d, n)
    BY <1>1, Zenon DEF Call
  <2>2. PICK h : stack' = <<h>> /\ h.pc = "start" /\ h.dst = call'.dst
    BY <2>1 DEF Start, Frame
  <2>3. Top' = h /\ stack' # <<>>
    BY <2>2 DEF Top, Last
  <2>4. dirs' = before'.dirs /\ files' = before'.files
    BY <2>1 DEF Start, fs
  <2> QED
    BY <2>2, <2>3, <2>4 DEF FileCopyInv
<1>2. CASE Run \/ Crash
  <2>1. stack # <<>>
    BY <1>2 DEF Run, Crash, In, MakeDir, CopyAccess, CopyOpen, CopyChunk,
      DirCopyStart, DirCopyNull, DirCopyEntry, DirCopyEnd,
      DeleteStart, DeleteEntry, DeleteSelf, DeleteFile, SaveParents, SaveOpen, SaveWrite
  <2>2. call' = call /\ before' = before
    BY <1>2 DEF ghosts, Run, Crash, MakeDir, CopyAccess, CopyOpen, CopyChunk,
      DirCopyStart, DirCopyNull, DirCopyEntry, DirCopyEnd,
      DeleteStart, DeleteEntry, DeleteSelf, DeleteFile, SaveParents, SaveOpen, SaveWrite
  <2>3. UNCHANGED fails \/ Fails
    BY <1>2, Zenon DEF Run, Crash, MakeDir, CopyAccess, CopyOpen, CopyChunk,
      DirCopyStart, DirCopyNull, DirCopyEntry, DirCopyEnd,
      DeleteStart, DeleteEntry, DeleteSelf, DeleteFile, SaveParents, SaveOpen, SaveWrite
  <2> SUFFICES ASSUME call.fun = "FileCopy", fails' = 0
               PROVE  FileCopyInv'
    BY <2>2 DEF FileCopyInv
  <2>4. fails = 0 /\ ~Fails
    BY <2>3 DEF Known, Control, ResultOK, Fails
  <2>5. Len(stack) = 1 /\ Top = stack[1]
    <3>1. 1 \in 1..Len(stack) /\ Len(stack) \in Nat
      BY <2>1, TopIs DEF Known, Control
    <3>2. stack[1].fun \notin Walkers
      BY <2>1 DEF Known, Control, BottomOK, Walkers
    <3>3. ~(1 < Len(stack))
      BY <3>1, <3>2 DEF Known, Control, StackOK
    <3>4. Len(stack) = 1
      <4>1. PICK n \in Nat : n = Len(stack)
        BY <3>1
      <4>2. 1 \in 1..n /\ ~(1 < n) => n = 1
        OBVIOUS
      <4> QED
        BY <3>1, <3>3, <4>1, <4>2
    <3> QED
      BY <2>1, <3>4, First DEF Known
  <2>6. PICK t \in Frames :
          /\ t = Top /\ t.fun = "FileCopy" /\ t.src = call.src /\ t.src \in Seq(Names) /\ t.dst \in Seq(Names)
          /\ t.k \in Nat /\ FrameOK(t, call) /\ OpenFor(t)
    BY <2>1, <2>5, TopIs DEF Known, Control, BottomOK, OpenOK, Frames
  <2>7. CopyAccess \/ CopyOpen \/ CopyChunk \/ Crash
    BY <1>2, <2>6 DEF Run, In, MakeDir, DirCopyStart, DirCopyNull, DirCopyEntry, DirCopyEnd,
      DeleteStart, DeleteEntry, DeleteSelf, DeleteFile, SaveParents, SaveOpen, SaveWrite
  <2>8. ASSUME NEW f \in Frames, Become(f)
        PROVE  stack' # <<>> /\ Top' = f
    BY <2>1, <2>8, ReplaceTop DEF Become, Top, Known, Control, StackOK
  <2>9. ASSUME NEW r, Return(r)
        PROVE  stack' = <<>> /\ ret' = r
    BY <2>1, <2>5, <2>9, First DEF Return, Known
  <2>10. Target' = Target
    BY <2>2 DEF Target
  <2>11. CASE CopyAccess
    <3>1. t.pc = "start" /\ t.dst = call.dst /\ dirs = before.dirs /\ files = before.files
      BY <2>1, <2>4, <2>6, <2>11 DEF FileCopyInv, CopyAccess, In
    <3>2. CopyTarget(t.src, t.dst) = Target
      BY <2>6, <3>1 DEF CopyTarget, Target, IsDirectory
    <3>3. Target \in Seq(Names)
      <4>1. Last(t.src) \in Names
        BY <2>6, RootIs, FrontIs DEF FrameOK
      <4> QED
        BY <2>6, <3>1, <4>1, EntryBelow DEF Target
    <3>4. PICK f : f = [t EXCEPT !.pc = "open", !.dst = Target]
      OBVIOUS
    <3>5. f \in Frames /\ f.pc = "open" /\ f.dst = Target
      BY <3>3, <3>4 DEF Frames, Labels
    <3>6. UNCHANGED fs /\ ((Exists(t.src) /\ Become(f)) \/ Return("failure"))
      BY <2>4, <2>6, <2>11, <3>2, <3>4, Zenon DEF CopyAccess
    <3>7. dirs' = dirs /\ files' = files
      BY <3>6 DEF fs
    <3>8. ASSUME Exists(t.src), Become(f)
          PROVE  FileCopyInv'
      <4>1. Exists(call.src)'
        BY <2>2, <2>6, <3>7, <3>8 DEF Exists, IsFile, IsDirectory
      <4> QED
        BY <2>2, <2>8, <2>10, <3>1, <3>5, <3>7, <3>8, <4>1 DEF FileCopyInv
    <3> QED
      BY <2>9, <3>6, <3>8 DEF FileCopyInv
  <2>12. CASE CopyOpen
    <3>1. /\ t.pc = "open" /\ t.dst = Target /\ dirs = before.dirs /\ files = before.files
          /\ Exists(call.src)
      BY <2>1, <2>4, <2>6, <2>12 DEF FileCopyInv, CopyOpen, In
    <3>2. PICK f : f = [t EXCEPT !.pc = "copy"]
      OBVIOUS
    <3>3. f \in Frames /\ f.pc = "copy" /\ f.dst = Target /\ f.k = 0 /\ f.w = 0
      <4>1. t.k = 0 /\ t.w = 0
        BY <2>6, <3>1 DEF FrameOK, Frames
      <4> QED
        BY <3>1, <3>2, <4>1 DEF Frames, Labels
    <3>4. \/ /\ Writable(t.dst) /\ (IF IsFile(t.dst) THEN UNCHANGED files ELSE Put(t.dst, <<>>))
             /\ Become(f)
          \/ Return("failure")
      BY <2>4, <2>6, <2>12, <3>2, Zenon DEF CopyOpen
    <3>5. ASSUME Writable(t.dst), IF IsFile(t.dst) THEN UNCHANGED files ELSE Put(t.dst, <<>>), Become(f)
          PROVE  FileCopyInv'
      <4>1. /\ DOMAIN files' = DOMAIN files \cup {Target}
            /\ \A q \in DOMAIN files : files'[q] = files[q]
        BY <3>1, <3>5 DEF Put, IsFile
      <4>2. \A q \in DOMAIN files' : Len(files'[q]) \in Nat
        BY LenProperties DEF Known, FilesOK
      <4>3. ASSUME call.src \in DOMAIN files'
            PROVE  call.src \in DOMAIN files
        BY <3>1, <3>5, <4>1, <4>3 DEF Writable, Exists, IsFile
      <4>4. HeadIs(call.src, Target, 0)'
        BY <2>2, <2>10, <4>1, <4>2 DEF HeadIs
      <4>5. TailIs(call.src, Target)'
        BY <2>2, <3>1, <4>1, <4>2 DEF TailIs
      <4> QED
        BY <2>2, <2>8, <2>10, <3>1, <3>3, <3>5, <4>1, <4>3, <4>4, <4>5 DEF FileCopyInv, IsFile
    <3> QED
      BY <2>9, <3>4, <3>5 DEF FileCopyInv
  <2>13. CASE CopyChunk
    <3>1. /\ t.pc = "copy" /\ t.dst = Target /\ t.w = t.k
          /\ IsFile(call.src) => /\ call.src \in DOMAIN before.files
                                 /\ files[call.src] = before.files[call.src]
                                 /\ HeadIs(call.src, Target, t.k)
                                 /\ TailIs(call.src, Target)
      BY <2>1, <2>4, <2>6, <2>13 DEF FileCopyInv, CopyChunk, In
    <3>2. PICK f : f = [t EXCEPT !.k = @ + 1, !.w = @ + 1]
      OBVIOUS
    <3>3. \/ /\ IsFile(t.src) /\ t.k # Len(files[t.src])
             /\ Put(t.dst, Overwrite(files[t.dst], t.w + 1, files[t.src][t.k + 1])) /\ Become(f)
          \/ IsFile(t.src) /\ t.k = Len(files[t.src]) /\ Return("success") /\ UNCHANGED files
          \/ Return("failure")
      BY <2>4, <2>6, <2>13, <3>2, Zenon DEF CopyChunk, AtEnd
    <3> SUFFICES ASSUME IsFile(t.src)
                 PROVE  FileCopyInv'
      BY <2>9, <3>3 DEF FileCopyInv
    <3>4. PICK c \in Seq(Buffers), d \in Seq(Buffers) :
            c = files[t.src] /\ c = before.files[t.src] /\ d = files[Target]
      BY <2>6, <3>1 DEF Known, FilesOK, IsFile, HeadIs
    <3>5. HeadIs(t.src, Target, t.k) /\ TailIs(t.src, Target) /\ t.k <= Len(c)
      BY <2>6, <3>1, <3>4 DEF OpenFor
    <3>6. ASSUME t.k = Len(c), Return("success"), UNCHANGED files
          PROVE  FileCopyInv'
      <4>1. Copied(t.src, Target)
        BY <3>4, <3>5, <3>6, CopyIsWhole
      <4>2. Copied(call.src, Target)'
        BY <2>2, <2>6, <2>10, <3>6, <4>1 DEF Copied
      <4> QED
        BY <2>9, <3>6, <4>2 DEF FileCopyInv
    <3>7. ASSUME t.k # Len(c), Put(Target, Overwrite(d, t.k + 1, c[t.k + 1])), Become(f)
          PROVE  FileCopyInv'
      <4>1. PICK k \in 1..Len(c) : k = t.k + 1 /\ k - 1 = t.k
        <5>1. Len(c) \in Nat
          BY LenProperties
        <5>2. t.k + 1 \in 1..Len(c) /\ (t.k + 1) - 1 = t.k
          BY <2>6, <3>5, <3>7, <5>1
        <5> QED
          BY <5>2
      <4>2. f \in Frames /\ f.pc = "copy" /\ f.dst = Target /\ f.k = k /\ f.w = k
        <5>1. f = [t EXCEPT !.k = k, !.w = k] /\ k \in Nat
          BY <2>6, <3>1, <3>2, <4>1
        <5> QED
          BY <3>1, <5>1 DEF Frames
      <4>3. /\ DOMAIN files' = DOMAIN files
            /\ files'[Target] = Overwrite(d, k, c[k])
            /\ \A q \in DOMAIN files : q # Target => files'[q] = files[q]
        BY <3>5, <3>7, <4>1 DEF Put, HeadIs
      <4>4. HeadIs(t.src, Target, k)' /\ TailIs(t.src, Target)'
        <5>1. HeadIs(t.src, Target, k - 1) /\ Target \in DOMAIN files'
          BY <3>5, <4>1, <4>3 DEF HeadIs
        <5>2. PICK p : p = Target
          OBVIOUS
        <5>3. HeadIs(t.src, p, k)' /\ TailIs(t.src, p)'
          BY <2>2, <3>4, <3>5, <4>3, <5>1, <5>2, BufferAdded DEF Known
        <5> QED
          BY <2>10, <5>2, <5>3
      <4>5. files'[t.src] = c
        <5>1. CASE t.src = Target
          BY <3>4, <4>3, <5>1, OverwriteSame
        <5>2. CASE t.src # Target
          BY <3>4, <4>3, <5>2 DEF IsFile
        <5> QED
          BY <5>1, <5>2
      <4> QED
        BY <2>2, <2>6, <2>8, <2>10, <3>1, <3>4, <3>7, <4>2, <4>4, <4>5 DEF FileCopyInv
    <3>8. \/ t.k # Len(c) /\ Put(Target, Overwrite(d, t.k + 1, c[t.k + 1])) /\ Become(f)
          \/ t.k = Len(c) /\ Return("success") /\ UNCHANGED files
          \/ Return("failure")
      BY <3>1, <3>3, <3>4
    <3> QED
      BY <2>9, <3>6, <3>7, <3>8 DEF FileCopyInv
  <2>14. CASE Crash
    BY <2>14 DEF Crash, Dies, FileCopyInv
  <2> QED
    BY <2>7, <2>11, <2>12, <2>13, <2>14
<1>3. CASE UNCHANGED vars
  BY <1>3 DEF vars, FileCopyInv, Target, HeadIs, TailIs, Copied, Exists, IsFile, IsDirectory, Top
<1> QED
  BY <1>1, <1>2, <1>3 DEF Next

-----------------------------------------------------------------------------

\* After FileCopy() that met no failure the destination holds the source and the
\* rest of a longer old file; after DirCopy() that met none, and whose trees fit on
\* one another, every directory and file of the source is in the destination,
\* although it looks at no result of what it calls.
THEOREM CopiedWhole == Spec => []CopyDone
<1>1. Init => DirCopyInv /\ FileCopyInv
  <2> SUFFICES ASSUME Init PROVE DirCopyInv /\ FileCopyInv
    OBVIOUS
  <2>1. call.fun = "none"
    BY DEF Init
  <2> QED
    BY <2>1 DEF DirCopyInv, FileCopyInv
<1>2. Known /\ Known' /\ DirCopyInv /\ [Next]_vars => DirCopyInv'
  BY DirCopyStep
<1>3. Known /\ Known' /\ FileCopyInv /\ [Next]_vars => FileCopyInv'
  BY FileCopyStep
<1>4. DirCopyInv /\ FileCopyInv => CopyDone
  <2> SUFFICES ASSUME DirCopyInv, FileCopyInv, fails = 0
               PROVE  /\ Returned("FileCopy") => FileCopied
                      /\ Returned("DirCopy") /\ Fits => DirCopied
    BY DEF CopyDone
  <2>1. Returned("FileCopy") => FileCopied
    BY DEF Returned, FileCopied, FileCopyInv, Target
  <2>2. ASSUME Returned("DirCopy"), Fits
        PROVE  DirCopied
    <3>1. Covered /\ Len(stack) = 0
      BY <2>2, EmptySeq DEF Returned, DirCopyInv
    <3>2. \A q \in SrcDirs \cup SrcFiles : IsDone(q)
      BY <3>1 DEF Covered
    <3> QED
      BY <3>2 DEF DirCopied, SrcDirs, SrcFiles, IsDone
  <2> QED
    BY <2>1, <2>2
<1> QED
  BY <1>1, <1>2, <1>3, <1>4, KnownHolds, PTL DEF Spec

-----------------------------------------------------------------------------
(* Every call is finite.  The frames of the stack have less and less to do, *)
(* in lexicographic order, and there are never more than a bound: DirCopy() *)
(* does not follow the copies it makes.                                     *)

\* How long a path is after n calls.
Depth(n) == (n + 1) * (MaxDepth + 1)
Nodes == dirs \cup DOMAIN files

\* FileCopy() has put the name of the source after the destination.
Longer(f) == IF f.fun = "FileCopy" /\ f.pc # "start" THEN 1 ELSE 0

\* A frame works below the source, on a path that was there or was copied from a
\* longer one; its destination is as much shorter or longer as that of the call.
FrameFits(f) ==
  /\ Below(f.src, call.src) /\ Len(f.src) <= Depth(calls - 1)
  /\ Len(f.dst) + Len(call.src) <= Len(f.src) + Len(call.dst) + Longer(f)
  /\ call.fun \in Walkers /\ call.dst = call.src => f.dst = f.src
  /\ f.fun = "save_file" => f.k <= call.len

\* DirCopy() calls FileCopy() for a file that is there.
CopiesFile == In("FileCopy", "start") => IsFile(Top.src)

\* A call makes paths longer by what its destination is long, but none of those
\* it works on.
DepthInv ==
  /\ \A q \in Nodes : Len(q) <= Depth(calls)
  /\ stack # <<>> =>
       /\ calls > 0 /\ Len(call.src) <= MaxDepth /\ Len(call.dst) <= MaxDepth
       /\ call.fun = "DirCopy" => ~Inside(call.dst, call.src)
       /\ \A q \in Nodes : Below(q, call.src) => Len(q) <= Depth(calls - 1)
       /\ \A j \in 1..Len(stack) : FrameFits(stack[j])
       /\ call.fun = "DirCopy" => CopiesFile

\* What frame f has left to do: labels, and entries, components or buffers.
Stages == [start |-> 3, open |-> 2, scan |-> 2, copy |-> 1, write |-> 1,
           end |-> 1, null |-> 1, remove |-> 1]
Parts(f) ==
  CASE f.fun \in Walkers -> Cardinality(EntryNames \ f.done)
    [] f.fun = "FileCopy" -> IF IsFile(f.src) THEN Len(files[f.src]) - f.k ELSE 0
    [] f.fun = "CreateDir" -> Len(f.dst) - f.k
    [] f.fun = "save_file" -> call.len - f.k
    [] OTHER -> 0
Work(f) == Stages[f.pc] + Parts(f)
WorkInv == \A j \in 1..Len(stack) : Work(stack[j]) \in Nat \ {0}

\* What the frames of the call have left to do, the outermost first.
MaxStack == Depth(MaxCalls) + 1
Left == [j \in 1..MaxStack |-> IF j <= Len(stack) THEN Work(stack[j]) ELSE 0]
Fewer == LexProductOrdering(OpToRel(<, Nat), Nat, MaxStack)

\* The bound on paths grows with each call.
LEMMA DepthIs ==
  /\ MaxDepth \in Nat
  /\ \A n \in Nat : Depth(n) \in Nat /\ Depth(n) >= MaxDepth + 1
  /\ \A n \in Nat \ {0} : n - 1 \in Nat /\ Depth(n) = Depth(n - 1) + MaxDepth + 1
  /\ \A m, n \in Nat : m <= n => Depth(m) <= Depth(n)
<1>1. PICK d \in Nat : d = MaxDepth + 1
  BY DataDbAssumption
<1>2. MaxDepth \in Nat
  BY DataDbAssumption
<1>3. \A n : Depth(n) = (n + 1) * d
  BY <1>1 DEF Depth
<1>4. ASSUME NEW m \in Nat, NEW n \in Nat, m <= n
      PROVE  (m + 1) * d \in Nat /\ (m + 1) * d <= (n + 1) * d
  <2>1. PICK k \in Nat : n = m + k
    <3>1. n - m \in Nat /\ n = m + (n - m)
      BY <1>4
    <3> QED
      BY <3>1
  <2>2. (n + 1) * d = (m + 1) * d + k * d
    BY <2>1
  <2>3. k * d \in Nat /\ (m + 1) * d \in Nat
    OBVIOUS
  <2> QED
    BY <2>2, <2>3
<1>5. (0 + 1) * d = d
  OBVIOUS
<1>6. ASSUME NEW n \in Nat
      PROVE  Depth(n) \in Nat /\ Depth(n) >= d
  <2>1. 0 \in Nat /\ 0 <= n /\ n <= n
    OBVIOUS
  <2> QED
    BY <1>3, <1>4, <1>5, <2>1
<1>7. ASSUME NEW n \in Nat \ {0}
      PROVE  n - 1 \in Nat /\ (n + 1) * d = ((n - 1) + 1) * d + d
  OBVIOUS
<1>8. \A n \in Nat \ {0} : n - 1 \in Nat /\ Depth(n) = Depth(n - 1) + MaxDepth + 1
  <2> SUFFICES ASSUME NEW n \in Nat \ {0}
               PROVE  n - 1 \in Nat /\ Depth(n) = Depth(n - 1) + MaxDepth + 1
    OBVIOUS
  <2>1. n - 1 \in Nat /\ Depth(n) = Depth(n - 1) + d
    BY <1>3, <1>7
  <2>2. Depth(n - 1) \in Nat
    BY <1>6, <2>1
  <2> QED
    BY <1>1, <1>2, <2>1, <2>2
<1> QED
  BY <1>1, <1>2, <1>3, <1>4, <1>6, <1>8

\* The names readdir() can return are finitely many; one less is left after each.
LEMMA EntriesFinite ==
  ASSUME IsFiniteSet(Names), NEW D
  PROVE  /\ Cardinality(EntryNames \ D) \in Nat
         /\ \A n \in EntryNames \ D :
              Cardinality(EntryNames \ (D \cup {n})) < Cardinality(EntryNames \ D)
<1>1. IsFiniteSet({".", ".."})
  <2>1. IsFiniteSet({"."}) /\ {"."} \cup {".."} = {".", ".."}
    BY FS_Singleton
  <2> QED
    BY <2>1, FS_AddElement, Zenon
<1>2. IsFiniteSet(EntryNames)
  BY <1>1, FS_Union, Zenon DEF EntryNames
<1>3. IsFiniteSet(EntryNames \ D)
  BY <1>2, FS_Difference, Zenon
<1>4. Cardinality(EntryNames \ D) \in Nat
  BY <1>3, FS_CardinalityType, Zenon
<1>5. ASSUME NEW n \in EntryNames \ D
      PROVE  Cardinality(EntryNames \ (D \cup {n})) < Cardinality(EntryNames \ D)
  <2>1. EntryNames \ (D \cup {n}) = (EntryNames \ D) \ {n}
    OBVIOUS
  <2>2. Cardinality((EntryNames \ D) \ {n}) = Cardinality(EntryNames \ D) - 1
    BY <1>3, <1>5, FS_RemoveElement, Zenon
  <2>3. PICK k \in Nat : k = Cardinality(EntryNames \ D)
    BY <1>4
  <2>4. k - 1 < k
    OBVIOUS
  <2> QED
    BY <2>1, <2>2, <2>3, <2>4, Zenon
<1> QED
  BY <1>4, <1>5

\* What a frame has left to do, by its function; only for FileCopy() and save_file()
\* it depends on more than the frame.
LEMMA PartsAre ==
  ASSUME NEW f
  PROVE  /\ f.fun \in Walkers => Parts(f) = Cardinality(EntryNames \ f.done) /\ Parts(f)' = Parts(f)
         /\ f.fun = "FileCopy" => Parts(f) = IF IsFile(f.src) THEN Len(files[f.src]) - f.k ELSE 0
         /\ f.fun = "CreateDir" => Parts(f) = Len(f.dst) - f.k /\ Parts(f)' = Parts(f)
         /\ f.fun = "save_file" => Parts(f) = call.len - f.k
         /\ f.fun = "delete_file" => Parts(f) = 0
<1>1. CASE f.fun \in Walkers
  <2>1. f.fun \notin {"FileCopy", "CreateDir", "save_file", "delete_file"}
    BY <1>1 DEF Walkers
  <2> QED
    BY <1>1, <2>1 DEF Parts
<1>2. CASE f.fun \notin Walkers
  BY <1>2 DEF Parts
<1> QED
  BY <1>1, <1>2

\* The labels a frame has left are at least one, and at most three.
LEMMA StagesAre ==
  /\ \A l \in Labels : Stages[l] \in 1..3
  /\ Stages["start"] = 3 /\ Stages["open"] = 2 /\ Stages["scan"] = 2 /\ Stages["copy"] = 1
  /\ Stages["write"] = 1 /\ Stages["end"] = 1 /\ Stages["null"] = 1 /\ Stages["remove"] = 1
  BY DEF Stages, Labels

\* While a frame is on the stack it has something left to do.
LEMMA PartsLeft ==
  ASSUME IsFiniteSet(Names), Control, FilesOK, DepthInv
  PROVE  WorkInv /\ \A j \in 1..Len(stack) : Parts(stack[j]) \in Nat
<1> SUFFICES ASSUME NEW j \in 1..Len(stack)
             PROVE  Work(stack[j]) \in Nat \ {0} /\ Parts(stack[j]) \in Nat
  BY DEF WorkInv
<1>1. stack # <<>> /\ stack \in Seq(Frames)
  BY EmptySeq DEF Control, StackOK
<1>2. PICK t \in Frames : t = stack[j] /\ FrameOK(t, call) /\ FrameFits(t)
  BY <1>1, ElementOfSeq DEF DepthInv, Control, StackOK
<1>3. Stages[t.pc] \in 1..3 /\ t.k \in Nat /\ t.fun \in Funs /\ t.dst \in Seq(Names)
  BY <1>2, StagesAre DEF Frames
<1> SUFFICES Parts(t) \in Nat
  <2>1. \A s \in 1..3, p \in Nat : s + p \in Nat \ {0}
    OBVIOUS
  <2> QED
    BY <1>2, <1>3, <2>1, Zenon DEF Work
<1>4. CASE t.fun \in Walkers
  BY <1>3, <1>4, EntriesFinite, PartsAre, Zenon
<1>5. CASE t.fun = "FileCopy"
  <2>1. t = Top /\ OpenFor(t)
    <3>1. t.fun \notin Walkers
      BY <1>5 DEF Walkers
    <3>2. ~(j < Len(stack))
      BY <1>2, <3>1 DEF Control, StackOK
    <3>3. j = Len(stack)
      BY <1>1, <3>2, StackOps
    <3> QED
      BY <1>1, <1>2, <3>3, TopIs DEF Control, OpenOK
  <2>2. ASSUME IsFile(t.src)
        PROVE  Len(files[t.src]) - t.k \in Nat
    <3>1. Len(files[t.src]) \in Nat
      BY <2>2, LenProperties DEF IsFile, FilesOK
    <3>2. t.k <= Len(files[t.src])
      <4>1. CASE t.pc = "copy"
        BY <1>5, <2>1, <2>2, <4>1 DEF OpenFor
      <4>2. CASE t.pc # "copy"
        BY <1>2, <1>5, <3>1, <4>2 DEF FrameOK
      <4> QED
        BY <4>1, <4>2
    <3> QED
      BY <1>3, <3>1, <3>2
  <2>3. PICK n \in Nat : n = IF IsFile(t.src) THEN Len(files[t.src]) - t.k ELSE 0
    BY <2>2
  <2> QED
    BY <1>3, <1>5, <2>3, PartsAre, Zenon
<1>6. CASE t.fun = "CreateDir"
  <2>1. Len(t.dst) \in Nat /\ t.k <= Len(t.dst)
    BY <1>2, <1>3, <1>6, RootIs DEF FrameOK
  <2>2. Len(t.dst) - t.k \in Nat
    BY <1>3, <2>1
  <2> QED
    BY <1>3, <1>6, <2>2, PartsAre, Zenon
<1>7. CASE t.fun = "save_file"
  <2>1. call.len \in Nat /\ t.k <= call.len
    BY <1>2, <1>7 DEF FrameFits, Control, CallOK
  <2>2. call.len - t.k \in Nat
    BY <1>3, <2>1
  <2> QED
    BY <1>3, <1>7, <2>2, PartsAre, Zenon
<1>8. CASE t.fun = "delete_file"
  <2>1. 0 \in Nat
    OBVIOUS
  <2> QED
    BY <1>3, <1>8, <2>1, PartsAre, Zenon
<1> QED
  BY <1>3, <1>4, <1>5, <1>6, <1>7, <1>8 DEF Funs, Walkers

-----------------------------------------------------------------------------
(* How a step of a call moves its frames: the one that goes on has less to   *)
(* do, and the one that is called fits.                                     *)

\* The frame at the top goes on as f.
Going(f) ==
  /\ f \in Frames /\ FrameFits(f) /\ Work(f)' < Work(Top)
  /\ ~(f.fun = "FileCopy" /\ f.pc = "start")

\* The step ends the frame at the top, or all, or it goes on, or it calls.
Moves ==
  \/ stack' = <<>> \/ stack' = Front(stack)
  \/ \E f : stack' = Append(Front(stack), f) /\ Going(f)
  \/ \E f, g : /\ stack' = Front(stack) \o <<f, g>> /\ Going(f) /\ f.fun \in Walkers
               /\ g \in Frames /\ FrameFits(g)
               /\ g.fun = "FileCopy" => IsFile(g.src)'

\* No path longer than the destination of the top is made, nor, where the shell
\* makes others, longer than a call's.
Grows ==
  \A q \in Nodes' \ Nodes :
    Len(q) <= Len(Top.dst) \/ (call.fun = "save_file" /\ Len(q) <= MaxDepth)

\* A return is a move, and so is the death of the process.
LEMMA ReturnMoves ==
  /\ \A r : Return(r) => Moves
  /\ Dies => Moves
  BY DEF Return, Dies, Moves

\* The nodes that appear when nothing is written, a file is written, one is removed.
LEMMA WhatGrows ==
  /\ UNCHANGED fs => Grows
  /\ \A q, c : Put(q, c) /\ dirs' = dirs /\ (IsFile(q) \/ Len(q) <= Len(Top.dst)) => Grows
  /\ \A q : Unlink(q) /\ dirs' = dirs => Grows
  /\ \A q : dirs' = dirs \ {q} /\ files' = files => Grows
<1>1. ASSUME UNCHANGED fs
      PROVE  Grows
  BY <1>1 DEF fs, Grows, Nodes
<1>2. ASSUME NEW q, NEW c, Put(q, c), dirs' = dirs, IsFile(q) \/ Len(q) <= Len(Top.dst)
      PROVE  Grows
  <2>1. DOMAIN files' = DOMAIN files \cup {q}
    BY <1>2 DEF Put
  <2> QED
    BY <1>2, <2>1 DEF Grows, Nodes, IsFile
<1>3. ASSUME NEW q, Unlink(q), dirs' = dirs
      PROVE  Grows
  <2>1. DOMAIN files' = DOMAIN files \ {q}
    BY <1>3 DEF Unlink
  <2> QED
    BY <1>3, <2>1 DEF Grows, Nodes
<1>4. ASSUME NEW q, dirs' = dirs \ {q}, files' = files
      PROVE  Grows
  BY <1>4 DEF Grows, Nodes
<1> QED
  BY <1>1, <1>2, <1>3, <1>4

\* The frame at the top fits, and what it works on is no longer than it may be.
LEMMA TopFits ==
  ASSUME Control, DepthInv, stack # <<>>
  PROVE  /\ FrameFits(Top) /\ Top \in Frames /\ FrameOK(Top, call)
         /\ Top.src \in Seq(Names) /\ Top.dst \in Seq(Names) /\ Top.k \in Nat
         /\ Len(Top.src) \in Nat \ {0} /\ Len(Top.dst) \in Nat
         /\ call.src \in Seq(Names) /\ call.dst \in Seq(Names)
         /\ Len(call.src) \in Nat \ {0} /\ Len(call.dst) \in Nat \ {0} /\ call.len \in Nat
         /\ calls \in Nat \ {0}
<1>1. /\ Top \in Frames /\ FrameOK(Top, call) /\ Top = stack[Len(stack)]
      /\ Len(stack) \in 1..Len(stack)
  BY TopIs DEF Control
<1>2. FrameFits(Top)
  BY <1>1 DEF DepthInv
<1>3. /\ Top.src \in Seq(Names) /\ Top.dst \in Seq(Names) /\ Top.k \in Nat /\ Len(Top.src) > 0
  BY <1>1 DEF FrameOK, Frames
<1>4. /\ call.src \in Seq(Names) /\ call.dst \in Seq(Names) /\ call.len \in Nat
      /\ Len(call.src) > 0 /\ Len(call.dst) > 0
  BY DEF Control, CallOK, Funs
<1>5. calls \in Nat \ {0}
  BY DataDbAssumption DEF Control, ResultOK, DepthInv
<1> QED
  BY <1>1, <1>2, <1>3, <1>4, <1>5, RootIs

\* A frame that goes on with its source and destination fits.
LEMMA GoesOnFits ==
  ASSUME Control, DepthInv, stack # <<>>, NEW t, t = Top,
         NEW f, f.fun = t.fun, f.src = t.src, f.dst = t.dst, t.pc # "start" => f.pc # "start",
         f.fun = "save_file" => f.k <= call.len
  PROVE  FrameFits(f)
<1>1. PICK a \in Nat, b \in Nat, c \in Nat, d \in Nat :
        a = Len(t.src) /\ b = Len(t.dst) /\ c = Len(call.src) /\ d = Len(call.dst)
  BY TopFits
<1>2. FrameFits(t)
  BY TopFits
<1>3. b + c <= a + d + Longer(t)
  BY <1>1, <1>2 DEF FrameFits
<1>4. b + c <= a + d + Longer(f)
  <2>1. CASE Longer(t) = 0
    BY <1>3, <2>1 DEF Longer
  <2>2. CASE Longer(t) = 1
    BY <1>3, <2>2 DEF Longer
  <2> QED
    BY <2>1, <2>2 DEF Longer
<1> QED
  BY <1>1, <1>2, <1>4 DEF FrameFits

\* A frame that goes on at a later label or with fewer parts has less to do.
LEMMA LessWork ==
  ASSUME IsFiniteSet(Names), Control, FilesOK, DepthInv, stack # <<>>, NEW t, t = Top,
         NEW f, f.pc \in Labels,
         \/ Stages[f.pc] < Stages[t.pc] /\ Parts(f)' = Parts(t)
         \/ f.pc = t.pc /\ Parts(f)' \in Nat /\ Parts(f)' < Parts(t)
  PROVE  Work(f)' < Work(Top)
<1>1. Top = stack[Len(stack)] /\ Len(stack) \in 1..Len(stack) /\ t.pc \in Labels
  BY TopIs DEF Control, Frames
<1>2. Parts(t) \in Nat
  BY <1>1, PartsLeft
<1>3. Stages[f.pc] \in 1..3 /\ Stages[t.pc] \in 1..3
  BY <1>1, StagesAre
<1>4. Work(t) = Stages[t.pc] + Parts(t) /\ Work(f)' = Stages[f.pc] + Parts(f)'
  BY DEF Work, Stages
<1>5. \A a, b \in 1..3, p, r \in Nat : (a < b /\ r = p) \/ (a = b /\ r < p) => a + r < b + p
  OBVIOUS
<1> QED
  BY <1>2, <1>3, <1>4, <1>5, Zenon

-----------------------------------------------------------------------------
(* The actions.                                                             *)

\* CreateDir() has a component less to make.
LEMMA MakeDirFits ==
  ASSUME IsFiniteSet(Names), Control, FilesOK, DepthInv, MakeDir
  PROVE  Moves /\ Grows
<1>1. PICK t : t = Top
  OBVIOUS
<1>2. PICK q : q = SubSeq(t.dst, 1, t.k + 1)
  OBVIOUS
<1>3. PICK f : f = [t EXCEPT !.k = @ + 1]
  OBVIOUS
<1>4. /\ stack # <<>> /\ t.fun = "CreateDir" /\ t.pc = "start" /\ t \in Frames
      /\ t.k \in Nat /\ t.dst \in Seq(Names) /\ Len(t.dst) \in Nat /\ t.k <= Len(t.dst)
  BY <1>1, AtTop DEF MakeDir, FrameOK
<1>5. \/ (\E r : Return(r)) /\ UNCHANGED fs
      \/ t.k # Len(t.dst) /\ Become(f) /\ UNCHANGED fs
      \/ t.k # Len(t.dst) /\ Become(f) /\ dirs' = dirs \cup {q} /\ files' = files
  BY <1>1, <1>2, <1>3, Zenon DEF MakeDir, AllMade, NextComponent
<1>6. ASSUME t.k # Len(t.dst), Become(f)
      PROVE  Moves
  <2>1. PICK k \in Nat : k = t.k + 1
    BY <1>4
  <2>2. f = [t EXCEPT !.k = k]
    BY <1>3, <2>1
  <2>3. /\ f \in Frames /\ f.fun = "CreateDir" /\ f.pc = "start" /\ f.k = t.k + 1
        /\ f.src = t.src /\ f.dst = t.dst
    BY <1>4, <2>1, <2>2 DEF Frames
  <2>4. FrameFits(f)
    BY <1>1, <1>4, <2>3, GoesOnFits
  <2>5. Parts(t) = Len(t.dst) - t.k /\ Parts(f)' = Len(t.dst) - f.k
    BY <1>4, <2>3, PartsAre, Zenon
  <2>6. Parts(f)' \in Nat /\ Parts(f)' < Parts(t)
    BY <1>4, <1>6, <2>3, <2>5
  <2>7. Work(f)' < Work(Top)
    BY <1>1, <1>4, <2>3, <2>6, LessWork DEF Labels
  <2> QED
    BY <1>6, <2>3, <2>4, <2>7 DEF Moves, Going, Become
<1>7. ASSUME t.k # Len(t.dst), dirs' = dirs \cup {q}, files' = files
      PROVE  Grows
  <2>1. t.k + 1 \in 0..Len(t.dst)
    BY <1>4, <1>7
  <2>2. PICK n \in 0..Len(t.dst) : n = t.k + 1
    BY <2>1
  <2>3. Len(q) = n /\ n <= Len(t.dst)
    BY <1>2, <1>4, <2>2, Initial
  <2> QED
    BY <1>1, <1>7, <2>3 DEF Grows, Nodes
<1> QED
  BY <1>5, <1>6, <1>7, ReturnMoves, WhatGrows

\* FileCopy() may put the name of the source after the destination, but not to copy
\* a file to itself.
LEMMA CopyAccessFits ==
  ASSUME IsFiniteSet(Names), Control, FilesOK, DepthInv, CopyAccess
  PROVE  Moves /\ Grows
<1>1. PICK t : t = Top
  OBVIOUS
<1>2. PICK d : d = CopyTarget(t.src, t.dst)
  OBVIOUS
<1>3. PICK f : f = [t EXCEPT !.pc = "open", !.dst = d]
  OBVIOUS
<1>4. /\ stack # <<>> /\ t.fun = "FileCopy" /\ t.pc = "start" /\ t \in Frames
      /\ FrameOK(t, call) /\ t.dst \in Seq(Names) /\ t.src \in Seq(Names) /\ Len(t.src) > 0
  BY <1>1, AtTop DEF CopyAccess
<1>5. UNCHANGED fs /\ UNCHANGED <<files, call>>
  BY DEF CopyAccess, fs, ghosts
<1>6. Become(f) \/ \E r : Return(r)
  BY <1>1, <1>2, <1>3, Zenon DEF CopyAccess
<1>7. d \in Seq(Names) /\ Len(d) <= Len(t.dst) + 1 /\ (d = t.dst \/ IsDirectory(t.dst))
  <2>1. Last(t.src) \in Names
    BY <1>4, RootIs, FrontIs
  <2>2. /\ Append(t.dst, Last(t.src)) \in Seq(Names)
        /\ Len(Append(t.dst, Last(t.src))) = Len(t.dst) + 1 /\ Len(t.dst) \in Nat
    BY <1>4, <2>1, EntryBelow, RootIs
  <2> QED
    BY <1>2, <1>4, <2>2 DEF CopyTarget
<1>8. f \in Frames /\ f.fun = "FileCopy" /\ f.pc = "open" /\ f.src = t.src /\ f.dst = d /\ f.k = t.k
  BY <1>3, <1>4, <1>7 DEF Frames, Labels
<1>9. FrameFits(f)
  <2>1. FrameFits(t)
    BY <1>1, <1>4, TopFits
  <2>2. Len(d) + Len(call.src) <= Len(f.src) + Len(call.dst) + Longer(f)
    <3>1. PICK a \in Nat, b \in Nat, c \in Nat, e \in Nat, m \in Nat :
            /\ a = Len(t.src) /\ b = Len(t.dst) /\ c = Len(call.src) /\ e = Len(call.dst) /\ m = Len(d)
      <4>1. Len(t.src) \in Nat /\ Len(t.dst) \in Nat /\ Len(d) \in Nat
        BY <1>4, <1>7, RootIs
      <4>2. Len(call.src) \in Nat /\ Len(call.dst) \in Nat
        BY <1>4, TopFits
      <4> QED
        BY <4>1, <4>2
    <3>2. Longer(t) = 0 /\ Longer(f) = 1
      BY <1>4, <1>8 DEF Longer
    <3>3. b + c <= a + e
      <4>1. b + c <= a + e + Longer(t)
        BY <2>1, <3>1 DEF FrameFits
      <4> QED
        BY <3>2, <4>1
    <3>4. m <= b + 1
      BY <1>7, <3>1
    <3>5. m + c <= a + e + 1
      BY <3>3, <3>4
    <3> QED
      BY <1>8, <3>1, <3>2, <3>5
  <2>3. ASSUME call.fun \in Walkers, call.dst = call.src
        PROVE  f.dst = f.src
    <3>1. t.dst = t.src
      BY <2>1, <2>3 DEF FrameFits
    <3>2. call.fun = "DirCopy"
      BY <1>4, <2>3 DEF FrameOK, Walkers
    <3>3. IsFile(t.src)
      <4>1. In("FileCopy", "start")
        BY DEF CopyAccess
      <4> QED
        BY <1>1, <1>4, <3>2, <4>1 DEF DepthInv, CopiesFile
    <3>4. ~IsDirectory(t.dst)
      BY <3>1, <3>3 DEF IsFile, IsDirectory, FilesOK
    <3> QED
      BY <1>7, <1>8, <3>1, <3>4
  <2> QED
    BY <1>8, <2>1, <2>2, <2>3 DEF FrameFits
<1>10. ASSUME Become(f)
       PROVE  Moves
  <2>1. Parts(f)' = Parts(f) /\ Parts(f) = Parts(t)
    BY <1>4, <1>5, <1>8 DEF Parts, IsFile, Walkers
  <2>2. Stages[f.pc] < Stages[t.pc] /\ f.pc \in Labels
    BY <1>4, <1>8 DEF Stages, Labels
  <2>3. Work(f)' < Work(Top)
    BY <1>1, <1>4, <2>1, <2>2, LessWork
  <2> QED
    BY <1>8, <1>9, <1>10, <2>3 DEF Moves, Going, Become
<1> QED
  BY <1>5, <1>6, <1>10, ReturnMoves, WhatGrows

\* FileCopy() may create the file of its destination, which then has nothing to copy.
LEMMA CopyOpenFits ==
  ASSUME IsFiniteSet(Names), Control, FilesOK, DepthInv, CopyOpen
  PROVE  Moves /\ Grows
<1>1. PICK t : t = Top
  OBVIOUS
<1>2. PICK f : f = [t EXCEPT !.pc = "copy"]
  OBVIOUS
<1>3. /\ stack # <<>> /\ t.fun = "FileCopy" /\ t.pc = "open" /\ t \in Frames
      /\ t.dst \in Seq(Names) /\ t.k = 0 /\ Len(t.dst) \in Nat
  BY <1>1, AtTop DEF CopyOpen, FrameOK
<1>4. /\ dirs' = dirs
      /\ \/ UNCHANGED files
         \/ ~IsFile(t.dst) /\ Put(t.dst, <<>>)
  BY <1>1, Zenon DEF CopyOpen
<1>5. (\E r : Return(r)) \/ Become(f)
  BY <1>1, <1>2, Zenon DEF CopyOpen
<1>6. Grows
  <2>1. ASSUME UNCHANGED files
        PROVE  UNCHANGED fs
    BY <1>4, <2>1 DEF fs
  <2>2. Len(t.dst) <= Len(Top.dst)
    BY <1>1, <1>3
  <2> QED
    BY <1>4, <2>1, <2>2, WhatGrows
<1>7. f \in Frames /\ f.fun = "FileCopy" /\ f.pc = "copy" /\ f.src = t.src /\ f.dst = t.dst /\ f.k = 0
  BY <1>2, <1>3 DEF Frames, Labels
<1>8. Parts(f)' = Parts(t)
  <2>1. /\ Parts(t) = IF IsFile(t.src) THEN Len(files[t.src]) - 0 ELSE 0
        /\ Parts(f)' = IF IsFile(t.src)' THEN Len(files'[t.src]) - 0 ELSE 0
    BY <1>3, <1>7 DEF Parts, Walkers, IsFile
  <2>2. CASE UNCHANGED files
    BY <2>1, <2>2 DEF IsFile
  <2>3. CASE ~IsFile(t.dst) /\ Put(t.dst, <<>>)
    <3>1. /\ DOMAIN files' = DOMAIN files \cup {t.dst}
          /\ \A r \in DOMAIN files \cup {t.dst} : files'[r] = IF r = t.dst THEN <<>> ELSE files[r]
      BY <2>3 DEF Put
    <3>2. CASE t.src = t.dst
      <4>1. IsFile(t.src)' /\ files'[t.src] = <<>> /\ ~IsFile(t.src)
        BY <2>3, <3>1, <3>2 DEF IsFile
      <4>2. Len(<<>>) - 0 = 0
        OBVIOUS
      <4> QED
        BY <2>1, <4>1, <4>2
    <3>3. CASE t.src # t.dst
      <4>1. (IsFile(t.src)' <=> IsFile(t.src)) /\ (IsFile(t.src) => files'[t.src] = files[t.src])
        BY <3>1, <3>3 DEF IsFile
      <4> QED
        BY <2>1, <4>1
    <3> QED
      BY <3>2, <3>3
  <2> QED
    BY <1>4, <2>2, <2>3
<1>9. ASSUME Become(f)
      PROVE  Moves
  <2>1. FrameFits(f)
    BY <1>1, <1>3, <1>7, GoesOnFits
  <2>2. Stages[f.pc] < Stages[t.pc] /\ f.pc \in Labels
    BY <1>3, <1>7 DEF Stages, Labels
  <2>3. Work(f)' < Work(Top)
    BY <1>1, <1>3, <1>8, <2>2, LessWork
  <2> QED
    BY <1>7, <1>9, <2>1, <2>3 DEF Moves, Going, Become
<1> QED
  BY <1>5, <1>6, <1>9, ReturnMoves

\* A buffer written where the file has one makes it no longer.
LEMMA OverwriteInside ==
  ASSUME NEW c \in Seq(Buffers), NEW n \in 1..Len(c), NEW b
  PROVE  Len(Overwrite(c, n, b)) = Len(c)
<1>1. PICK a \in Nat : a = Len(c) /\ n \in Nat \ {0} /\ n <= a
  BY LenProperties
<1>2. (IF n > a THEN n ELSE a) = a
  BY <1>1
<1>3. Overwrite(c, n, b) = [j \in 1..a |-> IF j = n THEN b ELSE c[j]]
  BY <1>1, <1>2, Zenon DEF Overwrite
<1>4. DOMAIN Overwrite(c, n, b) = 1..a
  BY <1>3
<1>5. Len([j \in 1..a |-> IF j = n THEN b ELSE c[j]]) = a
  OBVIOUS
<1> QED
  BY <1>1, <1>3, <1>5

\* FileCopy() has a buffer less to copy, also if it copies a file to itself.
LEMMA CopyChunkFits ==
  ASSUME IsFiniteSet(Names), Control, FilesOK, DepthInv, CopyChunk
  PROVE  Moves /\ Grows
<1>1. PICK t : t = Top
  OBVIOUS
<1>2. PICK c : c = files[t.src]
  OBVIOUS
<1>3. PICK o : o = Overwrite(files[t.dst], t.w + 1, c[t.k + 1])
  OBVIOUS
<1>4. /\ stack # <<>> /\ t.fun = "FileCopy" /\ t.pc = "copy" /\ t \in Frames
      /\ FrameOK(t, call) /\ OpenFor(t) /\ t.k \in Nat /\ t.w \in Nat /\ t.w <= t.k
      /\ IsFile(t.dst) /\ (IsFile(t.src) => t.k <= Len(files[t.src]))
  BY <1>1, AtTop DEF CopyChunk, FrameOK, OpenFor
<1>5. PICK k \in Nat, w \in Nat : k = t.k + 1 /\ w = t.w + 1
  BY <1>4
<1>6. dirs' = dirs
  BY DEF CopyChunk
<1>7. \/ (\E r : Return(r)) /\ UNCHANGED files
      \/ /\ IsFile(t.src) /\ t.k # Len(c)
         /\ \/ Put(t.dst, o) /\ Become([t EXCEPT !.k = @ + 1, !.w = @ + 1])
            \/ UNCHANGED files /\ Become([t EXCEPT !.k = @ + 1])
  BY <1>1, <1>2, <1>3, Zenon DEF CopyChunk, AtEnd
<1>8. ASSUME UNCHANGED files
      PROVE  UNCHANGED fs
  BY <1>6, <1>8 DEF fs
<1>9. Grows
  BY <1>4, <1>6, <1>7, <1>8, WhatGrows
<1>10. ASSUME IsFile(t.src), t.k # Len(c), Put(t.dst, o) \/ UNCHANGED files,
              NEW f, f = [t EXCEPT !.k = k, !.w = w] \/ f = [t EXCEPT !.k = k], Become(f)
       PROVE  Moves
  <2>1. /\ f \in Frames /\ f.fun = "FileCopy" /\ f.pc = "copy" /\ f.k = k
        /\ f.src = t.src /\ f.dst = t.dst
    BY <1>4, <1>10 DEF Frames
  <2>2. FrameFits(f)
    BY <1>1, <1>4, <2>1, GoesOnFits
  <2>3. c \in Seq(Buffers) /\ Len(c) \in Nat /\ k <= Len(c) /\ w \in 1..Len(c)
    <3>1. c \in Seq(Buffers) /\ Len(c) \in Nat
      BY <1>2, <1>10, LenProperties DEF FilesOK, IsFile
    <3>2. t.k <= Len(c)
      BY <1>2, <1>4, <1>10
    <3> QED
      BY <1>4, <1>5, <1>10, <3>1, <3>2
  <2>4. IsFile(t.src)' /\ Len(files'[t.src]) = Len(c)
    <3>1. CASE UNCHANGED files
      BY <1>2, <1>10, <3>1 DEF IsFile
    <3>2. CASE Put(t.dst, o)
      <4>1. /\ DOMAIN files' = DOMAIN files \cup {t.dst}
            /\ \A r \in DOMAIN files \cup {t.dst} : files'[r] = IF r = t.dst THEN o ELSE files[r]
        BY <3>2 DEF Put
      <4>2. t.src = t.dst => Len(o) = Len(c)
        BY <1>2, <1>3, <1>5, <2>3, OverwriteInside
      <4> QED
        BY <1>2, <1>10, <4>1, <4>2 DEF IsFile
    <3> QED
      BY <1>10, <3>1, <3>2
  <2>5. Parts(t) = Len(c) - t.k /\ Parts(f)' = Len(c) - k
    <3>1. /\ Parts(t) = IF IsFile(t.src) THEN Len(files[t.src]) - t.k ELSE 0
          /\ Parts(f)' = IF IsFile(t.src)' THEN Len(files'[t.src]) - k ELSE 0
      BY <1>4, <2>1 DEF Parts, Walkers, IsFile
    <3> QED
      BY <1>2, <1>10, <2>4, <3>1
  <2>6. Parts(f)' \in Nat /\ Parts(f)' < Parts(t)
    BY <1>4, <1>5, <2>3, <2>5
  <2>7. Work(f)' < Work(Top)
    BY <1>1, <1>4, <2>1, <2>6, LessWork DEF Labels
  <2> QED
    BY <1>10, <2>1, <2>2, <2>7 DEF Moves, Going, Become
<1>11. [t EXCEPT !.k = @ + 1, !.w = @ + 1] = [t EXCEPT !.k = k, !.w = w]
       /\ [t EXCEPT !.k = @ + 1] = [t EXCEPT !.k = k]
  BY <1>5
<1> QED
  BY <1>7, <1>9, <1>10, <1>11, ReturnMoves

\* A walker that calls goes on itself at a later label or with an entry less, and
\* the frame it calls fits.
LEMMA CallFits ==
  ASSUME IsFiniteSet(Names), Control, FilesOK, DepthInv, stack # <<>>, NEW t, t = Top,
         t.fun \in Walkers, NEW f, f \in Frames, f.fun = t.fun, f.src = t.src, f.dst = t.dst,
         t.pc # "start" => f.pc # "start",
         \/ Stages[f.pc] < Stages[t.pc] /\ f.done = t.done
         \/ f.pc = t.pc /\ \E n \in EntryNames \ t.done : f.done = t.done \cup {n}
  PROVE  /\ Going(f)
         /\ Become(f) => Moves
         /\ \A g : /\ CallFrom(f, g) /\ g \in Frames /\ FrameFits(g)
                   /\ g.fun = "FileCopy" => IsFile(g.src)'
                   => Moves
<1>1. FrameFits(f)
  BY GoesOnFits DEF Walkers
<1>2. f.pc \in Labels
  BY DEF Frames
<1>3. Parts(t) = Cardinality(EntryNames \ t.done) /\ Parts(f)' = Cardinality(EntryNames \ f.done)
  BY PartsAre, Zenon
<1>4. ASSUME NEW n \in EntryNames \ t.done, f.done = t.done \cup {n}
      PROVE  Parts(f)' \in Nat /\ Parts(f)' < Parts(t)
  <2>1. Cardinality(EntryNames \ f.done) \in Nat
    BY EntriesFinite
  <2>2. Cardinality(EntryNames \ (t.done \cup {n})) < Cardinality(EntryNames \ t.done)
    BY EntriesFinite
  <2> QED
    BY <1>3, <1>4, <2>1, <2>2, Zenon
<1>5. Work(f)' < Work(Top)
  <2>1. CASE Stages[f.pc] < Stages[t.pc] /\ f.done = t.done
    BY <1>2, <1>3, <2>1, LessWork
  <2>2. CASE f.pc = t.pc /\ \E n \in EntryNames \ t.done : f.done = t.done \cup {n}
    BY <1>2, <1>4, <2>2, LessWork
  <2> QED
    BY <2>1, <2>2
<1>6. Going(f)
  BY <1>1, <1>5 DEF Going, Walkers
<1>7. f.fun \in Walkers
  OBVIOUS
<1>8. Become(f) => Moves
  BY <1>6, Zenon DEF Moves, Become
<1>9. ASSUME NEW g, CallFrom(f, g), g \in Frames, FrameFits(g), g.fun = "FileCopy" => IsFile(g.src)'
      PROVE  Moves
  BY <1>6, <1>7, <1>9, Zenon DEF Moves, CallFrom
<1> QED
  BY <1>6, <1>8, <1>9, Zenon

\* What a walker calls on its own path.
LEMMA SameFits ==
  ASSUME Control, DepthInv, stack # <<>>, NEW t, t = Top, t.fun \in Walkers,
         NEW g \in Funs \ {"save_file"}, NEW h, h = Frame(g, t.src, t.dst)
  PROVE  FrameFits(h) /\ h \in Frames /\ h.fun = g /\ h.src = t.src
<1>1. t.src \in Seq(Names) /\ t.dst \in Seq(Names) /\ FrameFits(t)
  BY TopFits
<1>2. h \in Frames /\ h.fun = g /\ h.pc = "start" /\ h.src = t.src /\ h.dst = t.dst
  BY <1>1, FrameIs
<1>3. Longer(h) = Longer(t)
  BY <1>2 DEF Longer, Walkers
<1> QED
  BY <1>1, <1>2, <1>3 DEF FrameFits

\* What it calls on an entry of its directory.
LEMMA EntryFits ==
  ASSUME Control, FilesOK, DepthInv, stack # <<>>, NEW t, t = Top, t.fun \in Walkers,
         NEW n \in Names, Exists(Append(t.src, n)),
         NEW g \in Funs \ {"save_file"}, NEW h, h = Frame(g, Append(t.src, n), Append(t.dst, n))
  PROVE  FrameFits(h) /\ h \in Frames /\ h.fun = g /\ h.src = Append(t.src, n)
<1>1. /\ t.src \in Seq(Names) /\ t.dst \in Seq(Names) /\ FrameFits(t)
      /\ call.src \in Seq(Names) /\ Len(call.src) \in Nat /\ Len(call.dst) \in Nat
      /\ Len(t.src) \in Nat /\ Len(t.dst) \in Nat
  BY TopFits
<1>2. PICK s \in Seq(Names) : s = Append(t.src, n) /\ Len(s) = Len(t.src) + 1 /\ Below(s, call.src)
  BY <1>1, EntryBelow DEF FrameFits
<1>3. PICK d \in Seq(Names) : d = Append(t.dst, n) /\ Len(d) = Len(t.dst) + 1
  BY <1>1, EntryBelow
<1>4. h \in Frames /\ h.fun = g /\ h.pc = "start" /\ h.src = s /\ h.dst = d
  <2>1. h = Frame(g, s, d) /\ g \in Funs
    BY <1>2, <1>3
  <2> QED
    BY <2>1, FrameIs
<1>5. Longer(h) = 0 /\ Longer(t) = 0
  BY <1>4 DEF Longer, Walkers
<1>6. s \in Nodes
  <2>1. Exists(s)
    BY <1>2
  <2> QED
    BY <2>1 DEF Nodes, Exists, IsFile, IsDirectory
<1>7. Len(s) <= Depth(calls - 1)
  BY <1>2, <1>6 DEF DepthInv
<1>8. Len(d) + Len(call.src) <= Len(s) + Len(call.dst) + Longer(h)
  <2>1. Len(t.dst) + Len(call.src) <= Len(t.src) + Len(call.dst) + 0
    BY <1>1, <1>5, Zenon DEF FrameFits
  <2>2. PICK a \in Nat, b \in Nat, c \in Nat, e \in Nat :
          a = Len(t.src) /\ b = Len(t.dst) /\ c = Len(call.src) /\ e = Len(call.dst)
    BY <1>1
  <2>3. b + c <= a + e + 0
    BY <2>1, <2>2, Zenon
  <2>4. (b + 1) + c <= (a + 1) + e + 0
    BY <2>3
  <2> QED
    BY <1>2, <1>3, <1>5, <2>2, <2>4
<1>9. call.fun \in Walkers /\ call.dst = call.src => d = s
  BY <1>1, <1>2, <1>3 DEF FrameFits
<1> QED
  BY <1>2, <1>4, <1>7, <1>8, <1>9 DEF FrameFits

\* DirCopy() starts to scan, or to end.
LEMMA DirCopyStartFits ==
  ASSUME IsFiniteSet(Names), Control, FilesOK, DepthInv, DirCopyStart
  PROVE  Moves /\ Grows
<1>1. PICK t : t = Top
  OBVIOUS
<1>2. /\ stack # <<>> /\ t.fun = "DirCopy" /\ t.pc = "start" /\ t \in Frames /\ t.fun \in Walkers
      /\ t.src \in Seq(Names)
  BY <1>1, AtTop DEF DirCopyStart, Walkers
<1>3. UNCHANGED fs
  BY DEF DirCopyStart, fs
<1>4. \/ \E r : Return(r)
      \/ /\ CallFrom([t EXCEPT !.pc = "end"], Frame("FileCopy", t.src, t.dst))
         /\ IsFile(t.src)
      \/ CallFrom([t EXCEPT !.pc = "scan", !.had = Entries(t.src)], Frame("CreateDir", t.src, t.dst))
      \/ CallFrom([t EXCEPT !.pc = "null"], Frame("CreateDir", t.src, t.dst))
  BY <1>1, Zenon DEF DirCopyStart
<1>5. Entries(t.src) \in SUBSET EntryNames
  BY <1>2, EntryIs
<1>6. ASSUME NEW l \in {"end", "scan", "null"}, NEW e \in SUBSET EntryNames,
             NEW f, f = [t EXCEPT !.pc = l] \/ f = [t EXCEPT !.pc = l, !.had = e],
             NEW g \in {"FileCopy", "CreateDir"}, g = "FileCopy" => IsFile(t.src),
             CallFrom(f, Frame(g, t.src, t.dst))
      PROVE  Moves
  <2>1. PICK h : h = Frame(g, t.src, t.dst)
    OBVIOUS
  <2>2. FrameFits(h) /\ h \in Frames /\ h.fun = g /\ h.src = t.src
    BY <1>1, <1>2, <2>1, SameFits DEF Funs
  <2>3. /\ f \in Frames /\ f.fun = t.fun /\ f.src = t.src /\ f.dst = t.dst /\ f.pc = l
        /\ f.done = t.done
    BY <1>2, <1>6 DEF Frames, Labels
  <2>4. Stages[f.pc] < Stages[t.pc]
    BY <1>2, <2>3 DEF Stages
  <2>5. h.fun = "FileCopy" => IsFile(h.src)'
    BY <1>3, <1>6, <2>2 DEF IsFile, fs
  <2>6. CallFrom(f, h)
    BY <1>6, <2>1
  <2> QED
    BY <1>1, <1>2, <2>2, <2>3, <2>4, <2>5, <2>6, CallFits
<1>7. ASSUME NEW f, f = [t EXCEPT !.pc = "scan", !.had = Entries(t.src)],
             CallFrom(f, Frame("CreateDir", t.src, t.dst))
      PROVE  Moves
  BY <1>5, <1>6, <1>7
<1> QED
  BY <1>3, <1>4, <1>6, <1>7, ReturnMoves, WhatGrows

\* DirCopy() has an entry less to copy, and what it calls works on one that is there.
LEMMA DirCopyEntryFits ==
  ASSUME IsFiniteSet(Names), Control, FilesOK, DepthInv, DirCopyEntry
  PROVE  Moves /\ Grows
<1>1. PICK t : t = Top
  OBVIOUS
<1>2. /\ stack # <<>> /\ t.fun = "DirCopy" /\ t.pc = "scan" /\ t \in Frames /\ t.fun \in Walkers
      /\ t.src \in Seq(Names)
  BY <1>1, AtTop DEF DirCopyEntry, Walkers
<1>3. UNCHANGED fs
  BY DEF DirCopyEntry, fs
<1>4. \/ \E r : Return(r)
      \/ \E n \in Entries(t.src) \ t.done :
           \/ Become([t EXCEPT !.done = @ \cup {n}])
           \/ /\ ~Skipped(n)
              /\ \E g \in {"DirCopy", "FileCopy"} :
                   /\ CallFrom([t EXCEPT !.done = @ \cup {n}], Frame(g, Walk(t.src, n), Walk(t.dst, n)))
                   /\ IF g = "FileCopy" THEN IsFile(Walk(t.src, n)) ELSE IsDirectory(Walk(t.src, n))
  BY <1>1, Zenon DEF DirCopyEntry, NextEntries
<1>5. ASSUME NEW n \in Entries(t.src) \ t.done
      PROVE  /\ Become([t EXCEPT !.done = @ \cup {n}]) => Moves
             /\ ~Skipped(n) =>
                  \A g \in {"DirCopy", "FileCopy"} :
                    /\ CallFrom([t EXCEPT !.done = @ \cup {n}], Frame(g, Walk(t.src, n), Walk(t.dst, n)))
                    /\ IF g = "FileCopy" THEN IsFile(Walk(t.src, n)) ELSE IsDirectory(Walk(t.src, n))
                    => Moves
  <2>1. PICK f : f = [t EXCEPT !.done = @ \cup {n}]
    OBVIOUS
  <2>2. n \in EntryNames \ t.done
    BY <1>2, <1>5, EntryIs
  <2>3. /\ f \in Frames /\ f.fun = t.fun /\ f.src = t.src /\ f.dst = t.dst /\ f.pc = t.pc
        /\ f.done = t.done \cup {n}
    BY <1>2, <2>1, <2>2 DEF Frames
  <2>4. /\ Become(f) => Moves
        /\ \A g : CallFrom(f, g) /\ g \in Frames /\ FrameFits(g) /\ (g.fun = "FileCopy" => IsFile(g.src)')
                    => Moves
    BY <1>1, <1>2, <2>2, <2>3, CallFits
  <2>5. ASSUME ~Skipped(n), NEW g \in {"DirCopy", "FileCopy"},
               CallFrom(f, Frame(g, Walk(t.src, n), Walk(t.dst, n))),
               IF g = "FileCopy" THEN IsFile(Walk(t.src, n)) ELSE IsDirectory(Walk(t.src, n))
        PROVE  Moves
    <3>1. n \in Names /\ Walk(t.src, n) = Append(t.src, n) /\ Walk(t.dst, n) = Append(t.dst, n)
      BY <1>2, <1>5, <2>5, EntryIs
    <3>2. PICK h : h = Frame(g, Append(t.src, n), Append(t.dst, n))
      OBVIOUS
    <3>3. Exists(Append(t.src, n)) /\ g \in Funs \ {"save_file"}
      BY <2>5, <3>1 DEF Exists, Funs
    <3>4. FrameFits(h) /\ h \in Frames /\ h.fun = g /\ h.src = Append(t.src, n)
      BY <1>1, <1>2, <3>1, <3>2, <3>3, EntryFits
    <3>5. h.fun = "FileCopy" => IsFile(h.src)'
      BY <1>3, <2>5, <3>1, <3>4 DEF IsFile, fs
    <3>6. CallFrom(f, h)
      BY <2>5, <3>1, <3>2
    <3> QED
      BY <2>4, <3>4, <3>5, <3>6
  <2> QED
    BY <2>1, <2>4, <2>5
<1> QED
  BY <1>3, <1>4, <1>5, ReturnMoves, WhatGrows

\* delete_dir() starts to scan.
LEMMA DeleteStartFits ==
  ASSUME IsFiniteSet(Names), Control, FilesOK, DepthInv, DeleteStart
  PROVE  Moves /\ Grows
<1>1. PICK t : t = Top
  OBVIOUS
<1>2. PICK f : f = [t EXCEPT !.pc = "scan", !.had = Entries(t.src)]
  OBVIOUS
<1>3. /\ stack # <<>> /\ t.fun = "delete_dir" /\ t.pc = "start" /\ t \in Frames /\ t.fun \in Walkers
      /\ t.src \in Seq(Names)
  BY <1>1, AtTop DEF DeleteStart, Walkers
<1>4. UNCHANGED fs
  BY DEF DeleteStart, fs
<1>5. Become(f) \/ \E r : Return(r)
  BY <1>1, <1>2, Zenon DEF DeleteStart
<1>6. Entries(t.src) \in SUBSET EntryNames
  BY <1>3, EntryIs
<1>7. /\ f \in Frames /\ f.fun = t.fun /\ f.src = t.src /\ f.dst = t.dst /\ f.pc = "scan"
      /\ f.done = t.done
  BY <1>2, <1>3, <1>6 DEF Frames, Labels
<1>8. Stages[f.pc] < Stages[t.pc]
  BY <1>3, <1>7 DEF Stages
<1>9. Become(f) => Moves
  BY <1>1, <1>3, <1>7, <1>8, CallFits
<1> QED
  BY <1>4, <1>5, <1>9, ReturnMoves, WhatGrows

\* delete_dir() has an entry less to remove.
LEMMA DeleteEntryFits ==
  ASSUME IsFiniteSet(Names), Control, FilesOK, DepthInv, DeleteEntry
  PROVE  Moves /\ Grows
<1>1. PICK t : t = Top
  OBVIOUS
<1>2. /\ stack # <<>> /\ t.fun = "delete_dir" /\ t.pc = "scan" /\ t \in Frames /\ t.fun \in Walkers
      /\ t.src \in Seq(Names) /\ t.dst = t.src
  BY <1>1, AtTop DEF DeleteEntry, Walkers, FrameOK
<1>3. dirs' = dirs /\ (UNCHANGED files \/ \E q : Unlink(q))
  BY Zenon DEF DeleteEntry
<1>4. Grows
  <2>1. UNCHANGED files => UNCHANGED fs
    BY <1>3 DEF fs
  <2> QED
    BY <1>3, <2>1, WhatGrows
<1>5. \/ Become([t EXCEPT !.pc = "remove"])
      \/ \E n \in Entries(t.src) \ t.done :
           \/ Become([t EXCEPT !.done = @ \cup {n}])
           \/ /\ ~Skipped(n) /\ IsDirectory(Walk(t.src, n))
              /\ CallFrom([t EXCEPT !.done = @ \cup {n}],
                          Frame("delete_dir", Walk(t.src, n), Walk(t.src, n)))
  BY <1>1, Zenon DEF DeleteEntry, NextEntries
<1>6. ASSUME NEW f, f = [t EXCEPT !.pc = "remove"], Become(f)
      PROVE  Moves
  <2>1. /\ f \in Frames /\ f.fun = t.fun /\ f.src = t.src /\ f.dst = t.dst /\ f.pc = "remove"
        /\ f.done = t.done
    BY <1>2, <1>6 DEF Frames, Labels
  <2>2. Stages[f.pc] < Stages[t.pc]
    BY <1>2, <2>1 DEF Stages
  <2> QED
    BY <1>1, <1>2, <1>6, <2>1, <2>2, CallFits
<1>7. ASSUME NEW n \in Entries(t.src) \ t.done, NEW f, f = [t EXCEPT !.done = @ \cup {n}]
      PROVE  /\ Become(f) => Moves
             /\ /\ ~Skipped(n) /\ IsDirectory(Walk(t.src, n))
                /\ CallFrom(f, Frame("delete_dir", Walk(t.src, n), Walk(t.src, n)))
                => Moves
  <2>1. n \in EntryNames \ t.done
    BY <1>2, <1>7, EntryIs
  <2>2. /\ f \in Frames /\ f.fun = t.fun /\ f.src = t.src /\ f.dst = t.dst /\ f.pc = t.pc
        /\ f.done = t.done \cup {n}
    BY <1>2, <1>7, <2>1 DEF Frames
  <2>3. /\ Become(f) => Moves
        /\ \A g : CallFrom(f, g) /\ g \in Frames /\ FrameFits(g) /\ (g.fun = "FileCopy" => IsFile(g.src)')
                    => Moves
    BY <1>1, <1>2, <2>1, <2>2, CallFits
  <2>4. ASSUME ~Skipped(n), IsDirectory(Walk(t.src, n)),
               CallFrom(f, Frame("delete_dir", Walk(t.src, n), Walk(t.src, n)))
        PROVE  Moves
    <3>1. n \in Names /\ Walk(t.src, n) = Append(t.src, n)
      BY <1>2, <1>7, <2>4, EntryIs
    <3>2. PICK h : h = Frame("delete_dir", Append(t.src, n), Append(t.dst, n))
      OBVIOUS
    <3>3. Exists(Append(t.src, n)) /\ "delete_dir" \in Funs \ {"save_file"}
      BY <2>4, <3>1 DEF Exists, Funs
    <3>4. FrameFits(h) /\ h \in Frames /\ h.fun = "delete_dir" /\ h.src = Append(t.src, n)
      BY <1>1, <1>2, <3>1, <3>2, <3>3, EntryFits
    <3>5. CallFrom(f, h)
      BY <1>2, <2>4, <3>1, <3>2
    <3> QED
      BY <2>3, <3>4, <3>5
  <2> QED
    BY <2>3, <2>4
<1> QED
  BY <1>4, <1>5, <1>6, <1>7

\* save_file() goes on; it makes no path longer than its own.
LEMMA SaveFits ==
  ASSUME IsFiniteSet(Names), Control, FilesOK, DepthInv, SaveParents \/ SaveOpen \/ SaveWrite
  PROVE  Moves /\ Grows
<1>1. PICK t : t = Top
  OBVIOUS
<1>2. /\ stack # <<>> /\ t.fun = "save_file" /\ t \in Frames /\ FrameFits(t) /\ t.k \in Nat
      /\ t.dst \in Seq(Names) /\ Len(t.dst) \in Nat /\ call.len \in Nat
  BY <1>1, AtTop, TopFits DEF SaveParents, SaveOpen, SaveWrite
<1>3. t.k <= call.len /\ call' = call
  BY <1>2 DEF FrameFits, SaveParents, SaveOpen, SaveWrite, ghosts
<1>4. \/ \E r : Return(r)
      \/ SaveParents /\ t.pc = "start" /\ Become([t EXCEPT !.pc = "open"])
      \/ SaveOpen /\ t.pc = "open" /\ Become([t EXCEPT !.pc = "write"])
      \/ SaveWrite /\ t.pc = "write" /\ t.k < call.len /\ Become([t EXCEPT !.k = @ + 1])
  BY <1>1, Zenon DEF SaveParents, SaveOpen, SaveWrite, In
<1>5. ASSUME NEW l \in {"open", "write"}, l = IF t.pc = "start" THEN "open" ELSE "write",
             t.pc \in {"start", "open"}, NEW f, f = [t EXCEPT !.pc = l], Become(f)
      PROVE  Moves
  <2>1. f \in Frames /\ f.fun = t.fun /\ f.pc = l /\ f.src = t.src /\ f.dst = t.dst /\ f.k = t.k
    BY <1>2, <1>5 DEF Frames, Labels
  <2>2. FrameFits(f)
    BY <1>1, <1>2, <1>3, <1>5, <2>1, GoesOnFits
  <2>3. Stages[f.pc] < Stages[t.pc] /\ f.pc \in Labels
    BY <1>5, <2>1 DEF Stages, Labels
  <2>4. Parts(t) = call.len - t.k /\ Parts(f)' = call.len - t.k
    BY <1>2, <1>3, <2>1 DEF Parts, Walkers
  <2>5. Work(f)' < Work(Top)
    BY <1>1, <1>2, <2>3, <2>4, LessWork
  <2> QED
    BY <1>2, <1>5, <2>1, <2>2, <2>5 DEF Moves, Going, Become
<1>6. ASSUME t.pc = "write", t.k < call.len, NEW f, f = [t EXCEPT !.k = @ + 1], Become(f)
      PROVE  Moves
  <2>1. PICK k \in Nat : k = t.k + 1 /\ k <= call.len
    BY <1>2, <1>6
  <2>2. f = [t EXCEPT !.k = k]
    BY <1>6, <2>1
  <2>3. f \in Frames /\ f.fun = t.fun /\ f.pc = "write" /\ f.src = t.src /\ f.dst = t.dst /\ f.k = k
    BY <1>2, <1>6, <2>1, <2>2 DEF Frames
  <2>4. FrameFits(f)
    BY <1>1, <1>2, <2>1, <2>3, GoesOnFits
  <2>5. Parts(t) = call.len - t.k /\ Parts(f)' = call.len - k
    BY <1>2, <1>3, <2>3 DEF Parts, Walkers
  <2>6. Parts(f)' \in Nat /\ Parts(f)' < Parts(t) /\ f.pc \in Labels /\ f.pc = t.pc
    BY <1>2, <1>6, <2>1, <2>3, <2>5 DEF Labels
  <2>7. Work(f)' < Work(Top)
    BY <1>1, <1>2, <2>6, LessWork
  <2> QED
    BY <1>2, <1>6, <2>3, <2>4, <2>7 DEF Moves, Going, Become
<1>7. CASE SaveParents
  <2>1. files' = files
    BY <1>7 DEF SaveParents
  <2>2. PICK missing \in SUBSET Parents(t.dst) : missing = {q \in Parents(t.dst) : ~Exists(q)}
    OBVIOUS
  <2>3. \/ dirs' = dirs
        \/ dirs' = dirs \cup missing
        \/ \E n \in 0..Len(t.dst) : dirs' = dirs \cup {q \in missing : Len(q) < n}
        \/ \E words \in [1..MaxWords -> Paths \cup {Root}] : MakeWords(Range(words))
    BY <1>1, <1>7, <2>2, Zenon DEF SaveParents
  <2>4. ASSUME NEW m \in SUBSET Parents(t.dst), dirs' = dirs \cup m
        PROVE  Grows
    <3>1. \A q \in Parents(t.dst) : q \in Seq(Names) /\ Len(q) < Len(t.dst) /\ Len(q) \in Nat
      BY <1>2, ParentsAre, RootIs
    <3> QED
      BY <1>1, <1>2, <2>1, <2>4, <3>1 DEF Grows, Nodes
  <2>5. ASSUME NEW words \in [1..MaxWords -> Paths \cup {Root}], MakeWords(Range(words))
        PROVE  Grows
    <3>1. PICK new : dirs' = dirs \cup new /\ \A q \in new : Len(q) <= MaxDepth
      BY <2>5, WordsAre, DataDbAssumption
    <3>2. call.fun = "save_file"
      BY <1>1, <1>2, <1>7, AtTop DEF SaveParents, FrameOK
    <3> QED
      BY <2>1, <3>1, <3>2 DEF Grows, Nodes
  <2>6. dirs' = dirs => dirs' = dirs \cup {}
    OBVIOUS
  <2>7. Grows
    BY <2>3, <2>4, <2>5, <2>6
  <2> QED
    BY <1>4, <1>5, <1>6, <2>7, ReturnMoves
<1>8. CASE SaveOpen \/ SaveWrite
  <2>1. dirs' = dirs /\ (UNCHANGED files \/ \E c : Put(t.dst, c))
    BY <1>1, <1>8, Zenon DEF SaveOpen, SaveWrite
  <2>2. UNCHANGED files => UNCHANGED fs
    BY <2>1 DEF fs
  <2>3. Len(t.dst) <= Len(Top.dst)
    BY <1>1, <1>2
  <2>4. Grows
    BY <2>1, <2>2, <2>3, WhatGrows
  <2> QED
    BY <1>4, <1>5, <1>6, <2>4, ReturnMoves
<1> QED
  BY <1>7, <1>8

\* The other steps of a call end a frame or all of them.
LEMMA OthersFit ==
  ASSUME DirCopyNull \/ DirCopyEnd \/ DeleteSelf \/ DeleteFile \/ Crash
  PROVE  Moves /\ Grows
<1>1. Dies \/ \E r : Return(r)
  BY Zenon DEF DirCopyNull, DirCopyEnd, DeleteSelf, DeleteFile, Crash
<1>2. \/ UNCHANGED fs
      \/ \E q : dirs' = dirs \ {q} /\ files' = files
      \/ \E q : Unlink(q) /\ dirs' = dirs
  BY Zenon DEF DirCopyNull, DirCopyEnd, DeleteSelf, DeleteFile, Crash, Dies, fs
<1> QED
  BY <1>1, <1>2, ReturnMoves, WhatGrows

\* So every step of a call.
LEMMA RunFits ==
  ASSUME IsFiniteSet(Names), Control, FilesOK, DepthInv, Run \/ Crash
  PROVE  Moves /\ Grows /\ stack # <<>>
<1>1. Moves /\ Grows
  BY MakeDirFits, CopyAccessFits, CopyOpenFits, CopyChunkFits,
     DirCopyStartFits, DirCopyEntryFits, DeleteStartFits, DeleteEntryFits, SaveFits, OthersFit DEF Run
<1>2. stack # <<>>
  BY DEF In, Run, Crash, MakeDir, CopyAccess, CopyOpen, CopyChunk,
    DirCopyStart, DirCopyNull, DirCopyEntry, DirCopyEnd,
    DeleteStart, DeleteEntry, DeleteSelf, DeleteFile, SaveParents, SaveOpen, SaveWrite
<1> QED
  BY <1>1, <1>2

-----------------------------------------------------------------------------
(* The bound on paths is kept.                                              *)

\* A new path is no longer than the call can make one; none below the source of the
\* call is longer than those that were there.
LEMMA NewPaths ==
  ASSUME Control, FilesOK, FilesOK', DepthInv, stack # <<>>, Contained, Grows
  PROVE  \A q \in Nodes' : /\ Len(q) <= Depth(calls)
                           /\ Below(q, call.src) => Len(q) <= Depth(calls - 1)
<1> SUFFICES ASSUME NEW q \in Nodes' \ Nodes
             PROVE  /\ Len(q) <= Depth(calls)
                    /\ Below(q, call.src) => Len(q) <= Depth(calls - 1)
  BY DEF DepthInv
<1>1. PICK t : t = Top
  OBVIOUS
<1>2. /\ FrameFits(t) /\ FrameOK(t, call) /\ t \in Frames /\ t.dst \in Seq(Names) /\ t.src \in Seq(Names)
      /\ call.src \in Seq(Names) /\ call.dst \in Seq(Names)
  BY <1>1, TopFits
<1>3. PICK a \in Nat, b \in Nat, c \in Nat \ {0}, d \in Nat, m \in Nat, e \in Nat, l \in {0, 1} :
        /\ a = Len(t.src) /\ b = Len(t.dst) /\ c = Len(call.src) /\ d = Len(call.dst) /\ m = Len(q)
        /\ e = Depth(calls - 1) /\ l = Longer(t)
  <2>1. /\ Len(t.src) \in Nat /\ Len(t.dst) \in Nat /\ Len(call.src) \in Nat \ {0}
        /\ Len(call.dst) \in Nat /\ calls \in Nat \ {0}
    BY <1>1, TopFits
  <2>2. Len(q) \in Nat
    BY RootIs DEF Nodes, FilesOK
  <2>3. Depth(calls - 1) \in Nat
    BY <2>1, DepthIs
  <2>4. Longer(t) \in {0, 1}
    BY DEF Longer
  <2> QED
    BY <2>1, <2>2, <2>3, <2>4
<1>4. q \in Seq(Names)
  BY DEF Nodes, FilesOK
<1>5. /\ m <= b \/ (call.fun = "save_file" /\ m <= MaxDepth)
      /\ a <= e /\ b + c <= a + d + l
  BY <1>1, <1>2, <1>3 DEF Grows, FrameFits
<1>6. MaxDepth \in Nat /\ c <= MaxDepth /\ d <= MaxDepth /\ MaxDepth + 1 <= e /\ Depth(calls) = e + MaxDepth + 1
  <2>1. calls \in Nat \ {0}
    BY <1>1, TopFits
  <2>2. calls - 1 \in Nat
    BY <2>1
  <2>3. Depth(calls - 1) >= MaxDepth + 1 /\ MaxDepth \in Nat /\ Depth(calls) = Depth(calls - 1) + MaxDepth + 1
    BY <2>1, <2>2, DepthIs
  <2> QED
    BY <1>3, <2>3 DEF DepthInv
<1>7. m <= Depth(calls)
  BY <1>5, <1>6
<1>8. m <= b \/ m <= e
  BY <1>5, <1>6
<1>9. ASSUME Below(q, call.src)
      PROVE  m <= e
  <2>1. CASE call.fun \notin Walkers
    <3>1. Len(stack) = 1 /\ t.src = call.src
      <4>1. /\ stack[1].fun = call.fun /\ stack[1].src = call.src /\ Len(stack) \in Nat \ {0}
            /\ t = stack[Len(stack)]
        BY <1>1, TopIs DEF Control, BottomOK
      <4>2. ~(1 < Len(stack))
        <5>1. 1 \in 1..Len(stack)
          BY <4>1
        <5> QED
          BY <2>1, <4>1, <5>1 DEF Control, StackOK
      <4>3. Len(stack) = 1
        <5>1. PICK n \in Nat \ {0} : n = Len(stack)
          BY <4>1
        <5>2. ~(1 < n)
          BY <4>2, <5>1
        <5> QED
          BY <5>1, <5>2
      <4> QED
        BY <4>1, <4>3, Zenon
    <3>2. a = c
      BY <1>3, <3>1
    <3> QED
      BY <1>5, <1>6, <1>8, <3>2
  <2>2. CASE call.fun = "delete_dir"
    <3>1. t.src = t.dst
      BY <1>2, <2>2 DEF FrameOK
    <3> QED
      BY <1>3, <1>5, <1>8, <3>1
  <2>3. CASE call.fun = "DirCopy"
    <3>1. CASE call.dst = call.src
      <4>1. t.dst = t.src
        BY <1>2, <2>3, <3>1 DEF FrameFits, Walkers
      <4> QED
        BY <1>3, <1>5, <1>8, <4>1
    <3>2. CASE call.dst # call.src
      <4>1. Below(q, call.dst) \/ Below(call.dst, q)
        BY <2>3 DEF Nodes, Contained, CutUp
      <4>2. Below(call.src, call.dst) \/ Below(call.dst, call.src)
        BY <1>2, <1>4, <1>9, <4>1, BothAbove, BelowOrder
      <4>3. ~Below(call.dst, call.src)
        BY <2>3, <3>2 DEF DepthInv, Inside, IsStrictPrefix, Below
      <4>4. d < c
        <5>1. d <= c /\ \A i \in 1..d : call.src[i] = call.dst[i]
          BY <1>2, <1>3, <4>2, <4>3, BelowIs
        <5>2. d # c
          BY <1>2, <1>3, <3>2, <5>1, PathEqual
        <5> QED
          BY <5>1, <5>2
      <4> QED
        BY <1>5, <1>8, <4>4
    <3> QED
      BY <3>1, <3>2
  <2> QED
    BY <2>1, <2>2, <2>3 DEF Walkers
<1> QED
  BY <1>3, <1>7, <1>9

\* The frames of a call keep fitting.
LEMMA FramesFit ==
  ASSUME Control, Control', DepthInv, stack # <<>>, Moves, UNCHANGED <<call, calls>>
  PROVE  (\A j \in 1..Len(stack) : FrameFits(stack[j]))' /\ CopiesFile'
<1>1. PICK n \in Nat \ {0} : n = Len(stack) /\ stack \in Seq(Frames)
  BY StackOps DEF Control, StackOK
<1> SUFFICES (\A j \in 1..Len(stack') : FrameFits(stack'[j])) /\ CopiesFile'
  BY DEF FrameFits, Longer
<1>3. \A j \in 1..n : FrameFits(stack[j])
  BY <1>1 DEF DepthInv
<1>4. CASE stack' = <<>>
  <2>1. Len(stack') = 0
    BY <1>4
  <2> QED
    BY <1>4, <2>1 DEF CopiesFile, In
<1>5. CASE stack' = Front(stack)
  <2>1. Len(stack') = n - 1 /\ \A j \in 1..(n - 1) : stack'[j] = stack[j]
    BY <1>1, <1>5, StackOps
  <2>2. \A j \in 1..Len(stack') : FrameFits(stack'[j])
    BY <1>3, <2>1
  <2>3. ASSUME stack' # <<>>
        PROVE  Top'.fun # "FileCopy"
    <3>1. n - 1 \in 1..(n - 1) /\ n - 1 < n
      <4>1. n # 1
        BY <1>1, <1>5, <2>1, <2>3, StackOps, EmptySeq
      <4> QED
        BY <4>1
    <3>2. Top' = stack[n - 1]
      BY <2>1, <3>1 DEF Top, Last
    <3>3. stack[n - 1].fun \in Walkers
      BY <1>1, <3>1 DEF Control, StackOK
    <3> QED
      BY <3>2, <3>3 DEF Walkers
  <2> QED
    BY <2>2, <2>3 DEF CopiesFile, In
<1>6. ASSUME NEW f, stack' = Append(Front(stack), f), Going(f)
      PROVE  /\ \A j \in 1..Len(stack') : FrameFits(stack'[j])
             /\ ~In("FileCopy", "start")'
  <2>1. /\ Len(stack') = n /\ stack'[n] = f /\ Last(stack') = f
        /\ \A j \in 1..(n - 1) : stack'[j] = stack[j]
    BY <1>1, <1>6, ReplaceTop DEF Going
  <2>2. \A j \in 1..n : j = n \/ j \in 1..(n - 1)
    OBVIOUS
  <2>3. \A j \in 1..n : FrameFits(stack'[j])
    BY <1>3, <1>6, <2>1, <2>2 DEF Going
  <2>4. \A j \in 1..Len(stack') : FrameFits(stack'[j])
    BY <2>1, <2>3
  <2> QED
    BY <1>6, <2>1, <2>4 DEF In, Top, Going
<1>7. ASSUME NEW f, NEW g, stack' = Front(stack) \o <<f, g>>, Going(f), g \in Frames, FrameFits(g),
             g.fun = "FileCopy" => IsFile(g.src)'
      PROVE  /\ \A j \in 1..Len(stack') : FrameFits(stack'[j])
             /\ CopiesFile'
  <2>1. /\ Len(stack') = n + 1 /\ stack'[n] = f /\ stack'[n + 1] = g /\ Last(stack') = g
        /\ \A j \in 1..(n - 1) : stack'[j] = stack[j]
    BY <1>1, <1>7, PutOnTop DEF Going
  <2>2. \A j \in 1..(n + 1) : j = n + 1 \/ j = n \/ j \in 1..(n - 1)
    OBVIOUS
  <2>3. \A j \in 1..(n + 1) : FrameFits(stack'[j])
    BY <1>3, <1>7, <2>1, <2>2 DEF Going
  <2>4. \A j \in 1..Len(stack') : FrameFits(stack'[j])
    BY <2>1, <2>3
  <2>5. CopiesFile'
    BY <1>7, <2>1 DEF CopiesFile, In, Top, IsFile
  <2> QED
    BY <2>4, <2>5
<1> QED
  BY <1>4, <1>5, <1>6, <1>7 DEF Moves, CopiesFile

\* A step of a call keeps the bounds on paths.
LEMMA DepthRuns ==
  ASSUME IsFiniteSet(Names), Control, Control', FilesOK, FilesOK', DepthInv, Run \/ Crash
  PROVE  DepthInv'
<1>1. Moves /\ Grows /\ stack # <<>>
  BY RunFits
<1>2. call' = call /\ calls' = calls
  BY DEF ghosts, Run, Crash, MakeDir, CopyAccess, CopyOpen, CopyChunk,
    DirCopyStart, DirCopyNull, DirCopyEntry, DirCopyEnd,
    DeleteStart, DeleteEntry, DeleteSelf, DeleteFile, SaveParents, SaveOpen, SaveWrite
<1>3. Contained
  BY RunStep DEF StepOK
<1>4. \A q \in Nodes' : /\ Len(q) <= Depth(calls)
                        /\ Below(q, call.src) => Len(q) <= Depth(calls - 1)
  BY <1>1, <1>3, NewPaths
<1>5. (\A j \in 1..Len(stack) : FrameFits(stack[j]))' /\ CopiesFile'
  BY <1>1, <1>2, FramesFit
<1> QED
  BY <1>1, <1>2, <1>4, <1>5 DEF DepthInv, Depth

\* At first no path is longer than the program's.
LEMMA DepthInitially ==
  ASSUME Init
  PROVE  DepthInv
<1>1. stack = <<>> /\ calls = 0 /\ \A q \in Nodes : q \in Paths \cup {Root}
  BY DEF Init, Nodes
<1>2. MaxDepth \in Nat /\ Depth(0) \in Nat /\ Depth(0) >= MaxDepth + 1
  BY DepthIs
<1>3. ASSUME NEW q \in Nodes
      PROVE  Len(q) <= Depth(0)
  <2>1. CASE q \in Paths
    BY <1>2, <2>1, PathLength
  <2>2. CASE q = Root
    <3>1. Len(q) = 0
      BY <2>2 DEF Root
    <3> QED
      BY <1>2, <3>1
  <2> QED
    BY <1>1, <1>3, <2>1, <2>2
<1> QED
  BY <1>1, <1>3 DEF DepthInv

\* A call starts with paths that fit.
LEMMA DepthStarts ==
  ASSUME Control, FilesOK, DepthInv, Call
  PROVE  DepthInv'
<1>1. calls' = calls + 1 /\ calls < MaxCalls
  BY DEF Call
<1>2. PICK f \in Funs, s \in Paths, d \in Paths, n \in Nat :
        Start(f, s, d, n) /\ (f = "DirCopy" => ~Inside(d, s))
  <2>1. Lengths \in SUBSET Nat /\ 0 \in Nat
    BY DataDbAssumption
  <2>2. /\ "DirCopy" \in Funs /\ "FileCopy" \in Funs /\ "CreateDir" \in Funs
        /\ "delete_dir" \in Funs /\ "delete_file" \in Funs /\ "save_file" \in Funs
        /\ \A f \in {"FileCopy", "CreateDir", "delete_dir", "delete_file", "save_file"} : f # "DirCopy"
    BY DEF Funs
  <2> QED
    BY <2>1, <2>2, Zenon DEF Call
<1>3. /\ call' = [fun |-> f, src |-> s, dst |-> d, len |-> n] /\ stack' = <<Frame(f, s, d)>>
      /\ dirs' = dirs /\ files' = files
  BY <1>2 DEF Start, fs
<1>4. /\ s \in Seq(Names) /\ d \in Seq(Names) /\ Len(s) \in Nat /\ Len(d) \in Nat
      /\ Len(s) <= MaxDepth /\ Len(d) <= MaxDepth
  BY PathsAre, PathLength
<1>5. PICK c \in Nat : c = calls /\ calls' = c + 1 /\ calls' - 1 = c
  BY <1>1, DataDbAssumption DEF Control, ResultOK
<1>6. /\ Depth(c) \in Nat /\ Depth(c) >= MaxDepth + 1 /\ MaxDepth \in Nat
      /\ Depth(calls') \in Nat /\ Depth(c) <= Depth(calls') /\ Depth(calls' - 1) = Depth(c)
  <2>1. c + 1 \in Nat /\ c <= c + 1
    OBVIOUS
  <2> QED
    BY <1>5, <2>1, DepthIs
<1>7. \A q \in Nodes' : Len(q) <= Depth(c) /\ Len(q) <= Depth(calls')
  <2> SUFFICES ASSUME NEW q \in Nodes' PROVE Len(q) <= Depth(c) /\ Len(q) <= Depth(calls')
    OBVIOUS
  <2>1. Len(q) <= Depth(c)
    BY <1>3, <1>5 DEF DepthInv, Nodes
  <2>2. q \in Seq(Names)
    BY <1>3 DEF Nodes, FilesOK
  <2> QED
    BY <1>6, <2>1, <2>2, RootIs
<1>8. PICK t : t = Frame(f, s, d)
  OBVIOUS
<1>9. t \in Frames /\ t.fun = f /\ t.pc = "start" /\ t.src = s /\ t.dst = d /\ t.k = 0
  BY <1>4, <1>8, FrameIs
<1>10. stack' = <<t>> /\ Len(stack') = 1 /\ stack'[1] = t /\ Top' = t /\ stack' # <<>>
  BY <1>3, <1>8 DEF Top, Last
<1>11. /\ call'.src = s /\ call'.dst = d /\ call'.fun = f /\ call'.len = n
  BY <1>3
<1>12. FrameFits(t)'
  <2>1. Below(s, s) /\ Len(s) <= Depth(calls' - 1)
    BY <1>4, <1>6, BelowOrder
  <2>2. Longer(t) = 0 /\ Len(d) + Len(s) <= Len(s) + Len(d) + 0
    BY <1>4, <1>9 DEF Longer
  <2> QED
    BY <1>9, <1>11, <2>1, <2>2 DEF FrameFits, Longer
<1>13. (\A j \in 1..Len(stack) : FrameFits(stack[j]))'
  <2>1. \A j \in 1..1 : j = 1
    OBVIOUS
  <2> QED
    BY <1>10, <1>12, <2>1 DEF FrameFits, Longer
<1>14. call'.fun = "DirCopy" => CopiesFile'
  BY <1>9, <1>10, <1>11 DEF CopiesFile, In
<1>15. calls' > 0
  BY <1>5
<1> QED
  BY <1>2, <1>4, <1>6, <1>7, <1>11, <1>13, <1>14, <1>15 DEF DepthInv, Depth

\* The bounds on paths hold.
LEMMA DepthHolds ==
  ASSUME IsFiniteSet(Names)
  PROVE  Spec => []DepthInv
<1>1. Init => DepthInv
  BY DepthInitially
<1>2. Control /\ FilesOK /\ Control' /\ FilesOK' /\ DepthInv /\ [Next]_vars => DepthInv'
  <2> SUFFICES ASSUME Control, FilesOK, Control', FilesOK', DepthInv, [Next]_vars
               PROVE  DepthInv'
    OBVIOUS
  <2>1. CASE UNCHANGED vars
    BY <2>1 DEF vars, DepthInv, Nodes, FrameFits, Longer, CopiesFile, In, Top, IsFile
  <2> QED
    BY <2>1, DepthStarts, DepthRuns DEF Next
<1> QED
  BY <1>1, <1>2, InvHolds, PTL DEF Spec

\* No more frames are on the stack than the bound on paths says.
LEMMA StackBound ==
  ASSUME Control, FilesOK, DepthInv
  PROVE  Len(stack) \in Nat /\ Len(stack) <= MaxStack /\ MaxStack \in Nat
<1>1. MaxCalls \in Nat /\ Depth(MaxCalls) \in Nat /\ MaxStack \in Nat /\ MaxStack >= 1
  <2>1. MaxCalls \in Nat
    BY DataDbAssumption
  <2> QED
    BY <2>1, DepthIs DEF MaxStack
<1>2. CASE stack = <<>>
  BY <1>1, <1>2
<1>3. CASE stack # <<>>
  <2>1. /\ Len(stack) \in Nat \ {0} /\ Len(stack) <= Deep(Top)
        /\ Len(Top.src) \in Nat /\ Len(Top.src) <= Depth(calls - 1) /\ calls \in Nat \ {0}
    BY <1>3, TopIs, TopFits DEF FrameFits, Control
  <2>2. Deep(Top) <= Len(Top.src) + 1 /\ Deep(Top) \in Nat
    <3>1. CASE Top.fun \in Walkers
      BY <2>1, <3>1 DEF Deep
    <3>2. CASE Top.fun \notin Walkers
      BY <2>1, <3>2 DEF Deep
    <3> QED
      BY <3>1, <3>2
  <2>3. PICK c \in Nat : c = calls - 1 /\ c <= MaxCalls
    BY <1>1, <2>1 DEF Control, ResultOK
  <2>4. Depth(c) \in Nat /\ Depth(c) <= Depth(MaxCalls)
    BY <1>1, <2>3, DepthIs
  <2> QED
    BY <1>1, <2>1, <2>2, <2>3, <2>4 DEF MaxStack
<1> QED
  BY <1>2, <1>3

-----------------------------------------------------------------------------
(* Fewer and fewer.                                                         *)

\* The bound on the stack is a number.
LEMMA MaxStackIs == MaxStack \in Nat
<1>1. MaxCalls \in Nat
  BY DataDbAssumption
<1> QED
  BY <1>1, DepthIs DEF MaxStack

\* Sequences of as many naturals as the stack can have frames cannot become smaller
\* for ever.
LEMMA FewerEnds == IsWellFoundedOn(Fewer, [1..MaxStack -> Nat])
<1> QED
  BY MaxStackIs, NatLessThanWellFounded, WFLexProductOrdering, Zenon DEF Fewer

\* Less for one frame, and the same for those below it, is fewer for the stack.
LEMMA FewerIs ==
  ASSUME NEW a \in [1..MaxStack -> Nat], NEW b \in [1..MaxStack -> Nat],
         NEW j \in 1..MaxStack, a[j] < b[j], \A i \in 1..(j - 1) : a[i] = b[i]
  PROVE  <<a, b>> \in Fewer
<1>1. a[j] \in Nat /\ b[j] \in Nat
  OBVIOUS
<1>2. <<a[j], b[j]>> \in OpToRel(<, Nat)
  BY <1>1 DEF OpToRel
<1> QED
  BY <1>2, Zenon DEF Fewer, LexProductOrdering

\* What the stack has left to do is a sequence of naturals.
LEMMA LeftIs ==
  ASSUME WorkInv, Len(stack) \in Nat
  PROVE  Left \in [1..MaxStack -> Nat]
<1>1. \A j \in 1..MaxStack : (IF j <= Len(stack) THEN Work(stack[j]) ELSE 0) \in Nat
  <2> SUFFICES ASSUME NEW j \in 1..MaxStack, j <= Len(stack)
               PROVE  Work(stack[j]) \in Nat
    OBVIOUS
  <2>2. j \in 1..Len(stack)
    BY MaxStackIs
  <2> QED
    BY <2>2 DEF WorkInv
<1> QED
  BY <1>1 DEF Left

\* What is known of the stack at any time.
Counted ==
  /\ WorkInv /\ Len(stack) \in Nat /\ Len(stack) <= MaxStack
  /\ Left \in [1..MaxStack -> Nat]

\* The work of a frame that is on the stack after a step.
LEMMA WorkThere ==
  ASSUME NEW j, NEW f, f = stack'[j]
  PROVE  Work(stack[j])' = Work(f)'
  BY DEF Work, Parts, IsFile

\* Each step of a call leaves fewer.
LEMMA LessLeft ==
  ASSUME IsFiniteSet(Names), Control, FilesOK, DepthInv, Run \/ Crash, stack' # <<>>,
         Counted, Counted'
  PROVE  <<Left', Left>> \in Fewer
<1> /\ Left \in [1..MaxStack -> Nat] /\ Left' \in [1..MaxStack -> Nat]
    /\ WorkInv /\ Len(stack') \in Nat /\ Len(stack') <= MaxStack
  BY DEF Counted
<1>1. Moves /\ stack # <<>>
  BY RunFits
<1>2. PICK n \in Nat \ {0} : n = Len(stack) /\ stack \in Seq(Frames) /\ n <= MaxStack /\ Top = stack[n]
  <2>1. Len(stack) \in Nat \ {0} /\ stack \in Seq(Frames) /\ Top = stack[Len(stack)]
    BY <1>1, TopIs DEF Control, StackOK
  <2> QED
    BY <2>1, StackBound
<1>3. n \in 1..MaxStack /\ \A j \in 1..(n - 1) : j \in 1..MaxStack /\ j \in 1..n /\ j < n
  BY <1>2, MaxStackIs
<1>4. ASSUME NEW j \in 1..(n - 1), j <= Len(stack'), stack'[j] = stack[j]
      PROVE  Left'[j] = Left[j]
  <2>1. PICK f : f = stack[j] /\ f = stack'[j] /\ f.fun \in Walkers
    BY <1>2, <1>3, <1>4 DEF Control, StackOK
  <2>2. Work(f)' = Work(f)
    BY <2>1, PartsAre DEF Work, Stages
  <2>3. Left[j] = Work(f)
    <3>1. j <= Len(stack)
      BY <1>2, <1>3
    <3>2. Left[j] = Work(stack[j])
      BY <1>3, <3>1 DEF Left
    <3> QED
      BY <2>1, <3>2, Zenon
  <2>4. Left'[j] = Work(f)'
    <3>1. Left'[j] = Work(stack[j])'
      BY <1>3, <1>4 DEF Left
    <3> QED
      BY <2>1, <3>1, WorkThere
  <2> QED
    BY <2>2, <2>3, <2>4
<1>5. Left[n] = Work(Top) /\ Left[n] \in Nat \ {0}
  <2>1. n \in 1..Len(stack) /\ n <= Len(stack)
    BY <1>2
  <2>2. Left[n] = Work(stack[n])
    BY <1>3, <2>1 DEF Left
  <2> QED
    BY <1>2, <2>1, <2>2, Zenon DEF WorkInv
<1>6. CASE stack' = Front(stack)
  <2>1. Len(stack') = n - 1 /\ \A j \in 1..(n - 1) : stack'[j] = stack[j]
    BY <1>2, <1>6, StackOps
  <2>2. \A j \in 1..(n - 1) : Left'[j] = Left[j]
    BY <1>4, <2>1
  <2>3. Left'[n] = 0
    BY <1>3, <2>1 DEF Left
  <2>4. Left'[n] < Left[n]
    BY <1>5, <2>3
  <2> QED
    BY <1>3, <2>2, <2>4, FewerIs
<1>7. ASSUME NEW f, Going(f), Len(stack') >= n, stack'[n] = f, \A j \in 1..(n - 1) : stack'[j] = stack[j]
      PROVE  <<Left', Left>> \in Fewer
  <2>1. \A j \in 1..(n - 1) : Left'[j] = Left[j]
    BY <1>3, <1>4, <1>7
  <2>2. Left'[n] = Work(f)'
    <3>1. Left'[n] = Work(stack[n])'
      BY <1>3, <1>7 DEF Left
    <3> QED
      BY <1>7, <3>1, WorkThere
  <2>3. Left'[n] < Left[n]
    BY <1>5, <1>7, <2>2 DEF Going
  <2> QED
    BY <1>3, <2>1, <2>3, FewerIs
<1>8. ASSUME NEW f, stack' = Append(Front(stack), f), Going(f)
      PROVE  <<Left', Left>> \in Fewer
  <2>1. Len(stack') = n /\ stack'[n] = f /\ \A j \in 1..(n - 1) : stack'[j] = stack[j]
    BY <1>1, <1>2, <1>8, ReplaceTop DEF Going
  <2> QED
    BY <1>7, <1>8, <2>1
<1>9. ASSUME NEW f, NEW g, stack' = Front(stack) \o <<f, g>>, Going(f), g \in Frames
      PROVE  <<Left', Left>> \in Fewer
  <2>1. Len(stack') = n + 1 /\ stack'[n] = f /\ \A j \in 1..(n - 1) : stack'[j] = stack[j]
    BY <1>1, <1>2, <1>9, PutOnTop DEF Going
  <2>2. Len(stack') >= n
    BY <2>1
  <2> QED
    BY <1>7, <1>9, <2>1, <2>2
<1> QED
  BY <1>1, <1>6, <1>8, <1>9 DEF Moves

\* The recursion of DATADB is bounded: DirCopy() and delete_dir() call themselves no
\* deeper than the paths the calls so far can have made, whatever is copied where.
THEOREM RecursionBounded ==
  ASSUME IsFiniteSet(Names)
  PROVE  Spec => [](Len(stack) <= MaxStack)
<1>1. Control /\ FilesOK /\ DepthInv => Len(stack) <= MaxStack
  BY StackBound
<1>2. Spec => []DepthInv
  BY DepthHolds
<1> QED
  BY <1>1, <1>2, InvHolds, PTL

\* No call of DATADB goes on for ever, whatever fails: each of its steps leaves fewer
\* labels, entries, components and buffers to the frames of the stack, in an order in
\* which nothing becomes fewer for ever.
THEOREM CallsAreFinite ==
  ASSUME IsFiniteSet(Names)
  PROVE  /\ IsWellFoundedOn(Fewer, [1..MaxStack -> Nat])
         /\ Spec => [][stack # <<>> /\ stack' # <<>> =>
                         Left \in [1..MaxStack -> Nat] /\ <<Left', Left>> \in Fewer]_vars
<1>1. Control /\ FilesOK /\ DepthInv => Counted
  BY PartsLeft, StackBound, LeftIs DEF Counted
<1>2. Control /\ FilesOK /\ DepthInv /\ Counted /\ Counted' /\ [Next]_vars
        => [stack # <<>> /\ stack' # <<>> =>
              Left \in [1..MaxStack -> Nat] /\ <<Left', Left>> \in Fewer]_vars
  BY LessLeft DEF Next, Call, Counted
<1>3. Spec => []DepthInv
  BY DepthHolds
<1>4. Spec => [][stack # <<>> /\ stack' # <<>> =>
                   Left \in [1..MaxStack -> Nat] /\ <<Left', Left>> \in Fewer]_vars
  BY <1>1, <1>2, <1>3, InvHolds, PTL DEF Spec
<1> QED
  BY <1>4, FewerEnds
=============================================================================
