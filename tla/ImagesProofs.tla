----------------------------- MODULE ImagesProofs -----------------------------
(***************************************************************************)
(* Proofs about Images, whatever fails, for pictures of every size whose   *)
(* lines fit an int at 4 bytes a pixel, whether or not their bytes fit the *)
(* 32 bits their number is kept in.                                        *)
(***************************************************************************)
EXTENDS Images, SequenceTheorems, FunctionTheorems, FiniteSetTheorems, TLAPS

-----------------------------------------------------------------------------
(* malloc() and free().                                                     *)

\* What malloc() gives was free before, and the other blocks stay.
LEMMA MallocIs ==
  ASSUME NEW h, DOMAIN h \subseteq Blocks, DOMAIN h # Blocks, NEW x
  PROVE  /\ Fresh(h) \in Blocks \ DOMAIN h
         /\ DOMAIN Malloc(h, x) = DOMAIN h \cup {Fresh(h)}
         /\ Malloc(h, x)[Fresh(h)] = x
         /\ \A b \in DOMAIN h : Malloc(h, x)[b] = h[b]
<1>1. PICK S \in SUBSET (1..4) : S = Blocks \ DOMAIN h /\ S # {}
  BY DEF Blocks
<1>2. \E m \in S : \A y \in S : m <= y
  <2>1. \A y \in S : y = 1 \/ y = 2 \/ y = 3 \/ y = 4
    OBVIOUS
  <2>2. CASE 1 \in S
    BY <2>1, <2>2
  <2>3. CASE 1 \notin S /\ 2 \in S
    BY <2>1, <2>3
  <2>4. CASE 1 \notin S /\ 2 \notin S /\ 3 \in S
    BY <2>1, <2>4
  <2>5. CASE 1 \notin S /\ 2 \notin S /\ 3 \notin S
    BY <1>1, <2>1, <2>5
  <2> QED
    BY <2>2, <2>3, <2>4, <2>5
<1>3. Min(S) \in S
  BY <1>2 DEF Min
<1>4. Fresh(h) \in Blocks \ DOMAIN h
  BY <1>1, <1>3 DEF Fresh
<1> QED
  BY <1>4 DEF Malloc

\* A freed block is gone, and the others stay; free(NULL) does nothing.
LEMMA FreeIs ==
  ASSUME NEW h, NEW b
  PROVE  /\ DOMAIN Free(h, b) = DOMAIN h \ {b}
         /\ \A c \in DOMAIN h \ {b} : Free(h, b)[c] = h[c]
  BY DEF Free, Restrict

\* So a block that is not freed stays as it is.
LEMMA BlockStays ==
  ASSUME NEW h, NEW b \in DOMAIN h
  PROVE  /\ \A c : c # b => Free(h, c)[b] = h[b]
         /\ DOMAIN h \subseteq Blocks /\ DOMAIN h # Blocks =>
              /\ \A x : Malloc(h, x)[b] = h[b]
              /\ \A x, c : c # b => Free(Malloc(h, x), c)[b] = h[b]
<1>1. \A c : c # b => Free(h, c)[b] = h[b]
  BY FreeIs
<1>2. ASSUME DOMAIN h \subseteq Blocks, DOMAIN h # Blocks, NEW x
          PROVE  Malloc(h, x)[b] = h[b] /\ b \in DOMAIN Malloc(h, x)
  <2>1. DOMAIN Malloc(h, x) = DOMAIN h \cup {Fresh(h)} /\ \A a \in DOMAIN h : Malloc(h, x)[a] = h[a]
    BY <1>2, MallocIs, Zenon
  <2> QED
    BY <2>1
<1>3. ASSUME DOMAIN h \subseteq Blocks, DOMAIN h # Blocks, NEW x, NEW c, c # b
      PROVE  Free(Malloc(h, x), c)[b] = h[b]
  <2>1. PICK m : m = Malloc(h, x)
    OBVIOUS
  <2>2. b \in DOMAIN m \ {c} /\ m[b] = h[b]
    BY <1>2, <1>3, <2>1
  <2> QED
    BY <2>1, <2>2, FreeIs
<1> QED
  BY <1>1, <1>2, <1>3

\* A block that is given back at once leaves the others as they were.
LEMMA GivenBack ==
  ASSUME NEW h, DOMAIN h \subseteq Blocks, DOMAIN h # Blocks, NEW x
  PROVE  /\ DOMAIN Free(Malloc(h, x), Fresh(h)) = DOMAIN h
         /\ \A b \in DOMAIN h : Free(Malloc(h, x), Fresh(h))[b] = h[b]
<1>1. /\ Fresh(h) \in Blocks \ DOMAIN h /\ DOMAIN Malloc(h, x) = DOMAIN h \cup {Fresh(h)}
      /\ \A b \in DOMAIN h : Malloc(h, x)[b] = h[b]
  BY MallocIs, Zenon
<1>2. PICK m, k : m = Malloc(h, x) /\ k = Fresh(h)
  OBVIOUS
<1>3. PICK f : f = Free(m, k)
  OBVIOUS
<1>4. DOMAIN f = DOMAIN m \ {k} /\ \A b \in DOMAIN m \ {k} : f[b] = m[b]
  BY <1>3, FreeIs, Zenon
<1>5. k \notin DOMAIN h /\ DOMAIN m = DOMAIN h \cup {k} /\ \A b \in DOMAIN h : m[b] = h[b]
  BY <1>1, <1>2
<1>6. DOMAIN f = DOMAIN h /\ \A b \in DOMAIN h : f[b] = h[b]
  BY <1>4, <1>5
<1> QED
  BY <1>2, <1>3, <1>6

\* What colorSpace2RGB() may leave: only the block it was given changes, or is
\* replaced by another one, and if it fails nothing changes.
LEMMA ConversionsAre ==
  ASSUME NEW h, DOMAIN h \subseteq Blocks, DOMAIN h # Blocks, NEW b \in DOMAIN h,
         NEW n, NEW type, NEW r \in Conversions(h, b, n, type)
  PROVE  /\ r.buffer \in Blocks /\ (r.buffer = b \/ r.buffer \notin DOMAIN h)
         /\ DOMAIN r.heap = (DOMAIN h \ {b}) \cup {r.buffer}
         /\ \A c \in DOMAIN h \ {b} : r.heap[c] = h[c]
         /\ \/ r.ret = "failure" /\ r.heap = h /\ r.buffer = b /\ r.length = n
            \/ /\ r.ret = "success" /\ type \in MAP_COLOR_SPACE /\ r.length = NewLength(n, type)
               /\ r.heap[r.buffer] = Converted(h[b], n, type)
               /\ ~Allocates(type) => r.buffer = b
<1>1. CASE r = [ret |-> "failure", heap |-> h, buffer |-> b, length |-> n]
  BY <1>1
<1>2. CASE /\ type \in MAP_COLOR_SPACE /\ Allocates(type)
           /\ r = [ret |-> "success", heap |-> Free(Malloc(h, Converted(h[b], n, type)), b),
                   buffer |-> Fresh(h), length |-> NewLength(n, type)]
  <2>1. PICK x : x = Converted(h[b], n, type)
    OBVIOUS
  <2>2. PICK m, k : m = Malloc(h, x) /\ k = Fresh(h)
    OBVIOUS
  <2>3. /\ k \in Blocks \ DOMAIN h /\ DOMAIN m = DOMAIN h \cup {k} /\ m[k] = x
        /\ \A c \in DOMAIN h : m[c] = h[c]
    BY <2>2, MallocIs
  <2>4. PICK f : f = Free(m, b)
    OBVIOUS
  <2>5. DOMAIN f = DOMAIN m \ {b} /\ \A c \in DOMAIN m \ {b} : f[c] = m[c]
    BY <2>4, FreeIs
  <2>6. r.ret = "success" /\ r.heap = f /\ r.buffer = k /\ r.length = NewLength(n, type)
    BY <1>2, <2>1, <2>2, <2>4
  <2> QED
    BY <1>2, <2>1, <2>3, <2>5, <2>6
<1>3. CASE /\ type \in MAP_COLOR_SPACE /\ ~Allocates(type)
           /\ r = [ret |-> "success", heap |-> [h EXCEPT ![b] = Converted(@, n, type)],
                   buffer |-> b, length |-> NewLength(n, type)]
  BY <1>3
<1> QED
  BY <1>1, <1>2, <1>3 DEF Conversions

-----------------------------------------------------------------------------
(* Who holds which block.                                                   *)

HoldsRgb == rgb # NULL /\ dangling = FALSE

\* Every block has one owner, and torgb and the BMPMAP_FILE's buffer are not
\* held at once, so that there is a block left for who may need one.
Owned ==
  /\ rgb \in Blocks \cup {NULL} /\ torgb \in Blocks \cup {NULL}
  /\ bmpBuffer \in Blocks \cup {NULL} /\ (dangling = TRUE \/ dangling = FALSE)
  /\ \A b : b \in DOMAIN heap <=>
            b # NULL /\ ((HoldsRgb /\ b = rgb) \/ b = torgb \/ b = bmpBuffer)
  /\ HoldsRgb => rgb # torgb /\ rgb # bmpBuffer
  /\ torgb = NULL \/ bmpBuffer = NULL

InLibjpeg == pc \in {"read", "read_lines", "write", "write_lines"}

\* A file and an object of libjpeg exist during a call of JPEGMANAGE only, and the
\* buffer of a picture is allocated once its header is read.
InCall ==
  /\ pc \in {"idle", "crashed", "astray"} \/ InLibjpeg
  /\ files = 0 \/ files = 1
  /\ codec = TRUE \/ codec = FALSE
  /\ pc = "idle" => files = 0 /\ codec = FALSE
  /\ InLibjpeg => files = 1
  /\ pc = "read" => rgb = NULL /\ dangling = FALSE
  /\ pc = "read_lines" => rgb # NULL /\ dangling = FALSE

Headers == [size : (Nat \ {0}) \X Int, bits : Uninitialised \cup {24}, sizeImage : Nat]

Typed ==
  /\ format \in DOMAIN Channels /\ length \in Int
  /\ size \in Sizes \cup {Unset} /\ tosize \in Sizes \cup {Unset}
  /\ bi \in Headers
  /\ ret \in {"none", "success", "failure"}

\* Sizes are positive.
LEMMA SizesAre ==
  /\ \A s \in Sizes \cup {Unset, DefaultSize} :
       /\ s = <<s[1], s[2]>> /\ s[1] \in Nat /\ s[1] > 0 /\ s[2] \in Nat /\ s[2] > 0
       /\ Pixels(s) \in Nat /\ Pixels(s) > 0
  /\ Uninitialised \subseteq Nat /\ Slack \subseteq -2..2
<1>1. ASSUME NEW s \in Sizes \cup {Unset, DefaultSize}
      PROVE  /\ s = <<s[1], s[2]>> /\ s[1] \in Nat /\ s[1] > 0 /\ s[2] \in Nat /\ s[2] > 0
             /\ Pixels(s) \in Nat /\ Pixels(s) > 0
  <2>1. s \in (Nat \ {0}) \X (Nat \ {0})
    BY ImagesAssumption DEF Unset
  <2>2. \A a, b \in Nat \ {0} : a * b \in Nat /\ a * b > 0
    OBVIOUS
  <2> QED
    BY <2>1, <2>2 DEF Pixels
<1> QED
  BY <1>1, ImagesAssumption

\* What 32 bits hold of a number is no more than the number.
LEMMA CutIs ==
  ASSUME NEW n \in Nat
  PROVE  /\ S32(n) \in Int /\ S32(n) <= n
         /\ U32(n) \in Nat /\ U32(n) <= n /\ (n < 2 * IntLimit => U32(n) = n)
<1>1. PICK m \in Nat \ {0} : m = 2 * IntLimit
  BY ImagesAssumption
<1>2. \A x \in Nat : x % m \in Nat /\ x % m <= x /\ (x < m => x % m = x)
  OBVIOUS
<1>3. PICK l \in Nat : l = IntLimit
  BY ImagesAssumption
<1>4. n + l \in Nat
  OBVIOUS
<1> QED
  BY <1>1, <1>2, <1>3, <1>4 DEF S32, U32

\* A format has three bytes a pixel or four, or one.
LEMMA ChannelsAre ==
  /\ Len(Channels["RGB24"]) = 3 /\ Len(Channels["BGR24"]) = 3
  /\ Len(Channels["RGBA32"]) = 4 /\ Len(Channels["BGRA32"]) = 4
  /\ Len(Channels["GRAY"]) = 1 /\ Len(Channels["CMYK"]) = 4
  /\ DOMAIN Channels = {"RGB24", "BGR24", "RGBA32", "BGRA32", "GRAY", "CMYK"}
  BY DEF Channels

-----------------------------------------------------------------------------
(* Each step keeps the owners.                                              *)

LEMMA OwnedInitially == Init => Owned /\ InCall /\ Typed
<1> SUFFICES ASSUME Init PROVE Owned /\ InCall /\ Typed
  OBVIOUS
<1>1. DOMAIN heap = {}
  BY DEF Init
<1>2. bi \in Headers
  <2>1. Unset \in (Nat \ {0}) \X Int
    BY DEF Unset
  <2> QED
    BY <2>1 DEF Init, Headers
<1> QED
  BY <1>1, <1>2, ChannelsAre DEF Init, Owned, InCall, InLibjpeg, Typed, HoldsRgb, NULL

\* The steps that leave blocks and pointers alone.
LEMMA OwnedStays ==
  ASSUME Owned, UNCHANGED <<heap, rgb, torgb, bmpBuffer, dangling>>
  PROVE  Owned'
  BY DEF Owned, HoldsRgb

\* So do those that only change what is in the blocks.
LEMMA OwnedSame ==
  ASSUME Owned, DOMAIN heap' = DOMAIN heap, UNCHANGED <<rgb, torgb, bmpBuffer, dangling>>
  PROVE  Owned'
  BY DEF Owned, HoldsRgb

\* A block is always left for who needs one, and beside that another.
LEMMA BlocksLeft ==
  ASSUME Owned
  PROVE  /\ DOMAIN heap \subseteq Blocks /\ DOMAIN heap # Blocks
         /\ \A k : DOMAIN heap \cup {k} # Blocks
  BY DEF Owned, Blocks, NULL

\* createBmpMap() gives the block back that it assembles the file in.
LEMMA BmpMapped ==
  ASSUME Owned, createBmpMap
  PROVE  DOMAIN heap' = DOMAIN heap /\ \A b \in DOMAIN heap : heap'[b] = heap[b]
<1>1. heap' = heap \/ \E x : heap' = Free(Malloc(heap, x), Fresh(heap))
  BY DEF createBmpMap
<1>2. ASSUME NEW x, heap' = Free(Malloc(heap, x), Fresh(heap))
      PROVE  DOMAIN heap' = DOMAIN heap /\ \A b \in DOMAIN heap : heap'[b] = heap[b]
  BY <1>2, BlocksLeft, GivenBack
<1> QED
  BY <1>1, <1>2

\* fillBitMapBuffer() gives its copy back, or keeps it, converted, in place of the
\* buffer from before.
LEMMA BufferFilled ==
  ASSUME Owned, fillBitMapBuffer
  PROVE  /\ \A b \in DOMAIN heap \ {bmpBuffer} : heap'[b] = heap[b]
         /\ \/ /\ DOMAIN heap' = DOMAIN heap /\ bmpBuffer' = bmpBuffer
               /\ \A b \in DOMAIN heap : heap'[b] = heap[b]
            \/ /\ bmpBuffer' \in Blocks \ DOMAIN heap
               /\ DOMAIN heap' = (DOMAIN heap \ {bmpBuffer}) \cup {bmpBuffer'}
               /\ format \in MAP_COLOR_SPACE
               /\ heap'[bmpBuffer'] =
                    Converted(Converted(SubSeq(heap[rgb], 1, length), length, format),
                              NewLength(length, format), "BGR24")
<1>1. CASE heap' = heap /\ bmpBuffer' = bmpBuffer
  BY <1>1
<1>2. CASE ~(heap' = heap /\ bmpBuffer' = bmpBuffer)
  <2>1. PICK k, x, c : k = Fresh(heap) /\ x = SubSeq(heap[rgb], 1, length) /\ c = Malloc(heap, x)
    OBVIOUS
  <2>2. /\ k \in Blocks \ DOMAIN heap /\ DOMAIN c = DOMAIN heap \cup {k} /\ c[k] = x
        /\ \A b \in DOMAIN heap : c[b] = heap[b]
    <3>1. /\ Fresh(heap) \in Blocks \ DOMAIN heap
          /\ DOMAIN Malloc(heap, x) = DOMAIN heap \cup {Fresh(heap)}
          /\ Malloc(heap, x)[Fresh(heap)] = x
          /\ \A b \in DOMAIN heap : Malloc(heap, x)[b] = heap[b]
      BY BlocksLeft, MallocIs, Zenon
    <3> QED
      BY <2>1, <3>1
  <2>3. DOMAIN c \subseteq Blocks /\ DOMAIN c # Blocks /\ k \in DOMAIN c
    BY <2>2, BlocksLeft
  <2>4. PICK r \in Conversions(c, k, length, format) :
          \/ r.ret = "failure" /\ heap' = Free(r.heap, r.buffer) /\ bmpBuffer' = bmpBuffer
          \/ /\ r.ret = "success"
             /\ \E g \in Conversions(r.heap, r.buffer, r.length, "BGR24") :
                  heap' = Free(g.heap, bmpBuffer) /\ bmpBuffer' = g.buffer
    BY <1>2, <2>1 DEF fillBitMapBuffer, Replaced, bmp
  <2>5. /\ r.buffer \in Blocks /\ (r.buffer = k \/ r.buffer \notin DOMAIN c)
        /\ DOMAIN r.heap = (DOMAIN c \ {k}) \cup {r.buffer}
        /\ \A b \in DOMAIN c \ {k} : r.heap[b] = c[b]
        /\ r.ret = "failure" => r.buffer = k
        /\ r.ret = "success" => /\ format \in MAP_COLOR_SPACE /\ r.length = NewLength(length, format)
                               /\ r.heap[r.buffer] = Converted(x, length, format)
    BY <2>2, <2>3, ConversionsAre
  <2>6. /\ r.buffer \notin DOMAIN heap /\ DOMAIN r.heap = DOMAIN heap \cup {r.buffer}
        /\ \A b \in DOMAIN heap : r.heap[b] = heap[b]
    BY <2>2, <2>5
  <2>7. CASE r.ret = "failure" /\ heap' = Free(r.heap, r.buffer) /\ bmpBuffer' = bmpBuffer
    <3>1. /\ DOMAIN heap' = DOMAIN r.heap \ {r.buffer}
          /\ \A b \in DOMAIN r.heap \ {r.buffer} : heap'[b] = r.heap[b]
      BY <2>7, FreeIs
    <3> QED
      BY <2>6, <2>7, <3>1
  <2>8. CASE r.ret = "success"
    <3>1. PICK g \in Conversions(r.heap, r.buffer, r.length, "BGR24") :
            heap' = Free(g.heap, bmpBuffer) /\ bmpBuffer' = g.buffer
      BY <2>4, <2>8
    <3>2. DOMAIN r.heap \subseteq Blocks /\ DOMAIN r.heap # Blocks /\ r.buffer \in DOMAIN r.heap
      BY <2>5, <2>6, BlocksLeft
    <3>3. /\ g.buffer = r.buffer /\ DOMAIN g.heap = DOMAIN r.heap
          /\ \A b \in DOMAIN r.heap \ {r.buffer} : g.heap[b] = r.heap[b]
          /\ g.heap[g.buffer] = Converted(r.heap[r.buffer], r.length, "BGR24")
      <4>1. ~Allocates("BGR24") /\ g.ret # "failure"
        BY DEF Allocates, Conversions
      <4>2. PICK h, b, n : h = r.heap /\ b = r.buffer /\ n = r.length
        OBVIOUS
      <4>3. DOMAIN h \subseteq Blocks /\ DOMAIN h # Blocks /\ b \in DOMAIN h
            /\ g \in Conversions(h, b, n, "BGR24")
        BY <3>2, <4>2
      <4>4. /\ g.buffer = b /\ DOMAIN g.heap = (DOMAIN h \ {b}) \cup {b}
            /\ \A c1 \in DOMAIN h \ {b} : g.heap[c1] = h[c1]
            /\ g.heap[g.buffer] = Converted(h[b], n, "BGR24")
        BY <4>1, <4>3, ConversionsAre
      <4> QED
        BY <4>2, <4>3, <4>4
    <3>4. /\ DOMAIN heap' = DOMAIN g.heap \ {bmpBuffer}
          /\ \A b \in DOMAIN g.heap \ {bmpBuffer} : heap'[b] = g.heap[b]
      BY <3>1, FreeIs
    <3>5. g.buffer # bmpBuffer
      BY <2>5, <2>6, <3>3 DEF Owned, Blocks, NULL
    <3> QED
      BY <2>1, <2>5, <2>6, <2>8, <3>1, <3>3, <3>4, <3>5
  <2> QED
    BY <2>4, <2>7, <2>8
<1> QED
  BY <1>1, <1>2

LEMMA OwnedKept ==
  ASSUME Owned, InCall, [Next]_vars
  PROVE  Owned'
<1> USE DEF HoldsRgb, NULL, Blocks
<1>1. CASE Load
  <2>1. PICK x : heap' = Malloc(heap, x)
    BY <1>1 DEF Load
  <2>2. /\ rgb = NULL \/ dangling
        /\ rgb' = Fresh(heap) /\ dangling' = FALSE /\ torgb' = torgb /\ bmpBuffer' = bmpBuffer
    BY <1>1 DEF Load, HasRgb, scaled, bmp
  <2>3. DOMAIN heap \subseteq Blocks /\ DOMAIN heap # Blocks
    BY <2>2 DEF Owned
  <2>4. PICK k \in Blocks \ DOMAIN heap : k = Fresh(heap) /\ DOMAIN heap' = DOMAIN heap \cup {k}
    BY <2>1, <2>3, MallocIs
  <2>5. rgb' = k /\ k \in 1..4 /\ k # 0
    BY <2>2, <2>4
  <2> QED
    BY <2>2, <2>4, <2>5 DEF Owned
<1>2. CASE FreeRgb
  <2>1. /\ rgb # NULL /\ dangling = FALSE /\ heap' = Free(heap, rgb) /\ rgb' = NULL
        /\ dangling' = dangling /\ torgb' = torgb /\ bmpBuffer' = bmpBuffer
    BY <1>2 DEF FreeRgb, HasRgb, scaled, bmp, Owned
  <2>2. DOMAIN heap' = DOMAIN heap \ {rgb}
    BY <2>1, FreeIs
  <2> QED
    BY <2>1, <2>2 DEF Owned
<1>3. CASE FreeTorgb
  <2>1. /\ torgb # NULL /\ heap' = Free(heap, torgb) /\ torgb' = NULL
        /\ dangling' = dangling /\ rgb' = rgb /\ bmpBuffer' = bmpBuffer
    BY <1>3 DEF FreeTorgb, picture, bmp
  <2>2. DOMAIN heap' = DOMAIN heap \ {torgb}
    BY <2>1, FreeIs
  <2> QED
    BY <2>1, <2>2 DEF Owned
<1>4. CASE Restart
  <2>1. DOMAIN heap' = {}
    BY <1>4 DEF Restart
  <2> QED
    BY <1>4, <2>1 DEF Restart, Owned
<1>5. CASE OpenRead
  BY <1>5 DEF OpenRead, HasRgb, scaled, bmp, Owned
<1>6. CASE ReadHeader
  <2>1. /\ rgb = NULL /\ dangling = FALSE /\ dangling' = FALSE /\ torgb' = torgb
        /\ bmpBuffer' = bmpBuffer
    BY <1>6 DEF ReadHeader, InCall, scaled, bmp
  <2>2. CASE heap' = heap /\ rgb' = rgb
    BY <2>1, <2>2, OwnedStays
  <2>3. CASE rgb' = Fresh(heap) /\ \E x : heap' = Malloc(heap, x)
    <3>1. DOMAIN heap \subseteq Blocks /\ DOMAIN heap # Blocks
      BY <2>1 DEF Owned
    <3>2. PICK k \in Blocks \ DOMAIN heap : k = Fresh(heap) /\ DOMAIN heap' = DOMAIN heap \cup {k}
      BY <2>3, <3>1, MallocIs
    <3>3. rgb' = k /\ k \in 1..4 /\ k # 0
      BY <2>3, <3>2
    <3> QED
      BY <2>1, <3>2, <3>3 DEF Owned
  <2> QED
    BY <1>6, <2>2, <2>3 DEF ReadHeader
<1>7. CASE ReadLine
  <2>1. DOMAIN heap' = DOMAIN heap
    BY <1>7 DEF ReadLine
  <2> QED
    BY <1>7, <2>1, OwnedSame DEF ReadLine, picture, scaled, bmp
<1>8. CASE Finish \/ OpenWrite \/ StartWrite \/ WriteLine
  BY <1>8, OwnedStays DEF Finish, OpenWrite, StartWrite, WriteLine, picture, scaled, bmp
<1>9. CASE ErrorExit
  <2>1. rgb' = rgb /\ torgb' = torgb /\ bmpBuffer' = bmpBuffer
    BY <1>9 DEF ErrorExit, scaled, bmp
  <2>2. CASE UNCHANGED <<heap, dangling>>
    BY <2>1, <2>2, OwnedStays
  <2>3. CASE heap' = Free(heap, rgb) /\ dangling' = TRUE /\ rgb # NULL /\ pc \in {"read", "read_lines"}
    <3>1. DOMAIN heap' = DOMAIN heap \ {rgb} /\ dangling = FALSE
      BY <2>3, FreeIs DEF InCall
    <3> QED
      BY <2>1, <2>3, <3>1 DEF Owned
  <2> QED
    BY <1>9, <2>2, <2>3 DEF ErrorExit, Freed
<1>10. CASE Magnify
  <2>1. /\ torgb = NULL /\ bmpBuffer = NULL /\ dangling = FALSE /\ rgb' = rgb
        /\ dangling' = dangling /\ bmpBuffer' = bmpBuffer
    BY <1>10 DEF Magnify, NoBmp, picture, bmp, Owned
  <2>2. CASE heap' = heap /\ torgb' = torgb
    BY <2>1, <2>2, OwnedStays
  <2>3. CASE torgb' = Fresh(heap) /\ \E x : heap' = Malloc(heap, x)
    <3>1. DOMAIN heap \subseteq Blocks /\ DOMAIN heap # Blocks
      BY <2>1 DEF Owned
    <3>2. PICK k \in Blocks \ DOMAIN heap : k = Fresh(heap) /\ DOMAIN heap' = DOMAIN heap \cup {k}
      BY <2>3, <3>1, MallocIs
    <3>3. torgb' = k /\ k \in 1..4 /\ k # 0
      BY <2>3, <3>2
    <3> QED
      BY <2>1, <3>2, <3>3 DEF Owned
  <2> QED
    BY <1>10, <2>2, <2>3 DEF Magnify, scaled
<1>11. CASE ColorSpace2RGB
  <2>1. /\ rgb # NULL /\ dangling = FALSE /\ dangling' = dangling /\ torgb' = torgb
        /\ bmpBuffer' = bmpBuffer
    BY <1>11 DEF ColorSpace2RGB, HasRgb, scaled, bmp, Owned
  <2>2. rgb \in DOMAIN heap
    BY <2>1 DEF Owned
  <2>3. PICK r \in Conversions(heap, rgb, length, format) : heap' = r.heap /\ rgb' = r.buffer
    BY <1>11 DEF ColorSpace2RGB
  <2>4. /\ r.buffer \in Blocks /\ (r.buffer = rgb \/ r.buffer \notin DOMAIN heap)
        /\ DOMAIN r.heap = (DOMAIN heap \ {rgb}) \cup {r.buffer}
    BY <2>2, BlocksLeft, ConversionsAre
  <2> QED
    BY <2>1, <2>2, <2>3, <2>4 DEF Owned
<1>12. CASE fillDefaultBitMapInfoHeader \/ setBitMapSize \/ createBmpMap
  <2>1. DOMAIN heap' = DOMAIN heap
    BY <1>12, BmpMapped DEF fillDefaultBitMapInfoHeader, setBitMapSize
  <2> QED
    BY <1>12, <2>1, OwnedSame DEF fillDefaultBitMapInfoHeader, setBitMapSize, createBmpMap, picture, scaled
<1>13. CASE fillBitMapBuffer
  <2>1. /\ rgb # NULL /\ dangling = FALSE /\ torgb = NULL /\ rgb' = rgb
        /\ dangling' = dangling /\ torgb' = torgb
    BY <1>13 DEF fillBitMapBuffer, HasRgb, picture, scaled, Owned
  <2>2. CASE DOMAIN heap' = DOMAIN heap /\ bmpBuffer' = bmpBuffer
    BY <2>1, <2>2, OwnedSame
  <2>3. CASE /\ bmpBuffer' \in Blocks \ DOMAIN heap
             /\ DOMAIN heap' = (DOMAIN heap \ {bmpBuffer}) \cup {bmpBuffer'}
    BY <2>1, <2>3 DEF Owned
  <2> QED
    BY <1>13, <2>2, <2>3, BufferFilled
<1>14. CASE Discard
  <2>1. /\ heap' = Free(heap, bmpBuffer) /\ bmpBuffer' = NULL /\ rgb' = rgb
        /\ dangling' = dangling /\ torgb' = torgb
    BY <1>14 DEF Discard, picture, scaled
  <2>2. DOMAIN heap' = DOMAIN heap \ {bmpBuffer}
    BY <2>1, FreeIs
  <2> QED
    BY <2>1, <2>2 DEF Owned
<1>15. CASE UNCHANGED vars
  BY <1>15, OwnedStays DEF vars, picture, scaled, bmp
<1> QED
  BY <1>1, <1>2, <1>3, <1>4, <1>5, <1>6, <1>7, <1>8, <1>9, <1>10, <1>11, <1>12, <1>13,
     <1>14, <1>15 DEF Next, Program, Jpeg, Bmp

LEMMA InCallKept ==
  ASSUME Owned, InCall, [Next]_vars
  PROVE  InCall'
<1> USE DEF InCall, InLibjpeg
<1>1. CASE Load \/ FreeRgb \/ FreeTorgb \/ Restart
  BY <1>1 DEF Load, FreeRgb, FreeTorgb, Restart, Called, io
<1>2. CASE OpenRead
  BY <1>2 DEF OpenRead, Called, Return
<1>3. CASE ReadHeader
  <2>1. CASE pc' = "crashed"
    BY <1>3, <2>1 DEF ReadHeader
  <2>2. CASE pc' = "read_lines" /\ rgb' = Fresh(heap)
    <3>1. DOMAIN heap \subseteq Blocks /\ DOMAIN heap # Blocks
      BY <1>3 DEF ReadHeader, Owned, HoldsRgb, Blocks, NULL
    <3>2. PICK k \in Blocks : k = Fresh(heap)
      BY <3>1, MallocIs
    <3>3. rgb' # NULL
      BY <2>2, <3>2 DEF Blocks, NULL
    <3> QED
      BY <1>3, <2>2, <3>3 DEF ReadHeader
  <2> QED
    BY <1>3, <2>1, <2>2 DEF ReadHeader
<1>4. CASE ReadLine \/ StartWrite \/ WriteLine
  BY <1>4 DEF ReadLine, StartWrite, WriteLine, picture
<1>5. CASE Finish
  BY <1>5 DEF Finish, Return
<1>6. CASE ErrorExit
  BY <1>6 DEF ErrorExit, Return, Closed
<1>7. CASE OpenWrite
  BY <1>7 DEF OpenWrite, Called, Return
<1>8. CASE Magnify
  BY <1>8 DEF Magnify, Called, Return, ReturnFrom, io
<1>9. CASE ColorSpace2RGB \/ fillDefaultBitMapInfoHeader \/ setBitMapSize \/ fillBitMapBuffer \/ Discard
  BY <1>9 DEF ColorSpace2RGB, fillDefaultBitMapInfoHeader, setBitMapSize, fillBitMapBuffer,
              Discard, Called, Return, io
<1>10. CASE createBmpMap
  <2>1. pc = "idle" /\ pc' \in {"idle", "crashed", "astray"} /\ files' = files /\ codec' = codec
    BY <1>10 DEF createBmpMap, ReturnFrom, Return, io
  <2> QED
    BY <2>1
<1>11. CASE UNCHANGED vars
  BY <1>11 DEF vars, io, picture
<1> QED
  BY <1>1, <1>2, <1>3, <1>4, <1>5, <1>6, <1>7, <1>8, <1>9, <1>10, <1>11
     DEF Next, Program, Jpeg, Bmp

-----------------------------------------------------------------------------
(* Types.                                                                   *)

\* The number of bytes a conversion to three bytes a pixel leaves.
LEMMA NewLengthIs ==
  ASSUME NEW n \in Nat
  PROVE  /\ NewLength(n, "RGB24") = n
         /\ NewLength(n, "BGR24") = (n \div 3) * 3
         /\ \A type \in {"RGBA32", "BGRA32"} : NewLength(n, type) = (n \div 4) * 3
         /\ \A type \in MAP_COLOR_SPACE : NewLength(n, type) \in Nat
<1>1. NewLength(n, "RGB24") = n
  BY Zenon DEF NewLength
<1>2. NewLength(n, "BGR24") = (n \div 3) * 3
  BY Zenon DEF NewLength
<1>3. \A type \in {"RGBA32", "BGRA32"} : NewLength(n, type) = (n \div 4) * 3
  BY Zenon DEF NewLength
<1>4. (n \div 3) * 3 \in Nat /\ (n \div 4) * 3 \in Nat
  OBVIOUS
<1> QED
  BY <1>1, <1>2, <1>3, <1>4 DEF MAP_COLOR_SPACE

\* It is a number even where length is not a length.
LEMMA NewLengthTyped ==
  ASSUME NEW n \in Int, NEW type \in MAP_COLOR_SPACE
  PROVE  NewLength(n, type) \in Int
<1>1. n \in Int /\ (n \div 3) * 3 \in Int /\ (n \div 4) * 3 \in Int
  OBVIOUS
<1>2. NewLength(n, type) \in {n, (n \div 3) * 3, (n \div 4) * 3}
  BY Zenon DEF NewLength
<1> QED
  BY <1>1, <1>2

\* The length of a raw picture is not negative.
LEMMA LengthIs ==
  ASSUME NEW f \in DOMAIN Channels, NEW s \in Sizes
  PROVE  /\ Pixels(s) * Len(Channels[f]) \in Nat
         /\ f \in MAP_COLOR_SPACE => \A d \in Slack : Pixels(s) * Len(Channels[f]) + d \in Nat
<1>1. PICK n \in Nat : n = Pixels(s) /\ n > 0
  BY SizesAre
<1>2. PICK c \in {1, 3, 4} : c = Len(Channels[f]) /\ (f \in MAP_COLOR_SPACE => c # 1)
  BY ChannelsAre DEF MAP_COLOR_SPACE
<1>3. n * c \in Nat /\ (c # 1 => n * c >= 3)
  BY <1>1, <1>2
<1>4. \A d \in Slack : d \in -2..2
  BY SizesAre
<1> QED
  BY <1>1, <1>2, <1>3, <1>4

\* The members of the headers.
LEMMA HeadersAre ==
  ASSUME NEW b \in Headers
  PROVE  /\ b.size[1] \in Nat /\ b.size[1] > 0 /\ b.size[2] \in Int
         /\ b.bits \in Nat /\ Abs(b.size[2]) \in Nat
<1>1. b.size \in (Nat \ {0}) \X Int /\ b.bits \in Nat
  BY SizesAre DEF Headers
<1> QED
  BY <1>1 DEF Abs

LEMMA TypedKept ==
  ASSUME Typed, [Next]_vars
  PROVE  Typed'
<1> USE DEF Typed
<1>1. "RGB24" \in DOMAIN Channels /\ MAP_COLOR_SPACE \subseteq DOMAIN Channels
      /\ JpegFormats \subseteq DOMAIN Channels
  BY ChannelsAre DEF MAP_COLOR_SPACE, JpegFormats
<1>2. [size : {Unset}, bits : Uninitialised, sizeImage : {0}] \subseteq Headers
  <2>1. Unset \in (Nat \ {0}) \X Int
    BY DEF Unset
  <2> QED
    BY <2>1 DEF Headers
<1>3. CASE Load
  <2>1. PICK f \in MAP_COLOR_SPACE, s \in Sizes, d \in Slack :
          /\ format' = f /\ size' = s
          /\ length' = U32(Pixels(s) * Len(Channels[f]) + d)
    BY <1>3 DEF Load
  <2>2. length' \in Int
    BY <1>1, <2>1, LengthIs, CutIs
  <2> QED
    BY <1>1, <1>3, <2>1, <2>2 DEF Load, scaled, bmp
<1>4. CASE FreeRgb \/ FreeTorgb
  BY <1>1, <1>4 DEF FreeRgb, FreeTorgb, scaled, bmp, picture
<1>5. CASE Restart
  BY <1>1, <1>2, <1>5 DEF Restart
<1>6. CASE OpenRead \/ Finish \/ ErrorExit \/ OpenWrite
  BY <1>6 DEF OpenRead, Finish, ErrorExit, OpenWrite, Return, scaled, bmp, picture
<1>7. CASE ReadHeader
  <2>1. length' \in Int
    BY <1>1, <1>7, LengthIs, CutIs DEF ReadHeader
  <2> QED
    BY <1>1, <1>7, <2>1 DEF ReadHeader, scaled, bmp
<1>8. CASE ReadLine \/ StartWrite \/ WriteLine
  BY <1>8 DEF ReadLine, StartWrite, WriteLine, scaled, bmp, picture
<1>9. CASE Magnify
  <2>1. ret' \in {ret, "success", "failure"}
    <3>1. ASSUME NEW inside, NEW b, ReturnFrom(inside, IF b THEN "success" ELSE "failure")
          PROVE  ret' \in {"success", "failure"}
      BY <3>1 DEF ReturnFrom
    <3> QED
      BY <1>9, <3>1 DEF Magnify, Return
  <2> QED
    BY <1>9, <2>1 DEF Magnify, picture, bmp, scaled
<1>10. CASE ColorSpace2RGB
  <2>1. PICK r \in Conversions(heap, rgb, length, format) :
          /\ length' = r.length /\ format' \in {format, "RGB24"} /\ ret' = r.ret
    BY <1>10 DEF ColorSpace2RGB, Return
  <2>2. \/ r.length = length /\ r.ret = "failure"
        \/ format \in MAP_COLOR_SPACE /\ r.length = NewLength(length, format) /\ r.ret = "success"
    BY DEF Conversions
  <2>3. length' \in Int
    BY <2>1, <2>2, NewLengthTyped
  <2> QED
    BY <1>1, <1>10, <2>1, <2>2, <2>3 DEF ColorSpace2RGB, scaled, bmp
<1>11. CASE fillDefaultBitMapInfoHeader
  <2>1. DefaultSize \in (Nat \ {0}) \X Int
    BY SizesAre
  <2>2. [size |-> DefaultSize, bits |-> 24, sizeImage |-> 0] \in Headers
    BY <2>1 DEF Headers
  <2> QED
    BY <1>11, <2>2 DEF fillDefaultBitMapInfoHeader, Return, scaled, picture
<1>12. CASE setBitMapSize
  <2>1. ASSUME NEW s \in Sizes
        PROVE  [bi EXCEPT !.size = <<s[1], -s[2]>>] \in Headers
    <3>1. <<s[1], -s[2]>> \in (Nat \ {0}) \X Int
      BY SizesAre
    <3> QED
      BY <3>1 DEF Headers
  <2> QED
    BY <1>12, <2>1 DEF setBitMapSize, Return, scaled, picture
<1>13. CASE fillBitMapBuffer
  <2>1. [bi EXCEPT !.sizeImage = 0] \in Headers
    BY DEF Headers
  <2> QED
    BY <1>13, <2>1 DEF fillBitMapBuffer, Return, scaled, picture, bmp
<1>14. CASE createBmpMap
  <2>1. PICK w \in Nat, b \in Nat, a \in Nat : w = bi.size[1] /\ b = bi.bits /\ a = Abs(bi.size[2])
    BY HeadersAre
  <2>2. DataSizePerLine \in Nat
    <3>1. w * b \in Nat
      BY <2>1
    <3>2. PICK m \in Nat : m = w * b + 31
      BY <3>1
    <3>3. ((m \div 8) \div 4) * 4 \in Nat
      OBVIOUS
    <3> QED
      BY <2>1, <3>2, <3>3 DEF DataSizePerLine
  <2>3. U32(DataSizePerLine * a) \in Nat
    <3>1. DataSizePerLine * a \in Nat
      BY <2>2
    <3> QED
      BY <3>1, CutIs
  <2>4. [bi EXCEPT !.sizeImage = U32(DataSizePerLine * a)] \in Headers
    BY <2>3 DEF Headers
  <2>5. bi' = [bi EXCEPT !.sizeImage = U32(DataSizePerLine * a)] /\ ret' \in {ret, "success", "failure"}
    BY <1>14, <2>1 DEF createBmpMap, ReturnFrom, Return
  <2> QED
    BY <1>14, <2>4, <2>5 DEF createBmpMap, scaled, picture
<1>15. CASE Discard
  BY <1>2, <1>15 DEF Discard, scaled, picture
<1>16. CASE UNCHANGED vars
  BY <1>16 DEF vars, picture, scaled, bmp
<1> QED
  BY <1>3, <1>4, <1>5, <1>6, <1>7, <1>8, <1>9, <1>10, <1>11, <1>12, <1>13, <1>14, <1>15,
     <1>16 DEF Next, Program, Jpeg, Bmp

\* Who holds what, of which type.
LEMMA HoldersHold == Spec => [](Owned /\ InCall /\ Typed)
  BY OwnedInitially, OwnedKept, InCallKept, TypedKept, PTL DEF Spec

\* The variables have their types, and malloc() always finds a block to give.
THEOREM TypeCorrect == Spec => []TypeOK
<1>1. Owned /\ InCall /\ Typed => TypeOK
  <2> SUFFICES ASSUME Owned, InCall, Typed
               PROVE  TypeOK
    OBVIOUS
  <2>1. DOMAIN heap \subseteq Blocks
    BY DEF Owned, NULL
  <2>2. bi.size[1] > 0 /\ bi.bits \in Uninitialised \cup {24} /\ bi.sizeImage \in Nat
    BY HeadersAre DEF Typed, Headers
  <2>3. files \in 0..1
    BY DEF InCall
  <2> QED
    BY <2>1, <2>2, <2>3 DEF TypeOK, Owned, InCall, InLibjpeg, Typed
<1> QED
  BY <1>1, HoldersHold, PTL

\* Between two calls, whatever failed in them and wherever libjpeg left them, no
\* file is open and no libjpeg object is left, and what is allocated is what the
\* program and the BMPMAP_FILE hold, once each.
THEOREM NothingLeft == Spec => []CleanReturn
<1>1. Owned /\ InCall => CleanReturn
  <2> SUFFICES ASSUME Owned, InCall, pc = "idle"
               PROVE  LET held == {b \in {<<"rgb", rgb>>, <<"torgb", torgb>>, <<"bmp", bmpBuffer>>} :
                                    b[2] # NULL /\ (b[1] = "rgb" => ~dangling)}
                      IN /\ files = 0 /\ ~codec
                         /\ DOMAIN heap = {b[2] : b \in held}
                         /\ Cardinality(held) = Cardinality(DOMAIN heap)
    BY DEF CleanReturn
  <2> DEFINE all  == {<<"rgb", rgb>>, <<"torgb", torgb>>, <<"bmp", bmpBuffer>>}
             held == {b \in all : b[2] # NULL /\ (b[1] = "rgb" => ~dangling)}
             at   == [b \in held |-> b[2]]
  <2>1. files = 0 /\ ~codec
    BY DEF InCall
  <2>2. \A b \in held : \/ b = <<"rgb", rgb>> /\ HoldsRgb
                        \/ b = <<"torgb", torgb>> /\ torgb # NULL
                        \/ b = <<"bmp", bmpBuffer>> /\ bmpBuffer # NULL
    <3>1. TAKE b \in held
    <3>2. b[2] # NULL /\ (b[1] = "rgb" => ~dangling)
      OBVIOUS
    <3>3. CASE b = <<"rgb", rgb>>
      BY <3>2, <3>3 DEF Owned, HoldsRgb
    <3> QED
      BY <3>2, <3>3
  <2>3. /\ HoldsRgb => <<"rgb", rgb>> \in held
        /\ torgb # NULL => <<"torgb", torgb>> \in held
        /\ bmpBuffer # NULL => <<"bmp", bmpBuffer>> \in held
    <3>1. /\ <<"rgb", rgb>>[2] = rgb /\ <<"torgb", torgb>>[2] = torgb /\ <<"bmp", bmpBuffer>>[2] = bmpBuffer
          /\ <<"torgb", torgb>>[1] # "rgb" /\ <<"bmp", bmpBuffer>>[1] # "rgb"
      OBVIOUS
    <3>2. HoldsRgb => rgb # NULL /\ ~dangling
      BY DEF HoldsRgb
    <3> QED
      BY <3>1, <3>2, Zenon
  <2>4. DOMAIN heap = {b[2] : b \in held}
    <3>1. ASSUME NEW x \in DOMAIN heap
          PROVE  \E b \in held : x = b[2]
      BY <2>3 DEF Owned
    <3>2. ASSUME NEW b \in held
          PROVE  b[2] \in DOMAIN heap
      BY <2>2 DEF Owned, HoldsRgb
    <3> QED
      BY <3>1, <3>2
  <2>5. IsFiniteSet(held)
    <3>1. all = (({} \cup {<<"rgb", rgb>>}) \cup {<<"torgb", torgb>>}) \cup {<<"bmp", bmpBuffer>>}
      OBVIOUS
    <3>2. IsFiniteSet(all)
      <4> HIDE DEF all
      <4> QED
        BY <3>1, FS_EmptySet, FS_AddElement, Zenon
    <3> QED
      BY <3>2, FS_Subset
  <2>6. at \in Bijection(held, DOMAIN heap)
    <3>1. at \in [held -> DOMAIN heap]
      BY <2>4
    <3>2. ASSUME NEW b \in held, NEW c \in held, b[2] = c[2]
          PROVE  b = c
      BY <2>2, <3>2 DEF Owned
    <3>3. \A x \in DOMAIN heap : \E b \in held : at[b] = x
      BY <2>4
    <3> QED
      BY <3>1, <3>2, <3>3, Fun_IsBij DEF Injection, Surjection
  <2>7. Cardinality(held) = Cardinality(DOMAIN heap)
    BY <2>5, <2>6, FS_Bijection DEF ExistsBijection
  <2> QED
    BY <2>1, <2>4, <2>7
<1> QED
  BY <1>1, HoldersHold, PTL

-----------------------------------------------------------------------------
(* What the blocks hold: a step changes the block it works on and no other. *)

\* The block of torgb goes or stays as it is.
KeepsTorgb ==
  torgb' = NULL \/ (torgb' = torgb /\ heap'[torgb] = heap[torgb] /\ tosize' = tosize /\ origin' = origin)

KeepsBmp == bmpBuffer' = NULL \/ (bmpBuffer' = bmpBuffer /\ heap'[bmpBuffer] = heap[bmpBuffer])

KeepsRgb ==
  /\ HoldsRgb /\ heap'[rgb] = heap[rgb]
  /\ rgb' = rgb /\ format' = format /\ length' = length /\ size' = size /\ dangling' = dangling

\* colorSpace2RGB() touches no block but the one it is given.
LEMMA OthersKept ==
  ASSUME Owned, HoldsRgb, ColorSpace2RGB
  PROVE  \A b \in DOMAIN heap \ {rgb} : heap'[b] = heap[b]
<1>1. PICK r \in Conversions(heap, rgb, length, format) : heap' = r.heap
  BY DEF ColorSpace2RGB
<1>2. rgb \in DOMAIN heap
  BY DEF Owned, HoldsRgb
<1> QED
  BY <1>1, <1>2, BlocksLeft, ConversionsAre

LEMMA TorgbStays ==
  ASSUME Owned, InCall, [Next]_vars
  PROVE  (torgb # NULL => KeepsTorgb) /\ (torgb = NULL => torgb' = NULL \/ Magnify)
<1> SUFFICES ASSUME ~Magnify \/ torgb # NULL
             PROVE  KeepsTorgb
  BY DEF KeepsTorgb
<1> USE DEF KeepsTorgb
<1>1. CASE Load \/ ReadHeader
  <2>1. torgb' = torgb /\ tosize' = tosize /\ origin' = origin
        /\ (heap' = heap \/ \E x : heap' = Malloc(heap, x))
    BY <1>1 DEF Load, ReadHeader, scaled
  <2>2. ~HoldsRgb
    BY <1>1 DEF Load, ReadHeader, HasRgb, HoldsRgb, InCall, Owned
  <2>3. DOMAIN heap \subseteq Blocks /\ DOMAIN heap # Blocks
    BY <2>2 DEF Owned, Blocks, NULL
  <2>4. torgb # NULL => torgb \in DOMAIN heap
    BY DEF Owned
  <2> QED
    BY <2>1, <2>3, <2>4, BlockStays
<1>2. CASE FreeRgb \/ Discard
  <2>1. torgb' = torgb /\ tosize' = tosize /\ origin' = origin
        /\ (heap' = Free(heap, bmpBuffer) \/ (HoldsRgb /\ heap' = Free(heap, rgb)))
    BY <1>2 DEF FreeRgb, Discard, scaled, HasRgb, HoldsRgb, Owned
  <2>2. torgb # NULL => torgb \in DOMAIN heap /\ torgb # bmpBuffer /\ (HoldsRgb => torgb # rgb)
    BY DEF Owned
  <2> QED
    BY <2>1, <2>2, BlockStays
<1>3. CASE FreeTorgb \/ Restart
  BY <1>3 DEF FreeTorgb, Restart
<1>4. CASE ReadLine
  <2>1. /\ torgb' = torgb /\ tosize' = tosize /\ origin' = origin
        /\ heap' = heap \/ \E x : heap' = [heap EXCEPT ![rgb] = x]
    BY <1>4 DEF ReadLine, scaled
  <2>2. torgb # NULL => torgb \in DOMAIN heap /\ torgb # rgb
    BY <1>4 DEF ReadLine, Owned, InCall, HoldsRgb
  <2> QED
    BY <2>1, <2>2
<1>5. CASE OpenRead \/ Finish \/ OpenWrite \/ StartWrite \/ WriteLine
  BY <1>5 DEF OpenRead, Finish, OpenWrite, StartWrite, WriteLine, scaled
<1>6. CASE ErrorExit
  <2>1. /\ torgb' = torgb /\ tosize' = tosize /\ origin' = origin
        /\ heap' = heap \/ (HoldsRgb /\ heap' = Free(heap, rgb))
    BY <1>6 DEF ErrorExit, Freed, scaled, HoldsRgb, InCall
  <2>2. torgb # NULL => torgb \in DOMAIN heap /\ (HoldsRgb => torgb # rgb)
    BY DEF Owned
  <2> QED
    BY <2>1, <2>2, BlockStays
<1>7. CASE Magnify
  BY <1>7 DEF Magnify
<1>8. CASE ColorSpace2RGB
  <2>1. torgb' = torgb /\ tosize' = tosize /\ origin' = origin /\ HoldsRgb
    BY <1>8 DEF ColorSpace2RGB, HasRgb, HoldsRgb, Owned, scaled
  <2>2. torgb # NULL => torgb \in DOMAIN heap \ {rgb}
    BY <2>1 DEF Owned
  <2>3. \A b \in DOMAIN heap \ {rgb} : heap'[b] = heap[b]
    BY <1>8, <2>1, OthersKept
  <2> QED
    BY <2>1, <2>2, <2>3
<1>9. CASE fillDefaultBitMapInfoHeader \/ setBitMapSize \/ fillBitMapBuffer \/ createBmpMap
  BY <1>9 DEF fillDefaultBitMapInfoHeader, setBitMapSize, fillBitMapBuffer, createBmpMap, scaled
<1>10. CASE UNCHANGED vars
  BY <1>10 DEF vars, scaled
<1> QED
  BY <1>1, <1>2, <1>3, <1>4, <1>5, <1>6, <1>7, <1>8, <1>9, <1>10 DEF Next, Program, Jpeg, Bmp

LEMMA BmpStays ==
  ASSUME Owned, InCall, [Next]_vars
  PROVE  KeepsBmp \/ fillBitMapBuffer
<1> SUFFICES ASSUME ~fillBitMapBuffer
             PROVE  KeepsBmp
  OBVIOUS
<1> USE DEF KeepsBmp
<1>1. CASE Load \/ ReadHeader \/ Magnify
  <2>1. bmpBuffer' = bmpBuffer /\ (heap' = heap \/ \E x : heap' = Malloc(heap, x))
    BY <1>1 DEF Load, ReadHeader, Magnify, bmp
  <2>2. ~HoldsRgb \/ (torgb = NULL /\ bmpBuffer = NULL)
    BY <1>1 DEF Load, ReadHeader, Magnify, NoBmp, HasRgb, HoldsRgb, InCall, Owned
  <2>3. DOMAIN heap \subseteq Blocks /\ DOMAIN heap # Blocks
    BY <2>2 DEF Owned, Blocks, NULL
  <2>4. bmpBuffer # NULL => bmpBuffer \in DOMAIN heap
    BY DEF Owned
  <2> QED
    BY <2>1, <2>3, <2>4, BlockStays
<1>2. CASE FreeRgb \/ FreeTorgb
  <2>1. /\ bmpBuffer' = bmpBuffer
        /\ \/ torgb # NULL /\ heap' = Free(heap, torgb)
           \/ HoldsRgb /\ heap' = Free(heap, rgb)
    BY <1>2 DEF FreeRgb, FreeTorgb, bmp, HasRgb, HoldsRgb, Owned
  <2>2. bmpBuffer # NULL => bmpBuffer \in DOMAIN heap /\ torgb # bmpBuffer /\ (HoldsRgb => bmpBuffer # rgb)
    BY DEF Owned
  <2> QED
    BY <2>1, <2>2, BlockStays
<1>3. CASE Discard \/ Restart
  BY <1>3 DEF Discard, Restart
<1>4. CASE ReadLine
  <2>1. bmpBuffer' = bmpBuffer /\ (heap' = heap \/ \E x : heap' = [heap EXCEPT ![rgb] = x])
    BY <1>4 DEF ReadLine, bmp
  <2>2. bmpBuffer # NULL => bmpBuffer \in DOMAIN heap /\ bmpBuffer # rgb
    BY <1>4 DEF ReadLine, Owned, InCall, HoldsRgb
  <2> QED
    BY <2>1, <2>2
<1>5. CASE OpenRead \/ Finish \/ OpenWrite \/ StartWrite \/ WriteLine
  BY <1>5 DEF OpenRead, Finish, OpenWrite, StartWrite, WriteLine, bmp
<1>6. CASE ErrorExit
  <2>1. /\ bmpBuffer' = bmpBuffer
        /\ heap' = heap \/ (HoldsRgb /\ heap' = Free(heap, rgb))
    BY <1>6 DEF ErrorExit, Freed, bmp, HoldsRgb, InCall
  <2>2. bmpBuffer # NULL => bmpBuffer \in DOMAIN heap /\ (HoldsRgb => bmpBuffer # rgb)
    BY DEF Owned
  <2> QED
    BY <2>1, <2>2, BlockStays
<1>7. CASE ColorSpace2RGB
  <2>1. bmpBuffer' = bmpBuffer /\ HoldsRgb
    BY <1>7 DEF ColorSpace2RGB, HasRgb, HoldsRgb, Owned, bmp
  <2>2. bmpBuffer # NULL => bmpBuffer \in DOMAIN heap \ {rgb}
    BY <2>1 DEF Owned
  <2>3. \A b \in DOMAIN heap \ {rgb} : heap'[b] = heap[b]
    BY <1>7, <2>1, OthersKept
  <2> QED
    BY <2>1, <2>2, <2>3
<1>8. CASE fillDefaultBitMapInfoHeader \/ setBitMapSize \/ createBmpMap
  <2>1. bmpBuffer # NULL => bmpBuffer \in DOMAIN heap
    BY DEF Owned
  <2> QED
    BY <1>8, <2>1, BmpMapped DEF fillDefaultBitMapInfoHeader, setBitMapSize, createBmpMap
<1>9. CASE UNCHANGED vars
  BY <1>9 DEF vars, bmp
<1> QED
  BY <1>1, <1>2, <1>3, <1>4, <1>5, <1>6, <1>7, <1>8, <1>9 DEF Next, Program, Jpeg, Bmp

LEMMA RgbStays ==
  ASSUME Owned, InCall, [Next]_vars, HoldsRgb'
  PROVE  KeepsRgb \/ Load \/ ReadHeader \/ ReadLine \/ ColorSpace2RGB
<1> SUFFICES ASSUME ~Load, ~ReadHeader, ~ReadLine, ~ColorSpace2RGB
             PROVE  KeepsRgb
  OBVIOUS
<1> USE DEF KeepsRgb
<1>1. CASE Magnify
  <2>1. UNCHANGED <<rgb, format, length, size, dangling>> /\ (heap' = heap \/ \E x : heap' = Malloc(heap, x))
    BY <1>1 DEF Magnify, picture, scaled
  <2>2. torgb = NULL /\ HoldsRgb
    BY <1>1, <2>1 DEF Magnify, HoldsRgb
  <2>3. DOMAIN heap \subseteq Blocks /\ DOMAIN heap # Blocks
    BY <2>2 DEF Owned, Blocks, NULL
  <2>4. rgb \in DOMAIN heap
    BY <2>2 DEF Owned, HoldsRgb
  <2> QED
    BY <2>1, <2>2, <2>3, <2>4, BlockStays
<1>2. CASE FreeTorgb \/ Discard
  <2>1. /\ UNCHANGED <<rgb, format, length, size, dangling>>
        /\ \/ torgb # NULL /\ heap' = Free(heap, torgb)
           \/ heap' = Free(heap, bmpBuffer)
    BY <1>2 DEF Discard, FreeTorgb, picture
  <2>2. HoldsRgb
    BY <2>1 DEF HoldsRgb
  <2>3. rgb \in DOMAIN heap /\ torgb # rgb /\ rgb # bmpBuffer
    BY <2>2 DEF Owned, HoldsRgb
  <2> QED
    BY <2>1, <2>2, <2>3, BlockStays
<1>3. CASE FreeRgb \/ Restart
  BY <1>3 DEF FreeRgb, Restart, HoldsRgb
<1>4. CASE OpenRead
  BY <1>4 DEF OpenRead, HasRgb, HoldsRgb
<1>5. CASE Finish \/ OpenWrite \/ StartWrite \/ WriteLine
  BY <1>5 DEF Finish, OpenWrite, StartWrite, WriteLine, picture, HoldsRgb
<1>6. CASE ErrorExit
  <2>1. UNCHANGED <<rgb, format, length, size>>
    BY <1>6 DEF ErrorExit
  <2>2. rgb' # NULL /\ dangling' = FALSE
    BY DEF HoldsRgb
  <2>3. heap' = heap /\ dangling' = dangling
    BY <1>6, <2>1, <2>2 DEF ErrorExit, Freed
  <2> QED
    BY <2>1, <2>2, <2>3 DEF HoldsRgb
<1>7. CASE fillBitMapBuffer
  <2>1. UNCHANGED <<rgb, format, length, size, dangling>>
    BY <1>7 DEF fillBitMapBuffer, picture
  <2>2. HoldsRgb
    BY <2>1 DEF HoldsRgb
  <2>3. rgb \in DOMAIN heap \ {bmpBuffer}
    BY <2>2 DEF Owned, HoldsRgb
  <2> QED
    BY <1>7, <2>1, <2>2, <2>3, BufferFilled
<1>8. CASE fillDefaultBitMapInfoHeader \/ setBitMapSize \/ createBmpMap
  <2>1. UNCHANGED <<rgb, format, length, size, dangling>>
    BY <1>8 DEF fillDefaultBitMapInfoHeader, setBitMapSize, createBmpMap, picture
  <2>2. HoldsRgb
    BY <2>1 DEF HoldsRgb
  <2>3. rgb \in DOMAIN heap
    BY <2>2 DEF Owned, HoldsRgb
  <2>4. heap'[rgb] = heap[rgb]
    BY <1>8, <2>3, BmpMapped DEF fillDefaultBitMapInfoHeader, setBitMapSize
  <2> QED
    BY <2>1, <2>2, <2>4
<1>9. CASE UNCHANGED vars
  BY <1>9 DEF vars, picture, HoldsRgb
<1> QED
  BY <1>1, <1>2, <1>3, <1>4, <1>5, <1>6, <1>7, <1>8, <1>9 DEF Next, Program, Jpeg, Bmp

-----------------------------------------------------------------------------
(* Bytes in their places.                                                   *)

Names == {"r", "g", "b", "a", "y", "c", "m", "k", "junk", "zero"}
Byte == Nat \X Names

\* Byte k of a picture of format f.
PixelByte(f, k) ==
  <<(k - 1) \div Len(Channels[f]), Channels[f][((k - 1) % Len(Channels[f])) + 1]>>

\* The channels, by number.
LEMMA ChannelIs ==
  /\ \A k \in Nat \ {0} :
       /\ PixelByte("RGB24", k) = <<(k - 1) \div 3, <<"r", "g", "b">>[((k - 1) % 3) + 1]>>
       /\ PixelByte("BGR24", k) = <<(k - 1) \div 3, <<"b", "g", "r">>[((k - 1) % 3) + 1]>>
       /\ PixelByte("RGBA32", k) = <<(k - 1) \div 4, <<"r", "g", "b", "a">>[((k - 1) % 4) + 1]>>
       /\ PixelByte("BGRA32", k) = <<(k - 1) \div 4, <<"b", "g", "r", "a">>[((k - 1) % 4) + 1]>>
  /\ \A f \in DOMAIN Channels, k \in Nat \ {0} : PixelByte(f, k) \in Byte
<1>1. ASSUME NEW f \in DOMAIN Channels, NEW k \in Nat \ {0}
      PROVE  PixelByte(f, k) \in Byte
  <2>1. Len(Channels[f]) \in {1, 3, 4} /\ \A j \in 1..Len(Channels[f]) : Channels[f][j] \in Names
    <3>1. /\ Channels["RGB24"] = <<"r", "g", "b">> /\ Channels["BGR24"] = <<"b", "g", "r">>
          /\ Channels["RGBA32"] = <<"r", "g", "b", "a">> /\ Channels["BGRA32"] = <<"b", "g", "r", "a">>
          /\ Channels["GRAY"] = <<"y">> /\ Channels["CMYK"] = <<"c", "m", "y", "k">>
      BY DEF Channels
    <3>2. \A n \in Nat, s \in Seq(Names) : \A j \in 1..Len(s) : s[j] \in Names
      OBVIOUS
    <3>3. Channels[f] \in Seq(Names)
      <4>1. /\ <<"r", "g", "b">> \in Seq(Names) /\ <<"b", "g", "r">> \in Seq(Names)
            /\ <<"r", "g", "b", "a">> \in Seq(Names) /\ <<"b", "g", "r", "a">> \in Seq(Names)
            /\ <<"y">> \in Seq(Names) /\ <<"c", "m", "y", "k">> \in Seq(Names)
        BY DEF Names
      <4> QED
        BY <3>1, <4>1, ChannelsAre
    <3> QED
      BY <3>2, <3>3, ChannelsAre
  <2>2. PICK c \in {1, 3, 4} : c = Len(Channels[f])
    BY <2>1
  <2>3. (k - 1) \div c \in Nat /\ ((k - 1) % c) + 1 \in 1..c
    <3>1. PICK j \in Nat : j = k - 1
      OBVIOUS
    <3>2. /\ j \div 1 \in Nat /\ (j % 1) + 1 \in 1..1
          /\ j \div 3 \in Nat /\ (j % 3) + 1 \in 1..3
          /\ j \div 4 \in Nat /\ (j % 4) + 1 \in 1..4
      OBVIOUS
    <3>3. CASE c = 1
      BY <3>1, <3>2, <3>3
    <3>4. CASE c = 3
      BY <3>1, <3>2, <3>4
    <3>5. CASE c = 4
      BY <3>1, <3>2, <3>5
    <3> QED
      BY <2>2, <3>3, <3>4, <3>5
  <2> QED
    BY <2>1, <2>2, <2>3 DEF PixelByte, Byte
<1>2. ASSUME NEW k \in Nat \ {0}
      PROVE  /\ PixelByte("RGB24", k) = <<(k - 1) \div 3, <<"r", "g", "b">>[((k - 1) % 3) + 1]>>
             /\ PixelByte("BGR24", k) = <<(k - 1) \div 3, <<"b", "g", "r">>[((k - 1) % 3) + 1]>>
             /\ PixelByte("RGBA32", k) = <<(k - 1) \div 4, <<"r", "g", "b", "a">>[((k - 1) % 4) + 1]>>
             /\ PixelByte("BGRA32", k) = <<(k - 1) \div 4, <<"b", "g", "r", "a">>[((k - 1) % 4) + 1]>>
  <2>1. /\ Channels["RGB24"] = <<"r", "g", "b">> /\ Channels["BGR24"] = <<"b", "g", "r">>
        /\ Channels["RGBA32"] = <<"r", "g", "b", "a">> /\ Channels["BGRA32"] = <<"b", "g", "r", "a">>
    BY DEF Channels
  <2> QED
    BY <2>1, ChannelsAre DEF PixelByte
<1> QED
  BY <1>1, <1>2

\* s holds the first n bytes of a picture of format f, and perhaps more.
Holds(s, f, n) ==
  /\ s \in Seq(Byte) /\ n <= Len(s)
  /\ \A k \in 1..n : s[k] = PixelByte(f, k)

\* A raw picture does.
LEMMA RawIs ==
  ASSUME NEW f \in DOMAIN Channels, NEW n \in Nat
  PROVE  /\ Holds(Raw(f, n), f, n) /\ Len(Raw(f, n)) = n
         /\ \A s : Holds(s, f, n) => SubSeq(s, 1, n) = Raw(f, n)
<1>1. PICK r : r = [k \in 1..n |-> PixelByte(f, k)]
  OBVIOUS
<1>2. r = Raw(f, n)
  BY <1>1 DEF Raw, PixelByte
<1>3. \A k \in 1..n : PixelByte(f, k) \in Byte
  BY ChannelIs
<1>4. r \in [1..n -> Byte]
  BY <1>1, <1>3
<1>5. r \in Seq(Byte) /\ Len(r) = n
  BY <1>4
<1>6. ASSUME NEW s, Holds(s, f, n)
      PROVE  SubSeq(s, 1, n) = r
  <2>1. s \in Seq(Byte) /\ n <= Len(s) /\ Len(s) \in Nat /\ \A k \in 1..n : s[k] = r[k]
    BY <1>1, <1>6 DEF Holds
  <2>2. /\ SubSeq(s, 1, n) \in Seq(Byte) /\ Len(SubSeq(s, 1, n)) = n
        /\ \A k \in 1..n : SubSeq(s, 1, n)[k] = s[k]
    BY <2>1
  <2> QED
    BY <1>5, <2>1, <2>2, SeqEqual
<1> QED
  BY <1>1, <1>2, <1>5, <1>6 DEF Holds

\* The alternatives of colorSpace2RGB().
LEMMA ConvertedIs ==
  ASSUME NEW s, NEW n
  PROVE  /\ Converted(s, n, "RGB24") = s
         /\ Converted(s, n, "BGR24") =
              [k \in DOMAIN s |->
                 IF k > (n \div 3) * 3 THEN s[k] ELSE s[k + 2 - 2 * ((k - 1) % 3)]]
         /\ Converted(s, n, "RGBA32") =
              [k \in 1..((n \div 4) * 3) |-> s[4 * ((k - 1) \div 3) + 1 + ((k - 1) % 3)]]
         /\ Converted(s, n, "BGRA32") =
              [k \in 1..((n \div 4) * 3) |-> s[4 * ((k - 1) \div 3) + 1 + (2 - ((k - 1) % 3))]]
<1>1. Converted(s, n, "RGB24") = s
  BY Zenon DEF Converted
<1>2. Converted(s, n, "BGR24") =
        [k \in DOMAIN s |->
           IF k > (n \div 3) * 3 THEN s[k] ELSE s[k + 2 - 2 * ((k - 1) % 3)]]
  BY Zenon DEF Converted
<1>3. Converted(s, n, "RGBA32") =
        [k \in 1..((n \div 4) * 3) |->
           LET c == (k - 1) % 3
           IN s[4 * ((k - 1) \div 3) + 1 + (IF "RGBA32" = "BGRA32" THEN 2 - c ELSE c)]]
  BY Zenon DEF Converted
<1>4. Converted(s, n, "BGRA32") =
        [k \in 1..((n \div 4) * 3) |->
           LET c == (k - 1) % 3
           IN s[4 * ((k - 1) \div 3) + 1 + (IF "BGRA32" = "BGRA32" THEN 2 - c ELSE c)]]
  BY Zenon DEF Converted
<1> QED
  BY <1>1, <1>2, <1>3, <1>4

\* Exchanging the first and the third byte of each pixel takes RGB to BGR and back.
LEMMA Exchanged ==
  ASSUME NEW f \in {"RGB24", "BGR24"}, NEW g \in {"RGB24", "BGR24"}, f # g,
         NEW n \in Nat, NEW s, Holds(s, f, (n \div 3) * 3)
  PROVE  Holds(Converted(s, n, "BGR24"), g, (n \div 3) * 3) /\ Len(Converted(s, n, "BGR24")) = Len(s)
<1>1. PICK m \in Nat : m = (n \div 3) * 3 /\ m % 3 = 0
  OBVIOUS
<1>2. PICK N \in Nat : N = Len(s) /\ m <= N /\ DOMAIN s = 1..N /\ \A k \in 1..N : s[k] \in Byte
  BY <1>1 DEF Holds
<1>3. PICK t : t = Converted(s, n, "BGR24")
  OBVIOUS
<1>4. t = [k \in 1..N |-> IF k > m THEN s[k] ELSE s[k + 2 - 2 * ((k - 1) % 3)]]
  <2>1. t = [k \in DOMAIN s |->
               IF k > (n \div 3) * 3 THEN s[k] ELSE s[k + 2 - 2 * ((k - 1) % 3)]]
    BY <1>3, ConvertedIs
  <2> QED
    BY <1>1, <1>2, <2>1, Zenon
<1>5. ASSUME NEW k \in 1..m
      PROVE  /\ k + 2 - 2 * ((k - 1) % 3) \in 1..m
             /\ PixelByte(f, k + 2 - 2 * ((k - 1) % 3)) = PixelByte(g, k)
  <2>1. PICK r \in 0..2 : r = (k - 1) % 3
    OBVIOUS
  <2>2. PICK j \in Nat : j = k + 2 - 2 * r /\ j \in 1..m
    BY <1>1, <2>1
  <2>3. (j - 1) % 3 = 2 - r /\ (j - 1) \div 3 = (k - 1) \div 3
    BY <2>1, <2>2
  <2>4. /\ PixelByte("RGB24", j) = <<(k - 1) \div 3, <<"r", "g", "b">>[3 - r]>>
        /\ PixelByte("BGR24", j) = <<(k - 1) \div 3, <<"b", "g", "r">>[3 - r]>>
        /\ PixelByte("RGB24", k) = <<(k - 1) \div 3, <<"r", "g", "b">>[r + 1]>>
        /\ PixelByte("BGR24", k) = <<(k - 1) \div 3, <<"b", "g", "r">>[r + 1]>>
    BY <2>1, <2>2, <2>3, ChannelIs
  <2>5. <<"r", "g", "b">>[3 - r] = <<"b", "g", "r">>[r + 1] /\ <<"b", "g", "r">>[3 - r] = <<"r", "g", "b">>[r + 1]
    BY <2>1
  <2> QED
    BY <2>1, <2>2, <2>4, <2>5
<1>6. \A k \in 1..m : t[k] = PixelByte(g, k)
  <2>1. TAKE k \in 1..m
  <2>2. t[k] = s[k + 2 - 2 * ((k - 1) % 3)]
    BY <1>2, <1>4
  <2> QED
    BY <1>1, <1>5, <2>2 DEF Holds
<1>7. t \in [1..N -> Byte]
  <2>1. ASSUME NEW k \in 1..N
        PROVE  t[k] \in Byte
    BY <1>1, <1>2, <1>4, <1>5, <2>1
  <2> QED
    BY <1>4, <2>1
<1> QED
  BY <1>1, <1>2, <1>3, <1>6, <1>7 DEF Holds

\* Of four bytes a pixel the first three are taken, in the order red, green, blue.
LEMMA ThreeTaken ==
  ASSUME NEW f \in {"RGBA32", "BGRA32"}, NEW n \in Nat, NEW s, Holds(s, f, n)
  PROVE  Holds(Converted(s, n, f), "RGB24", (n \div 4) * 3) /\ Len(Converted(s, n, f)) = (n \div 4) * 3
<1>1. PICK m \in Nat : m = (n \div 4) * 3 /\ m % 3 = 0
  OBVIOUS
<1>2. PICK t : t = Converted(s, n, f)
  OBVIOUS
<1>3. ASSUME NEW k \in 1..m
      PROVE  t[k] = PixelByte("RGB24", k) /\ t[k] \in Byte
  <2>1. PICK q \in Nat, r \in 0..2 : q = (k - 1) \div 3 /\ r = (k - 1) % 3 /\ q < n \div 4
    BY <1>1
  <2>2. \A c \in 0..2 : /\ 4 * q + 1 + c \in 1..n
                        /\ (4 * q + 1 + c - 1) \div 4 = q /\ (4 * q + 1 + c - 1) % 4 = c
    BY <2>1
  <2>3. CASE f = "RGBA32"
    <3>1. PICK j \in 1..n : j = 4 * q + 1 + r /\ (j - 1) \div 4 = q /\ (j - 1) % 4 = r
      BY <2>1, <2>2
    <3>2. t[k] = s[j]
      <4>1. t = [i \in 1..((n \div 4) * 3) |-> s[4 * ((i - 1) \div 3) + 1 + ((i - 1) % 3)]]
        BY <1>2, <2>3, ConvertedIs, Zenon
      <4> QED
        BY <1>1, <2>1, <3>1, <4>1
    <3>3. s[j] = PixelByte("RGBA32", j)
      BY <2>3, <3>1 DEF Holds
    <3>4. PixelByte("RGBA32", j) = <<q, <<"r", "g", "b", "a">>[r + 1]>>
      BY <3>1, ChannelIs
    <3>5. PixelByte("RGB24", k) = <<q, <<"r", "g", "b">>[r + 1]>> /\ PixelByte("RGB24", k) \in Byte
      BY <2>1, ChannelIs, ChannelsAre
    <3>6. <<"r", "g", "b", "a">>[r + 1] = <<"r", "g", "b">>[r + 1]
      BY <2>1
    <3> QED
      BY <3>2, <3>3, <3>4, <3>5, <3>6
  <2>4. CASE f = "BGRA32"
    <3>1. PICK j \in 1..n : j = 4 * q + 1 + (2 - r) /\ (j - 1) \div 4 = q /\ (j - 1) % 4 = 2 - r
      BY <2>1, <2>2
    <3>2. t[k] = s[j]
      <4>1. t = [i \in 1..((n \div 4) * 3) |-> s[4 * ((i - 1) \div 3) + 1 + (2 - ((i - 1) % 3))]]
        BY <1>2, <2>4, ConvertedIs, Zenon
      <4> QED
        BY <1>1, <2>1, <3>1, <4>1
    <3>3. s[j] = PixelByte("BGRA32", j)
      BY <2>4, <3>1 DEF Holds
    <3>4. PixelByte("BGRA32", j) = <<q, <<"b", "g", "r", "a">>[(2 - r) + 1]>>
      <4>1. PixelByte("BGRA32", j) = <<(j - 1) \div 4, <<"b", "g", "r", "a">>[((j - 1) % 4) + 1]>>
        BY <3>1, ChannelIs
      <4> QED
        BY <3>1, <4>1, Zenon
    <3>5. PixelByte("RGB24", k) = <<q, <<"r", "g", "b">>[r + 1]>> /\ PixelByte("RGB24", k) \in Byte
      BY <2>1, ChannelIs, ChannelsAre
    <3>6. <<"b", "g", "r", "a">>[(2 - r) + 1] = <<"r", "g", "b">>[r + 1]
      BY <2>1
    <3> QED
      BY <3>2, <3>3, <3>4, <3>5, <3>6
  <2> QED
    BY <2>3, <2>4
<1>4. t \in [1..m -> Byte]
  <2>1. DOMAIN t = 1..m /\ t = [k \in 1..m |-> t[k]]
    BY <1>1, <1>2, ConvertedIs
  <2> QED
    BY <1>3, <2>1
<1> QED
  BY <1>1, <1>2, <1>3, <1>4 DEF Holds

\* So whatever the format, a converted buffer holds a picture with three bytes a
\* pixel, and when these are exchanged, what a BMP needs.
LEMMA ConversionIs ==
  ASSUME NEW f \in MAP_COLOR_SPACE, NEW n \in Nat, NEW s, Holds(s, f, n)
  PROVE  /\ Holds(Converted(s, n, f), "RGB24", NewLength(n, f))
         /\ Len(s) = n => Len(Converted(s, n, f)) \div 3 = NewLength(n, f) \div 3
<1>1. CASE f = "RGB24"
  BY <1>1, ConvertedIs, NewLengthIs
<1>2. CASE f = "BGR24"
  <2>1. PICK m \in Nat : m = (n \div 3) * 3 /\ m <= n /\ m \div 3 = n \div 3
    OBVIOUS
  <2>2. Holds(s, f, (n \div 3) * 3)
    BY <2>1 DEF Holds
  <2> QED
    BY <1>2, <2>1, <2>2, Exchanged, NewLengthIs
<1>3. CASE f \in {"RGBA32", "BGRA32"}
  <2>1. NewLength(n, f) = (n \div 4) * 3
    BY <1>3, NewLengthIs
  <2>2. Holds(Converted(s, n, f), "RGB24", (n \div 4) * 3) /\ Len(Converted(s, n, f)) = (n \div 4) * 3
    BY <1>3, ThreeTaken
  <2> QED
    BY <2>1, <2>2
<1> QED
  BY <1>1, <1>2, <1>3 DEF MAP_COLOR_SPACE

\* What is in the program's buffer: the whole picture, or while it is read, the
\* lines read so far.
ReadSoFar ==
  /\ size \in Sizes /\ scanline \in 0..size[2]
  /\ length <= Pixels(size) * Len(Channels[format])
  /\ heap[rgb] \in Seq(Byte) /\ Len(heap[rgb]) = length
  /\ \A k \in 1..length :
       (k - 1) \div row_stride < scanline => heap[rgb][k] = PixelByte(format, k)

RgbHolds ==
  HoldsRgb /\ pc # "astray" =>
    /\ length \in Nat
    /\ IF pc = "read_lines" THEN ReadSoFar ELSE Holds(heap[rgb], format, length)

\* A line has a whole number of bytes, and there are as many as the header says.
LEMMA StrideIs ==
  ASSUME NEW f \in DOMAIN Channels, NEW s \in Sizes, NEW n, n = Pixels(s) * Len(Channels[f]),
         NEW d, d = s[1] * Len(Channels[f])
  PROVE  /\ n \in Nat /\ d \in Nat \ {0} /\ s[2] \in Nat /\ s[2] > 0
         /\ \A k \in 1..n : (k - 1) \div d \in Nat /\ (k - 1) \div d < s[2]
<1>1. PICK w \in Nat \ {0}, h \in Nat \ {0} : w = s[1] /\ h = s[2]
  BY SizesAre
<1>2. PICK c \in {1, 3, 4} : c = Len(Channels[f])
  BY ChannelsAre
<1>3. PICK e \in Nat \ {0} : e = w * c /\ e = d
  <2>1. \A a, b \in Nat \ {0} : a * b \in Nat /\ a * b > 0
    OBVIOUS
  <2>2. c \in Nat \ {0}
    OBVIOUS
  <2> QED
    BY <1>1, <1>2, <2>1, <2>2
<1>4. PICK m \in Nat : m = e * h /\ m = n
  <2>1. n = (w * h) * c
    BY <1>1, <1>2 DEF Pixels
  <2>2. c \in Nat
    OBVIOUS
  <2>3. (w * h) * c = (w * c) * h /\ e * h \in Nat
    BY <2>2
  <2> QED
    BY <1>3, <2>1, <2>3
<1>5. ASSUME NEW k \in 1..n
      PROVE  (k - 1) \div e \in Nat /\ (k - 1) \div e < h
  <2>1. PICK x \in Nat : x = k - 1 /\ x < m
    BY <1>4
  <2>2. PICK q \in Nat, r \in 0..(e - 1) : q = (k - 1) \div e /\ k - 1 = q * e + r
    <3>1. x = (x \div e) * e + (x % e) /\ x % e \in 0..(e - 1) /\ x \div e \in Nat
      OBVIOUS
    <3> QED
      BY <2>1, <3>1
  <2>3. PICK g \in Nat : g = q * e /\ g < m
    <3>1. PICK g \in Nat : g = q * e
      OBVIOUS
    <3>2. x = g + r
      BY <2>1, <2>2, <3>1
    <3> QED
      BY <2>1, <3>1, <3>2
  <2>4. q >= h => q * e >= h * e
    OBVIOUS
  <2> QED
    BY <1>4, <2>2, <2>3, <2>4
<1> QED
  <2>1. h > 0
    OBVIOUS
  <2>2. n \in Nat /\ d \in Nat \ {0} /\ s[2] \in Nat /\ s[2] > 0
    BY <1>1, <1>3, <1>4, <2>1, Zenon
  <2> QED
    BY <1>1, <1>3, <1>5, <2>2, Zenon

\* The buffer read_jpeg_file() allocates, and one line more in it.
LEMMA LineRead ==
  ASSUME Owned, InCall, Typed, RgbHolds, ReadLine
  PROVE  RgbHolds'
<1> SUFFICES ASSUME pc' # "astray"
             PROVE  RgbHolds'
  BY DEF RgbHolds
<1>1. HoldsRgb /\ ReadSoFar /\ length \in Nat /\ pc = "read_lines" /\ pc' = "read_lines" /\ rgb \in DOMAIN heap
  BY DEF ReadLine, InCall, RgbHolds, HoldsRgb, Owned
<1>2. /\ rgb' = rgb /\ format' = format /\ length' = length /\ size' = size
      /\ scanline' = scanline + 1 /\ scanline < size[2]
  BY DEF ReadLine, picture
<1>3. PICK d \in Nat \ {0} : d = row_stride
  BY <1>1, StrideIs DEF ReadSoFar, Typed, row_stride
<1>4. heap'[rgb] = [k \in 1..length |-> IF (k - 1) \div d = scanline
                                        THEN Raw(format, length)[k] ELSE heap[rgb][k]]
  BY <1>1, <1>3 DEF ReadLine
<1>5. /\ length \in Nat /\ scanline \in Nat /\ size[2] \in Nat
      /\ \A k \in 1..length : /\ Raw(format, length)[k] = PixelByte(format, k)
                              /\ PixelByte(format, k) \in Byte /\ heap[rgb][k] \in Byte
                              /\ (k - 1) \div d \in Nat
  <2>1. length \in Nat /\ format \in DOMAIN Channels /\ size[2] \in Nat
    BY <1>1, SizesAre DEF Typed, ReadSoFar
  <2>2. scanline \in Nat
    BY <1>1, <2>1 DEF ReadSoFar
  <2>3. Holds(Raw(format, length), format, length)
    BY <2>1, RawIs
  <2>4. \A k \in 1..length : PixelByte(format, k) \in Byte
    BY <2>1, ChannelIs
  <2>5. \A k \in 1..length : heap[rgb][k] \in Byte
    BY <1>1, <2>1 DEF ReadSoFar
  <2>6. \A k \in 1..length : (k - 1) \div d \in Nat
    BY <1>3, <2>1
  <2> QED
    BY <2>1, <2>2, <2>3, <2>4, <2>5, <2>6 DEF Holds
<1>6. heap'[rgb] \in Seq(Byte) /\ Len(heap'[rgb]) = length
  <2>1. PICK t : t = heap'[rgb]
    OBVIOUS
  <2>2. t \in [1..length -> Byte]
    BY <1>4, <1>5, <2>1
  <2> QED
    BY <1>5, <2>1, <2>2
<1>7. ASSUME NEW k \in 1..length, (k - 1) \div d < scanline + 1
      PROVE  heap'[rgb][k] = PixelByte(format, k)
  <2>1. CASE (k - 1) \div d = scanline
    BY <1>4, <1>5, <2>1
  <2>2. CASE (k - 1) \div d # scanline
    <3>1. (k - 1) \div d < scanline
      BY <1>5, <1>7, <2>2
    <3> QED
      BY <1>1, <1>3, <1>4, <2>2, <3>1 DEF ReadSoFar
  <2> QED
    BY <2>1, <2>2
<1>8. scanline + 1 \in 0..size[2] /\ row_stride' = d
  BY <1>2, <1>3, <1>5 DEF row_stride
<1> QED
  BY <1>1, <1>2, <1>3, <1>6, <1>7, <1>8 DEF RgbHolds, ReadSoFar

\* A program that went astray can only be started again.
LEMMA Gone ==
  ASSUME pc = "astray", [Next]_vars
  PROVE  Restart \/ UNCHANGED vars
  BY DEF Next, Program, Jpeg, Bmp, Load, FreeRgb, FreeTorgb, OpenRead, ReadHeader, ReadLine,
     OpenWrite, StartWrite, WriteLine, Finish, ErrorExit, Magnify, ColorSpace2RGB,
     fillDefaultBitMapInfoHeader, setBitMapSize, fillBitMapBuffer, createBmpMap, Discard, Called

LEMMA RgbKept ==
  ASSUME Owned, InCall, Typed, RgbHolds, [Next]_vars
  PROVE  RgbHolds'
<1> SUFFICES ASSUME HoldsRgb', pc' # "astray"
             PROVE  RgbHolds'
  BY DEF RgbHolds
<1>0. pc # "astray"
  BY Gone DEF Restart, HoldsRgb, vars
<1>1. CASE Load
  <2>1. PICK f \in MAP_COLOR_SPACE, s \in Sizes, d \in Slack :
          /\ format' = f /\ length' = U32(Pixels(s) * Len(Channels[f]) + d)
          /\ heap' = Malloc(heap, Raw(f, Pixels(s) * Len(Channels[f]) + d))
    BY <1>1 DEF Load
  <2>2. rgb' = Fresh(heap) /\ pc' = "idle"
    BY <1>1 DEF Load, Called
  <2>3. f \in DOMAIN Channels
    BY ChannelsAre DEF MAP_COLOR_SPACE
  <2>4. PICK n \in Nat : n = Pixels(s) * Len(Channels[f]) + d
    BY <2>3, LengthIs
  <2>5. heap'[rgb'] = Raw(f, n)
    BY <2>1, <2>2, <2>4, BlocksLeft, MallocIs
  <2>6. length' \in Nat /\ length' <= n
    BY <2>1, <2>4, CutIs
  <2>7. Holds(Raw(f, n), f, length')
    BY <2>3, <2>4, <2>6, RawIs DEF Holds
  <2> QED
    BY <2>1, <2>2, <2>5, <2>6, <2>7 DEF RgbHolds
<1>2. CASE ReadHeader
  <2>1. /\ format' \in JpegFormats /\ size' \in Sizes
        /\ length' = S32(Pixels(size') * Len(Channels[format']))
        /\ scanline' = 0 /\ rgb = NULL
    BY <1>2 DEF ReadHeader, InCall
  <2>2. /\ length' >= 0
        /\ heap' = Malloc(heap, [k \in 1..length' |-> Junk]) /\ rgb' = Fresh(heap) /\ pc' = "read_lines"
    BY <1>2, <2>1 DEF ReadHeader, HoldsRgb
  <2>3. DOMAIN heap \subseteq Blocks /\ DOMAIN heap # Blocks
    BY BlocksLeft
  <2>4. format' \in DOMAIN Channels
    BY <2>1, ChannelsAre DEF JpegFormats
  <2>5. PICK n \in Nat : /\ n = Pixels(size') * Len(Channels[format'])
                        /\ length' \in Nat /\ length' <= n /\ size'[2] \in Nat
    <3>1. Pixels(size') * Len(Channels[format']) \in Nat
      BY <2>1, <2>4, LengthIs
    <3> QED
      BY <2>1, <2>2, <3>1, CutIs, SizesAre
  <2>6. PICK t : t = [k \in 1..length' |-> Junk] /\ heap'[rgb'] = t
    BY <2>2, <2>3, MallocIs
  <2>7. t \in [1..length' -> Byte]
    BY <2>6 DEF Junk, Byte, Names
  <2>8. t \in Seq(Byte) /\ Len(t) = length'
    BY <2>5, <2>7
  <2>9. PICK d \in Nat \ {0} : d = size'[1] * Len(Channels[format']) /\ row_stride' = d
    BY <2>1, <2>4, StrideIs DEF row_stride
  <2>10. \A k \in 1..length' : ~((k - 1) \div d < 0)
    BY <2>5, <2>9
  <2>11. 0 \in 0..size'[2]
    BY <2>5
  <2> QED
    BY <2>1, <2>2, <2>5, <2>6, <2>8, <2>9, <2>10, <2>11 DEF RgbHolds, ReadSoFar
<1>3. CASE ReadLine
  BY <1>3, LineRead
<1>4. CASE ColorSpace2RGB
  <2>1. HoldsRgb /\ pc = "idle" /\ pc' = "idle"
    BY <1>4 DEF ColorSpace2RGB, Called, HasRgb, HoldsRgb, Owned, Return
  <2>2. Holds(heap[rgb], format, length) /\ length \in Nat /\ rgb \in DOMAIN heap
    BY <2>1 DEF RgbHolds, Owned, HoldsRgb
  <2>3. PICK r \in Conversions(heap, rgb, length, format) :
          /\ heap' = r.heap /\ rgb' = r.buffer /\ length' = r.length
          /\ format' = IF r.ret = "success" THEN "RGB24" ELSE format
    BY <1>4 DEF ColorSpace2RGB
  <2>4. \/ r.ret = "failure" /\ r.heap = heap /\ r.buffer = rgb /\ r.length = length
        \/ /\ r.ret = "success" /\ format \in MAP_COLOR_SPACE /\ r.length = NewLength(length, format)
           /\ r.heap[r.buffer] = Converted(heap[rgb], length, format)
    BY <2>2, BlocksLeft, ConversionsAre
  <2>5. CASE heap' = heap /\ rgb' = rgb /\ length' = length /\ format' = format
    BY <2>1, <2>2, <2>5 DEF RgbHolds
  <2>6. CASE /\ format \in MAP_COLOR_SPACE /\ length' = NewLength(length, format) /\ format' = "RGB24"
             /\ heap'[rgb'] = Converted(heap[rgb], length, format)
    <3>1. length' \in Nat
      BY <2>2, <2>6, NewLengthIs
    <3> QED
      BY <2>1, <2>2, <2>6, <3>1, ConversionIs DEF RgbHolds
  <2> QED
    BY <2>3, <2>4, <2>5, <2>6
<1>5. CASE ~Load /\ ~ReadHeader /\ ~ReadLine /\ ~ColorSpace2RGB
  <2>1. KeepsRgb
    BY <1>5, RgbStays
  <2>2. CASE pc = "read_lines" /\ Next
    <3>1. Finish
      <4>1. ~ErrorExit
        BY <2>1, <2>2 DEF ErrorExit, Freed, KeepsRgb, HoldsRgb
      <4> QED
        BY <1>5, <2>2, <4>1 DEF Next, Program, Jpeg, Bmp, Load, FreeRgb, FreeTorgb, Restart,
             OpenRead, OpenWrite, StartWrite, WriteLine, Magnify, fillDefaultBitMapInfoHeader,
             setBitMapSize, fillBitMapBuffer, createBmpMap, Discard, Called
    <3>2. pc' = "idle" /\ scanline = size[2]
      BY <2>2, <3>1 DEF Finish, Return
    <3>3. ReadSoFar /\ length \in Nat
      BY <2>1, <2>2 DEF KeepsRgb, RgbHolds
    <3>4. \A k \in 1..length : heap[rgb][k] = PixelByte(format, k)
      <4>1. PICK n \in Nat, d \in Nat \ {0} :
              /\ n = Pixels(size) * Len(Channels[format]) /\ d = row_stride /\ length <= n
              /\ \A k \in 1..n : (k - 1) \div d < size[2]
        BY <3>3, StrideIs DEF ReadSoFar, Typed, row_stride
      <4>2. \A k \in 1..length : k \in 1..n
        BY <3>3, <4>1
      <4> QED
        BY <3>2, <3>3, <4>1, <4>2 DEF ReadSoFar
    <3>5. Holds(heap[rgb], format, length)
      BY <3>3, <3>4 DEF Holds, ReadSoFar
    <3> QED
      BY <2>1, <3>2, <3>3, <3>5 DEF KeepsRgb, RgbHolds
  <2>3. CASE pc # "read_lines" /\ Next
    <3>1. pc' # "read_lines"
      BY <1>5, <2>3 DEF Next, Program, Jpeg, Bmp, Load, FreeRgb, FreeTorgb, Restart,
           OpenRead, OpenWrite, StartWrite, WriteLine, Magnify, fillDefaultBitMapInfoHeader,
           setBitMapSize, fillBitMapBuffer, createBmpMap, Discard, Called, ErrorExit, Finish,
           Return, ReturnFrom
    <3> QED
      BY <1>0, <2>1, <2>3, <3>1 DEF KeepsRgb, RgbHolds
  <2>4. CASE UNCHANGED vars
    BY <2>4 DEF vars, picture, io, RgbHolds, HoldsRgb, ReadSoFar, row_stride
  <2> QED
    BY <2>2, <2>3, <2>4
<1> QED
  BY <1>1, <1>2, <1>3, <1>4, <1>5

-----------------------------------------------------------------------------
(* The BMPMAP_FILE's buffer and the file made from it.                      *)

\* Every whole pixel of bmpBuffer is blue, green, red.
BmpHolds ==
  bmpBuffer # NULL =>
    Holds(heap[bmpBuffer], "BGR24", (Len(heap[bmpBuffer]) \div 3) * 3)

\* What fillBitMapBuffer() puts there.
LEMMA FilledIs ==
  ASSUME NEW f \in MAP_COLOR_SPACE, NEW n \in Nat, NEW s, Holds(s, f, n), NEW t,
         t = Converted(Converted(SubSeq(s, 1, n), n, f), NewLength(n, f), "BGR24")
  PROVE  Holds(t, "BGR24", (Len(t) \div 3) * 3)
<1>1. f \in DOMAIN Channels
  BY ChannelsAre DEF MAP_COLOR_SPACE
<1>2. PICK r : r = SubSeq(s, 1, n) /\ Holds(r, f, n) /\ Len(r) = n
  <2>1. SubSeq(s, 1, n) = Raw(f, n)
    BY <1>1, RawIs
  <2> QED
    BY <1>1, <2>1, RawIs
<1>3. PICK N \in Nat : N = NewLength(n, f)
  BY NewLengthIs
<1>4. PICK u : u = Converted(r, n, f) /\ Holds(u, "RGB24", N) /\ Len(u) \div 3 = N \div 3
  BY <1>2, <1>3, ConversionIs
<1>5. PICK m \in Nat : m = (N \div 3) * 3 /\ m <= N
  OBVIOUS
<1>6. Holds(u, "RGB24", (N \div 3) * 3)
  BY <1>4, <1>5 DEF Holds
<1>7. t = Converted(u, N, "BGR24")
  BY <1>2, <1>3, <1>4
<1>8. Holds(t, "BGR24", (N \div 3) * 3) /\ Len(t) = Len(u)
  BY <1>6, <1>7, Exchanged
<1> QED
  BY <1>4, <1>8

LEMMA BmpKept ==
  ASSUME Owned, InCall, Typed, RgbHolds, BmpHolds, [Next]_vars
  PROVE  BmpHolds'
<1>1. CASE fillBitMapBuffer
  <2>1. HoldsRgb /\ pc = "idle"
    BY <1>1 DEF fillBitMapBuffer, Called, HasRgb, HoldsRgb, Owned
  <2>2. Holds(heap[rgb], format, length) /\ length \in Nat
    BY <2>1 DEF RgbHolds
  <2>3. CASE bmpBuffer' = bmpBuffer /\ \A b \in DOMAIN heap : heap'[b] = heap[b]
    <3>1. bmpBuffer # NULL => bmpBuffer \in DOMAIN heap
      BY DEF Owned
    <3> QED
      BY <2>3, <3>1 DEF BmpHolds
  <2>4. CASE /\ format \in MAP_COLOR_SPACE
             /\ heap'[bmpBuffer'] =
                  Converted(Converted(SubSeq(heap[rgb], 1, length), length, format),
                            NewLength(length, format), "BGR24")
    <3>1. PICK t : t = heap'[bmpBuffer']
      OBVIOUS
    <3>2. Holds(t, "BGR24", (Len(t) \div 3) * 3)
      BY <2>2, <2>4, <3>1, FilledIs
    <3> QED
      BY <3>1, <3>2 DEF BmpHolds
  <2> QED
    BY <1>1, <2>3, <2>4, BufferFilled
<1>2. CASE ~fillBitMapBuffer
  <2>1. KeepsBmp
    BY <1>2, BmpStays
  <2> QED
    BY <2>1 DEF KeepsBmp, BmpHolds
<1> QED
  BY <1>1, <1>2

\* The file is as PixelsInPlace says, with the stride given.
FileIs(f, stride) ==
  LET w == f.bi.size[1]
      h == Abs(f.bi.size[2])
  IN /\ Len(f.data) = stride * h
     /\ f.bi.sizeImage = Len(f.data)
     /\ f.bfSize = 14 + 40 + Len(f.data)
     /\ \A i \in 0..(h - 1), k \in 0..(stride - 1) :
          f.data[i * stride + k + 1] =
            IF k < 3 * w THEN <<i * w + k \div 3, <<"b", "g", "r">>[(k % 3) + 1]>> ELSE Zero

Stride(w) == CHOOSE n \in (3 * w)..(3 * w + 3) : n % 4 = 0

\* The DataSizePerLine of 24 bits is the next multiple of 4.
LEMMA PaddedIs ==
  ASSUME NEW w \in Nat
  PROVE  Stride(w) = (((w * 24 + 31) \div 8) \div 4) * 4 /\ Stride(w) \in Nat /\ Stride(w) >= 3 * w
<1>1. PICK d \in Nat : d = (((w * 24 + 31) \div 8) \div 4) * 4
  OBVIOUS
<1>2. d \in (3 * w)..(3 * w + 3) /\ d % 4 = 0
  BY <1>1
<1>3. \A n \in (3 * w)..(3 * w + 3) : n % 4 = 0 => n = d
  BY <1>2
<1>4. Stride(w) = d
  BY <1>2, <1>3 DEF Stride
<1> QED
  BY <1>1, <1>2, <1>4

\* Byte k of line i is the one of its pixel, where the buffer is long enough.
LinesIn(s, w, h) ==
  \A i \in 0..(h - 1), k \in 0..(3 * w - 1) :
    At(s, i * 3 * w + k) = <<i * w + k \div 3, <<"b", "g", "r">>[(k % 3) + 1]>>

LEMMA LineIs ==
  ASSUME NEW w \in Nat, NEW h \in Nat,
         NEW s, Holds(s, "BGR24", (Len(s) \div 3) * 3), Len(s) >= 3 * w * h
  PROVE  LinesIn(s, w, h)
<1> SUFFICES ASSUME NEW i \in 0..(h - 1), NEW k \in 0..(3 * w - 1)
             PROVE  At(s, i * 3 * w + k) = <<i * w + k \div 3, <<"b", "g", "r">>[(k % 3) + 1]>>
  BY DEF LinesIn
<1>1. PICK a \in Nat : a = i * w
  OBVIOUS
<1>2. PICK b \in Nat : b = w * h
  OBVIOUS
<1>3. a + w <= b
  <2>1. i + 1 <= h /\ (i + 1) * w = a + w
    BY <1>1
  <2>2. \A x, y \in Nat : x <= y => x * w <= y * w
    OBVIOUS
  <2> QED
    BY <1>2, <2>1, <2>2
<1>4. PICK x \in Nat : x = i * 3 * w + k /\ x = 3 * a + k
  BY <1>1
<1>5. PICK N \in Nat : N = Len(s) /\ N >= 3 * b
  BY <1>2 DEF Holds
<1>6. x < 3 * b /\ x + 1 \in 1..((N \div 3) * 3) /\ x < N
  BY <1>3, <1>4, <1>5
<1>7. At(s, x) = s[x + 1]
  BY <1>5, <1>6 DEF At
<1>8. s[x + 1] = PixelByte("BGR24", x + 1)
  BY <1>5, <1>6 DEF Holds
<1>9. PixelByte("BGR24", x + 1) = <<(x + 1 - 1) \div 3, <<"b", "g", "r">>[((x + 1 - 1) % 3) + 1]>>
  BY <1>4, ChannelIs
<1>10. (x + 1 - 1) \div 3 = a + k \div 3 /\ (x + 1 - 1) % 3 = k % 3
  BY <1>4
<1> QED
  BY <1>1, <1>4, <1>7, <1>8, <1>9, <1>10

\* A file of createBmpMap() is as it should be, and it is there for one step.
FileHolds ==
  /\ InLibjpeg => bmpfile = None
  /\ bmpfile # None /\ bmpfile.bi.bits = 24
     /\ Len(heap[bmpBuffer]) >= 3 * bmpfile.bi.size[1] * Abs(bmpfile.bi.size[2]) =>
     FileIs(bmpfile, Stride(bmpfile.bi.size[1]))

\* Byte k of line i, counted from the start.
LEMMA ByteOfLine ==
  ASSUME NEW D \in Nat, NEW h \in Nat, NEW i \in 0..(h - 1), NEW k \in 0..(D - 1)
  PROVE  /\ i * D + k \in Nat /\ i * D + k < D * h
         /\ (i * D + k) \div D = i /\ (i * D + k) % D = k
<1>1. i * D + k \in Nat /\ (i * D + k) \div D = i /\ (i * D + k) % D = k
  OBVIOUS
<1>2. i * D + k < D * h
  OBVIOUS
<1> QED
  BY <1>1, <1>2

LEMMA FileWritten ==
  ASSUME Owned, Typed, BmpHolds, createBmpMap, bmpfile' # None, bmpfile'.bi.bits = 24,
         Len(heap'[bmpBuffer']) >= 3 * bmpfile'.bi.size[1] * Abs(bmpfile'.bi.size[2])
  PROVE  FileIs(bmpfile', Stride(bmpfile'.bi.size[1]))
<1>1. PICK w \in Nat, z \in Int, g \in Nat : bi = [size |-> <<w, z>>, bits |-> bi.bits, sizeImage |-> g]
  BY DEF Typed, Headers
<1>2. bi.size[1] = w /\ bi.size[2] = z
  BY <1>1
<1>3. PICK h \in Nat : h = Abs(z)
  BY DEF Abs
<1> DEFINE lines == [k \in 1..U32(DataSizePerLine * h) |->
                      IF DataSizePerLine >= 3 * bi.size[1] /\ bmpBuffer # NULL
                      THEN LineByte((k - 1) \div DataSizePerLine, (k - 1) % DataSizePerLine)
                      ELSE Zero]
<1>4. /\ bmpBuffer # NULL /\ bmpBuffer' = bmpBuffer /\ DataSizePerLine >= 3 * bi.size[1]
      /\ ~(DataSizePerLine * h >= 2 * IntLimit)
      /\ bi' = [bi EXCEPT !.sizeImage = U32(DataSizePerLine * h)]
      /\ bmpfile' = [bfSize |-> bfOffBits + U32(DataSizePerLine * h), bfOffBits |-> bfOffBits, bi |-> bi',
                     data |-> Malloc(heap, lines)[Fresh(heap)]]
  BY <1>2, <1>3 DEF createBmpMap
<1>a. bmpfile'.data = lines /\ heap'[bmpBuffer'] = heap[bmpBuffer]
  <2>1. PICK x : x = lines
    OBVIOUS
  <2>2. Malloc(heap, x)[Fresh(heap)] = x
    BY BlocksLeft, MallocIs
  <2>3. bmpBuffer \in DOMAIN heap
    BY <1>4 DEF Owned
  <2> QED
    BY <1>4, <2>1, <2>2, <2>3, BmpMapped
<1>5. /\ bmpfile'.bi.size[1] = w /\ bmpfile'.bi.size[2] = z /\ bi.bits = 24
      /\ bmpfile'.bi.sizeImage = U32(DataSizePerLine * h)
  BY <1>1, <1>4
<1>6. DataSizePerLine = (((w * 24 + 31) \div 8) \div 4) * 4
  BY <1>2, <1>5 DEF DataSizePerLine
<1>7. PICK D \in Nat : D = DataSizePerLine /\ D = Stride(w) /\ D >= 3 * w
  BY <1>6, PaddedIs
<1>8. PICK N \in Nat : N = D * h /\ U32(DataSizePerLine * h) = N
  <2>1. PICK N \in Nat : N = D * h
    BY <1>7
  <2>2. N < 2 * IntLimit
    BY <1>4, <1>7, <2>1, ImagesAssumption
  <2> QED
    BY <1>7, <2>1, <2>2, CutIs
<1>9. PICK t : t = [k \in 1..N |-> LineByte((k - 1) \div D, (k - 1) % D)]
  OBVIOUS
<1>10. bmpfile'.data = t /\ bmpfile'.bfSize = 54 + N /\ bmpfile'.bi.sizeImage = N
  <2>1. lines = t
    BY <1>4, <1>7, <1>8, <1>9
  <2>2. bmpfile'.bfSize = bfOffBits + N
    BY <1>4, <1>8
  <2> QED
    BY <1>5, <1>a, <1>8, <2>1, <2>2 DEF bfOffBits
<1>11. Len(t) = N
  BY <1>8, <1>9
<1>12. ASSUME NEW i \in 0..(h - 1), NEW k \in 0..(D - 1)
       PROVE  t[i * D + k + 1] =
                IF k < 3 * w THEN <<i * w + k \div 3, <<"b", "g", "r">>[(k % 3) + 1]>> ELSE Zero
  <2>1. PICK x \in Nat : x = i * D + k /\ x \div D = i /\ x % D = k /\ x < N
    BY <1>8, ByteOfLine
  <2>2. t[x + 1] = LineByte(i, k)
    <3>1. x + 1 \in 1..N /\ (x + 1) - 1 = x
      BY <2>1
    <3>2. t[x + 1] = LineByte(((x + 1) - 1) \div D, ((x + 1) - 1) % D)
      BY <1>9, <3>1
    <3> QED
      BY <2>1, <3>1, <3>2
  <2>3. LineByte(i, k) = IF k < 3 * w THEN At(heap[bmpBuffer], i * 3 * w + k) ELSE Zero
    BY <1>2 DEF LineByte
  <2>4. ASSUME k < 3 * w
        PROVE  At(heap[bmpBuffer], i * 3 * w + k) = <<i * w + k \div 3, <<"b", "g", "r">>[(k % 3) + 1]>>
    <3>1. PICK s : s = heap[bmpBuffer] /\ Len(s) >= 3 * w * h
      BY <1>3, <1>a, <1>5
    <3>2. Holds(s, "BGR24", (Len(s) \div 3) * 3)
      BY <1>4, <3>1 DEF BmpHolds
    <3>3. LinesIn(s, w, h)
      BY <3>1, <3>2, LineIs
    <3>4. k \in 0..(3 * w - 1)
      BY <2>4
    <3> QED
      BY <3>1, <3>3, <3>4 DEF LinesIn
  <2> QED
    BY <2>1, <2>2, <2>3, <2>4
<1>13. PICK f : f = bmpfile'
  OBVIOUS
<1>14. /\ f.bi.size[1] = w /\ Abs(f.bi.size[2]) = h /\ f.data = t
       /\ f.bfSize = 54 + N /\ f.bi.sizeImage = N
  BY <1>3, <1>5, <1>10, <1>13
<1>15. FileIs(f, D)
  <2>1. Len(f.data) = D * Abs(f.bi.size[2]) /\ f.bi.sizeImage = Len(f.data) /\ f.bfSize = 14 + 40 + Len(f.data)
    BY <1>8, <1>11, <1>14
  <2>2. \A i \in 0..(Abs(f.bi.size[2]) - 1), k \in 0..(D - 1) :
          f.data[i * D + k + 1] =
            IF k < 3 * f.bi.size[1] THEN <<i * f.bi.size[1] + k \div 3, <<"b", "g", "r">>[(k % 3) + 1]>> ELSE Zero
    BY <1>12, <1>14, Zenon
  <2> QED
    BY <2>1, <2>2, Zenon DEF FileIs
<1> QED
  BY <1>5, <1>7, <1>13, <1>15

LEMMA FileKept ==
  ASSUME Owned, InCall, Typed, BmpHolds, FileHolds, [Next]_vars
  PROVE  FileHolds'
<1>1. CASE createBmpMap
  <2>1. pc' \in {"idle", "crashed", "astray"}
    BY <1>1 DEF createBmpMap, Return, ReturnFrom
  <2> QED
    BY <1>1, <2>1, FileWritten DEF FileHolds, InLibjpeg
<1>2. CASE bmpfile' = None
  BY <1>2 DEF FileHolds
<1>3. CASE bmpfile' = bmpfile /\ InLibjpeg
  BY <1>2, <1>3 DEF FileHolds
<1>4. CASE UNCHANGED vars
  BY <1>4 DEF vars, bmp, FileHolds, InLibjpeg
<1>5. ASSUME Next, ~createBmpMap
      PROVE  bmpfile' = None \/ (bmpfile' = bmpfile /\ InLibjpeg)
  BY <1>5 DEF Next, Program, Jpeg, Bmp, Load, FreeRgb, FreeTorgb, Restart, OpenRead, ReadHeader, ReadLine,
       OpenWrite, StartWrite, WriteLine, Magnify, ColorSpace2RGB, fillDefaultBitMapInfoHeader,
       setBitMapSize, fillBitMapBuffer, Discard, Called, ErrorExit, Finish, InLibjpeg
<1> QED
  BY <1>1, <1>2, <1>3, <1>4, <1>5

\* What the blocks hold, together.
Contents == RgbHolds /\ BmpHolds /\ FileHolds

LEMMA ContentsHold == Spec => [](Owned /\ InCall /\ Typed /\ Contents)
<1>1. Init => Contents
  BY DEF Init, Contents, RgbHolds, BmpHolds, FileHolds, HoldsRgb, InLibjpeg
<1>2. Owned /\ InCall /\ Typed /\ Contents /\ [Next]_vars => Contents'
  BY RgbKept, BmpKept, FileKept DEF Contents
<1> QED
  BY <1>1, <1>2, HoldersHold, PTL DEF Spec

\* PixelsInPlace: the pixels of a file createBmpMap() wrote are those of the
\* picture, line after line, for lines of any length and so with any padding;
\* and a buffer that was read, or converted by colorSpace2RGB(), has each byte
\* where its format says, wherever libjpeg gave up in the calls before.  Where the
\* number of bytes does not fit 32 bits the calls fail or lead astray; a file that
\* fclose() did not write in full is not one that was written.
THEOREM PictureInPlace == Spec => []PixelsInPlace
<1>1. Owned /\ InCall /\ Typed /\ Contents => PixelsInPlace
  <2> SUFFICES ASSUME Owned, InCall, Typed, Contents
               PROVE  PixelsInPlace
    OBVIOUS
  <2>1. ASSUME bmpfile # None, bmpfile.bi.bits = 24,
               Len(heap[bmpBuffer]) >= 3 * bmpfile.bi.size[1] * Abs(bmpfile.bi.size[2])
        PROVE  FileIs(bmpfile, Stride(bmpfile.bi.size[1]))
    BY <2>1 DEF Contents, FileHolds
  <2>2. ASSUME pc = "idle", HasRgb
        PROVE  SubSeq(heap[rgb], 1, length) = Raw(format, length)
    <3>1. HoldsRgb
      BY <2>2 DEF HasRgb, HoldsRgb, Owned
    <3> QED
      BY <2>2, <3>1, RawIs DEF Contents, RgbHolds, Typed
  <2> QED
    BY <2>1, <2>2 DEF PixelsInPlace, FileIs, Stride
<1> QED
  BY <1>1, ContentsHold, PTL

-----------------------------------------------------------------------------
(* magnifyImage().                                                          *)

\* Multiples of m are m apart.
LEMMA Apart ==
  ASSUME NEW k \in Int, NEW l \in Int, k < l, NEW m \in Nat
  PROVE  k * m + m <= l * m
<1>1. PICK d \in Nat : l = k + 1 + d
  <2>1. l - k - 1 \in Nat /\ l = k + 1 + (l - k - 1)
    OBVIOUS
  <2> QED
    BY <2>1
<1>2. l * m = k * m + m + d * m
  BY <1>1
<1>3. \A x, y \in Nat : x * y \in Nat
  OBVIOUS
<1>4. d * m >= 0
  BY <1>3
<1> QED
  BY <1>2, <1>4

\* What (_U64)(i*rate+0.5) gives is within half of i*rate, rounded either way.
LEMMA RoundedIs ==
  ASSUME NEW i \in Nat, NEW n \in Nat, NEW m \in Nat \ {0}, NEW below \in BOOLEAN,
         below => (2 * i * n + m) % (2 * m) = 0, NEW l, l = Rounded(i, n, m, below)
  PROVE  /\ l \in Nat
         /\ 2 * (l * m) <= 2 * (i * n) + m /\ 2 * (i * n) <= 2 * (l * m) + m
<1>1. PICK P \in Nat : P = i * n
  OBVIOUS
<1>2. PICK q \in Nat, r \in Nat : /\ q = (2 * i * n + m) \div (2 * m) /\ r = (2 * i * n + m) % (2 * m)
                                  /\ 2 * P + m = q * (2 * m) + r /\ r < 2 * m
  <2>1. PICK x \in Nat : x = 2 * i * n + m /\ x = 2 * P + m
    BY <1>1
  <2>2. PICK d \in Nat \ {0} : d = 2 * m
    OBVIOUS
  <2>3. x \div d \in Nat /\ x % d \in Nat /\ x = (x \div d) * d + (x % d) /\ x % d < d
    OBVIOUS
  <2> QED
    BY <2>1, <2>2, <2>3
<1>3. PICK a \in Nat : a = q * m /\ q * (2 * m) = 2 * a
  OBVIOUS
<1>4. l = q \/ (r = 0 /\ l = q - 1)
  BY <1>2 DEF Rounded
<1>5. CASE l = q
  BY <1>1, <1>2, <1>3, <1>5
<1>6. CASE r = 0 /\ l = q - 1
  <2>1. q # 0
    BY <1>2, <1>3, <1>6
  <2>2. l \in Nat /\ l * m = a - m
    BY <1>3, <1>6, <2>1
  <2> QED
    BY <1>1, <1>2, <1>3, <1>6, <2>2
<1> QED
  BY <1>4, <1>5, <1>6

\* So the line that is taken is a nearest one, and there is such a line.
LEMMA SourceIs ==
  ASSUME NEW n \in Nat \ {0}, NEW m \in Nat \ {0}, NEW i \in 0..(m - 1),
         NEW below \in BOOLEAN, below => i \in Whole(n, m), NEW l, l = Source(i, n, m, below)
  PROVE  Nearest(l, i, n, m)
<1>1. PICK P \in Nat : P = i * n /\ P + n <= m * n
  <2>1. i * n + n <= m * n
    BY Apart
  <2> QED
    BY <2>1
<1>2. PICK r : r = Rounded(i, n, m, below) /\ l = IF r >= n THEN (i * n) \div m ELSE r
  BY DEF Source
<1>3. r \in Nat /\ 2 * (r * m) <= 2 * P + m /\ 2 * P <= 2 * (r * m) + m
  <2>1. below => (2 * i * n + m) % (2 * m) = 0
    BY DEF Whole
  <2> QED
    BY <1>1, <1>2, <2>1, RoundedIs
<1>4. CASE r < n
  <2>1. l = r /\ l \in 0..(n - 1)
    BY <1>2, <1>3, <1>4
  <2>2. ASSUME NEW k \in 0..(n - 1)
        PROVE  Abs(l * m - P) <= Abs(k * m - P)
    <3>1. PICK a \in Int, b \in Int : a = l * m /\ b = k * m
      BY <1>3, <2>1
    <3>2. k = l \/ b + m <= a \/ a + m <= b
      BY <1>3, <2>1, <3>1, Apart
    <3> QED
      BY <1>3, <2>1, <3>1, <3>2 DEF Abs
  <2> QED
    BY <1>1, <2>1, <2>2 DEF Nearest
<1>5. CASE r >= n
  <2>1. l = P \div m
    BY <1>1, <1>2, <1>5
  <2>2. PICK d \in Nat : l \in Nat /\ P = l * m + d /\ d < m
    <3>1. P \div m \in Nat /\ P % m \in Nat /\ P = (P \div m) * m + (P % m) /\ P % m < m
      OBVIOUS
    <3> QED
      BY <2>1, <3>1
  <2>3. PICK a \in Nat, c \in Nat, e \in Nat : a = l * m /\ c = n * m /\ e = r * m
    BY <1>3, <2>2
  <2>4. c <= e
    <3>1. r = n \/ c + m <= e
      BY <1>3, <1>5, <2>3, Apart
    <3> QED
      BY <2>3, <3>1
  <2>5. P < c /\ 2 * c <= 2 * P + m
    BY <1>1, <1>3, <2>3, <2>4
  <2>6. l < n
    <3>1. n < l => c + m <= a
      BY <2>2, <2>3, Apart
    <3> QED
      BY <2>2, <2>3, <2>5, <3>1
  <2>7. ASSUME NEW k \in 0..(n - 1)
        PROVE  Abs(l * m - P) <= Abs(k * m - P)
    <3>1. PICK b \in Int : b = k * m
      OBVIOUS
    <3>2. b <= a
      <4>1. k <= l
        <5>1. l < k => a + m <= b
          BY <2>2, <2>3, <3>1, Apart
        <5>2. b + m <= c
          BY <2>3, <3>1, Apart
        <5> QED
          BY <2>2, <2>3, <2>5, <5>1, <5>2
      <4> QED
        BY <2>2, <2>3, <3>1, <4>1, Apart
    <3> QED
      BY <2>2, <2>3, <3>1, <3>2 DEF Abs
  <2> QED
    BY <1>1, <2>2, <2>6, <2>7 DEF Nearest
<1> QED
  BY <1>3, <1>4, <1>5

\* The first byte of the pixel that pixel p of the result is copied from.
Dex(line, column, W, TW, p) == line[p \div TW] * W * 3 + column[p % TW] * 3

Magnified(s, bytes, line, column, W, H, TW, TH) ==
  [k \in 1..bytes |->
     LET p == (k - 1) \div 3
     IN IF \A q \in 0..p : Dex(line, column, W, TW, q) < W * 3 * H
        THEN At(s, Dex(line, column, W, TW, p) + ((k - 1) % 3)) ELSE Junk]

\* The pixels of t are copied as line and column say.
CopiedAs(t, line, column, W, TW, TH) ==
  \A i \in 0..(TH - 1), j \in 0..(TW - 1), k \in 1..3 :
    t[3 * (i * TW + j) + k] = <<line[i] * W + column[j], <<"r", "g", "b">>[k]>>

\* Every pixel of the result is copied from inside the picture.
LEMMA DexIs ==
  ASSUME NEW W \in Nat \ {0}, NEW H \in Nat \ {0}, NEW TW \in Nat \ {0}, NEW TH \in Nat \ {0},
         NEW line, \A i \in 0..(TH - 1) : line[i] \in 0..(H - 1),
         NEW column, \A j \in 0..(TW - 1) : column[j] \in 0..(W - 1),
         NEW q \in Nat, q < TW * TH
  PROVE  /\ \E x \in Nat : Dex(line, column, W, TW, q) = 3 * x /\ x < W * H
         /\ Dex(line, column, W, TW, q) < W * 3 * H
<1>1. PICK A \in Nat : A = W * H /\ W * 3 * H = 3 * A
  OBVIOUS
<1>2. PICK B \in Nat : B = TW * TH
  OBVIOUS
<1>3. PICK a \in Nat, b \in 0..(TW - 1) : a = q \div TW /\ b = q % TW /\ q = a * TW + b
  OBVIOUS
<1>4. a < TH
  <2>1. a >= TH => TH * TW <= a * TW
    <3>1. TH < a => TH * TW + TW <= a * TW
      BY <1>3, Apart
    <3> QED
      BY <1>3, <3>1
  <2>2. PICK e \in Nat, g \in Nat : e = TH * TW /\ g = a * TW /\ e = B
    BY <1>2, <1>3
  <2> QED
    BY <1>2, <1>3, <2>1, <2>2
<1>5. PICK l \in 0..(H - 1), c \in 0..(W - 1) : l = line[a] /\ c = column[b]
  BY <1>3, <1>4
<1>6. Dex(line, column, W, TW, q) = l * W * 3 + c * 3
  BY <1>3, <1>5 DEF Dex
<1>7. PICK x \in Nat : x = l * W + c /\ x < A
  <2>1. l * W + W <= H * W
    BY Apart
  <2> QED
    BY <1>1, <2>1
<1>8. Dex(line, column, W, TW, q) = 3 * x
  <2>1. PICK g \in Nat : g = l * W /\ l * W * 3 = 3 * g
    OBVIOUS
  <2> QED
    BY <1>6, <1>7, <2>1
<1>9. 3 * x < 3 * A
  BY <1>7
<1>10. Dex(line, column, W, TW, q) < W * 3 * H /\ x < W * H
  BY <1>1, <1>7, <1>8, <1>9, Zenon
<1> QED
  BY <1>8, <1>10

LEMMA MagnifiedIs ==
  ASSUME NEW W \in Nat \ {0}, NEW H \in Nat \ {0}, NEW TW \in Nat \ {0}, NEW TH \in Nat \ {0},
         NEW line, \A i \in 0..(TH - 1) : line[i] \in 0..(H - 1),
         NEW column, \A j \in 0..(TW - 1) : column[j] \in 0..(W - 1),
         NEW n \in Nat, n >= 3 * (W * H), NEW s, Holds(s, "RGB24", n),
         NEW bytes \in Int, bytes >= 3 * (TW * TH)
  PROVE  CopiedAs(Magnified(s, bytes, line, column, W, H, TW, TH), line, column, W, TW, TH)
<1>1. PICK A \in Nat : A = W * H /\ W * 3 * H = 3 * A
  OBVIOUS
<1>2. PICK B \in Nat : B = TW * TH /\ 3 * TW * TH = 3 * B
  OBVIOUS
<1>3. ASSUME NEW q \in Nat, q < B
      PROVE  /\ \E x \in Nat : Dex(line, column, W, TW, q) = 3 * x /\ x < A
             /\ Dex(line, column, W, TW, q) < W * 3 * H
  <2>1. q < TW * TH
    BY <1>2, <1>3
  <2>2. /\ \E x \in Nat : Dex(line, column, W, TW, q) = 3 * x /\ x < W * H
        /\ Dex(line, column, W, TW, q) < W * 3 * H
    BY <2>1, DexIs
  <2> QED
    BY <1>1, <2>2
<1> SUFFICES ASSUME NEW i \in 0..(TH - 1), NEW j \in 0..(TW - 1), NEW k \in 1..3
             PROVE  Magnified(s, bytes, line, column, W, H, TW, TH)[3 * (i * TW + j) + k] =
                      <<line[i] * W + column[j], <<"r", "g", "b">>[k]>>
  BY DEF CopiedAs
<1>4. PICK p \in Nat : p = i * TW + j /\ p < B /\ p \div TW = i /\ p % TW = j
  BY <1>2, ByteOfLine
<1>5. PICK y \in 1..(3 * B) : y = 3 * p + k /\ (y - 1) \div 3 = p /\ (y - 1) % 3 = k - 1
  BY <1>4
<1>6. \A q \in 0..p : Dex(line, column, W, TW, q) < W * 3 * H
  BY <1>3, <1>4
<1>7. Magnified(s, bytes, line, column, W, H, TW, TH)[y] = At(s, Dex(line, column, W, TW, p) + (k - 1))
  <2>1. y \in 1..bytes
    BY <1>2
  <2>2. Magnified(s, bytes, line, column, W, H, TW, TH)[y] =
          IF \A q \in 0..((y - 1) \div 3) : Dex(line, column, W, TW, q) < W * 3 * H
          THEN At(s, Dex(line, column, W, TW, (y - 1) \div 3) + ((y - 1) % 3)) ELSE Junk
    BY <2>1, Zenon DEF Magnified
  <2> QED
    BY <1>5, <1>6, <2>2, Zenon
<1>8. PICK x \in Nat : Dex(line, column, W, TW, p) = 3 * x /\ x < A /\ x = line[i] * W + column[j]
  <2>1. PICK x \in Nat : Dex(line, column, W, TW, p) = 3 * x /\ x < A
    BY <1>3, <1>4
  <2>2. PICK l \in Nat, c \in Nat : l = line[i] /\ c = column[j]
    OBVIOUS
  <2>3. Dex(line, column, W, TW, p) = l * W * 3 + c * 3
    BY <1>4, <2>2 DEF Dex
  <2>4. PICK a \in Nat : a = l * W /\ l * W * 3 = 3 * a
    OBVIOUS
  <2> QED
    BY <2>1, <2>2, <2>3, <2>4
<1>9. At(s, 3 * x + (k - 1)) = <<x, <<"r", "g", "b">>[k]>>
  <2>1. PICK N \in Nat : N = Len(s) /\ N >= n
    BY DEF Holds
  <2>2. PICK z \in Nat : /\ z = 3 * x + (k - 1) /\ z + 1 \in 1..n /\ z < N
                         /\ ((z + 1) - 1) \div 3 = x /\ ((z + 1) - 1) % 3 = k - 1
    <3>1. n >= 3 * A
      BY <1>1
    <3>2. PICK z \in Nat : z = 3 * x + (k - 1) /\ z + 1 \in 1..n /\ z < N
      <4>1. x < A
        BY <1>8
      <4> QED
        BY <2>1, <3>1, <4>1
    <3>3. ((z + 1) - 1) \div 3 = x /\ ((z + 1) - 1) % 3 = k - 1
      BY <3>2
    <3> QED
      BY <3>2, <3>3
  <2>3. At(s, z) = s[z + 1]
    BY <2>1, <2>2 DEF At
  <2>4. s[z + 1] = PixelByte("RGB24", z + 1)
    BY <2>2 DEF Holds
  <2>5. PixelByte("RGB24", z + 1) = <<((z + 1) - 1) \div 3, <<"r", "g", "b">>[(((z + 1) - 1) % 3) + 1]>>
    BY <2>2, ChannelIs
  <2> QED
    BY <2>2, <2>3, <2>4, <2>5
<1> QED
  BY <1>4, <1>5, <1>7, <1>8, <1>9

\* torgb holds what magnifyImage() put there, until it is freed.
TorgbHolds ==
  torgb # NULL /\ origin # None /\ pc # "astray" =>
    \E line, column :
      /\ \A i \in 0..(tosize[2] - 1) : line[i] \in 0..(origin[2] - 1) /\ Nearest(line[i], i, origin[2], tosize[2])
      /\ \A j \in 0..(tosize[1] - 1) : column[j] \in 0..(origin[1] - 1) /\ Nearest(column[j], j, origin[1], tosize[1])
      /\ CopiedAs(heap[torgb], line, column, origin[1], tosize[1], tosize[2])

\* How lines and columns may be taken, of pictures of these sizes.
Lines(n, m, whole) == [i \in 0..(m - 1) |-> Source(i, n, m, i \in whole)]

MagnifiesTo(s, h, after, W, H, TW, TH) ==
  /\ S32(TW * TH * 3) >= 0
  /\ \E lines \in SUBSET Whole(H, TH), columns \in SUBSET Whole(W, TW) :
       LET bytes == S32(TW * TH * 3)
           copied(p) == \A q \in 0..p : Dex(Lines(H, TH, lines), Lines(W, TW, columns), W, TW, q) < W * 3 * H
       IN /\ after = Malloc(h, Magnified(s, bytes, Lines(H, TH, lines), Lines(W, TW, columns), W, H, TW, TH))
          /\ \A p \in 0..(TW * TH - 1) : 3 * p + 3 > bytes => ~copied(p)

LEMMA ScaledOnce ==
  ASSUME Owned, Typed, RgbHolds, Magnify, torgb' # NULL, origin' # None, pc' # "astray"
  PROVE  TorgbHolds'
<1>1. torgb = NULL /\ pc = "idle" /\ dangling = FALSE
  BY DEF Magnify, Called, Owned
<1>2. rgb # NULL /\ tosize' \in Sizes /\ torgb' = Fresh(heap)
      /\ origin' = size /\ format = "RGB24" /\ length >= 3 * Pixels(size)
  BY <1>1 DEF Magnify, scaled
<1>3. PICK W \in Nat \ {0}, H \in Nat \ {0} : W = size[1] /\ H = size[2] /\ Pixels(size) = W * H
  BY SizesAre DEF Typed, Pixels
<1>4. PICK TW \in Nat \ {0}, TH \in Nat \ {0} : TW = tosize'[1] /\ TH = tosize'[2]
  BY <1>2, SizesAre
<1>5. PICK lines \in SUBSET Whole(H, TH), columns \in SUBSET Whole(W, TW) :
        /\ heap' = Malloc(heap, Magnified(heap[rgb], S32(TW * TH * 3), Lines(H, TH, lines),
                                          Lines(W, TW, columns), W, H, TW, TH))
        /\ \A p \in 0..(TW * TH - 1) :
             3 * p + 3 > S32(TW * TH * 3) =>
               ~\A q \in 0..p : Dex(Lines(H, TH, lines), Lines(W, TW, columns), W, TW, q) < W * 3 * H
  <2>1. MagnifiesTo(heap[rgb], heap, heap', size[1], size[2], tosize'[1], tosize'[2])
    BY <1>1, <1>2, Zenon DEF Magnify, MagnifiesTo, Magnified, Lines, Dex, scaled
  <2>2. MagnifiesTo(heap[rgb], heap, heap', W, H, TW, TH)
    BY <1>3, <1>4, <2>1, Zenon
  <2> QED
    BY <2>2, Zenon DEF MagnifiesTo
<1>6. PICK line, column : line = Lines(H, TH, lines) /\ column = Lines(W, TW, columns)
  OBVIOUS
<1>7. \A i \in 0..(TH - 1) : line[i] \in 0..(H - 1) /\ Nearest(line[i], i, H, TH)
  <2>1. ASSUME NEW i \in 0..(TH - 1)
        PROVE  Nearest(line[i], i, H, TH)
    <3>1. line[i] = Source(i, H, TH, i \in lines)
      BY <1>6 DEF Lines
    <3>2. CASE i \in lines
      <4>1. line[i] = Source(i, H, TH, TRUE) /\ i \in Whole(H, TH)
        BY <1>5, <3>1, <3>2
      <4> QED
        BY <4>1, SourceIs
    <3>3. CASE i \notin lines
      <4>1. line[i] = Source(i, H, TH, FALSE)
        BY <3>1, <3>3, SMT DEF Source, Rounded
      <4> QED
        BY <4>1, SourceIs
    <3> QED
      BY <3>2, <3>3
  <2> QED
    BY <2>1 DEF Nearest
<1>8. \A j \in 0..(TW - 1) : column[j] \in 0..(W - 1) /\ Nearest(column[j], j, W, TW)
  <2>1. ASSUME NEW j \in 0..(TW - 1)
        PROVE  Nearest(column[j], j, W, TW)
    <3>1. column[j] = Source(j, W, TW, j \in columns)
      BY <1>6 DEF Lines
    <3>2. CASE j \in columns
      <4>1. column[j] = Source(j, W, TW, TRUE) /\ j \in Whole(W, TW)
        BY <1>5, <3>1, <3>2
      <4> QED
        BY <4>1, SourceIs
    <3>3. CASE j \notin columns
      <4>1. column[j] = Source(j, W, TW, FALSE)
        BY <3>1, <3>3, SMT DEF Source, Rounded
      <4> QED
        BY <4>1, SourceIs
    <3> QED
      BY <3>2, <3>3
  <2> QED
    BY <2>1 DEF Nearest
<1>a. PICK bytes \in Int : bytes = S32(TW * TH * 3) /\ bytes >= 3 * (TW * TH)
  <2>1. PICK B \in Nat : B = TW * TH /\ B > 0
    <3>1. \A a, b \in Nat \ {0} : a * b \in Nat /\ a * b > 0
      OBVIOUS
    <3> QED
      BY <3>1
  <2>2. S32(TW * TH * 3) \in Int
    BY <2>1, CutIs
  <2>3. \A q \in 0..(B - 1) : Dex(line, column, W, TW, q) < W * 3 * H
    <3>1. ASSUME NEW q \in 0..(B - 1)
          PROVE  Dex(line, column, W, TW, q) < W * 3 * H
      <4>1. q \in Nat /\ q < TW * TH
        BY <2>1
      <4> QED
        BY <1>7, <1>8, <4>1, DexIs
    <3> QED
      BY <3>1
  <2>4. ~(3 * (B - 1) + 3 > S32(TW * TH * 3))
    <3>1. PICK p \in Nat : p = B - 1 /\ p \in 0..(TW * TH - 1)
      BY <2>1
    <3>2. \A q \in 0..p : Dex(line, column, W, TW, q) < W * 3 * H
      BY <2>3, <3>1
    <3>3. ~(3 * p + 3 > S32(TW * TH * 3))
      BY <1>5, <1>6, <3>1, <3>2, Zenon
    <3> QED
      BY <3>1, <3>3
  <2> QED
    BY <2>1, <2>2, <2>4
<1>b. heap'[torgb'] = Magnified(heap[rgb], bytes, line, column, W, H, TW, TH)
  BY <1>2, <1>5, <1>6, <1>a, BlocksLeft, MallocIs
<1>9. Holds(heap[rgb], "RGB24", length) /\ length \in Nat
  BY <1>1, <1>2 DEF RgbHolds, HoldsRgb, Typed
<1>10. CopiedAs(heap'[torgb'], line, column, W, TW, TH)
  <2>1. length \in Nat /\ length >= 3 * (W * H)
    <3>1. PICK P \in Nat : P = W * H
      OBVIOUS
    <3>2. length >= 3 * P
      BY <1>2, <1>3, <3>1
    <3> QED
      BY <1>9, <3>1, <3>2
  <2>2. PICK s : s = heap[rgb] /\ Holds(s, "RGB24", length)
    BY <1>9
  <2>3. (\A i \in 0..(TH - 1) : line[i] \in 0..(H - 1)) /\ (\A j \in 0..(TW - 1) : column[j] \in 0..(W - 1))
    BY <1>7, <1>8
  <2>4. CopiedAs(Magnified(s, bytes, line, column, W, H, TW, TH), line, column, W, TW, TH)
    BY <1>a, <2>1, <2>2, <2>3, MagnifiedIs
  <2> QED
    BY <1>b, <2>2, <2>4
<1> QED
  BY <1>2, <1>3, <1>4, <1>7, <1>8, <1>10, Zenon DEF TorgbHolds

LEMMA TorgbKept ==
  ASSUME Owned, InCall, Typed, RgbHolds, TorgbHolds, [Next]_vars
  PROVE  TorgbHolds'
<1> SUFFICES ASSUME torgb' # NULL, origin' # None, pc' # "astray"
             PROVE  TorgbHolds'
  BY DEF TorgbHolds
<1>0. pc # "astray"
  BY Gone DEF Restart, vars
<1>1. CASE torgb # NULL
  <2>1. torgb' = torgb /\ heap'[torgb] = heap[torgb] /\ tosize' = tosize /\ origin' = origin
    BY <1>1, TorgbStays DEF KeepsTorgb
  <2> QED
    BY <1>0, <1>1, <2>1 DEF TorgbHolds
<1>2. CASE torgb = NULL
  <2>1. Magnify
    BY <1>2, TorgbStays
  <2> QED
    BY <2>1, ScaledOnce
<1> QED
  BY <1>1, <1>2

\* Scaled: every pixel of the result of magnifyImage() is the whole of a nearest
\* pixel of the source, for both ways in which rounded products of doubles may
\* fall; no line or column is taken past the end, and the copy never stops early.
\* That is so for every size of both whose block is as long as the copy: where
\* towidth*toheight*3 does not fit an int, malloc() fails or the copy goes astray.
THEOREM NearestPixels == Spec => []Scaled
<1>1. Init => TorgbHolds
  BY DEF Init, TorgbHolds
<1>2. Spec => []TorgbHolds
  <2>1. Owned /\ InCall /\ Typed /\ Contents /\ TorgbHolds /\ [Next]_vars => TorgbHolds'
    BY TorgbKept DEF Contents
  <2> QED
    BY <1>1, <2>1, ContentsHold, PTL DEF Spec
<1>3. TorgbHolds => Scaled
  <2> SUFFICES ASSUME TorgbHolds, pc # "astray", torgb # NULL, origin # None,
                      NEW i \in 0..(tosize[2] - 1), NEW j \in 0..(tosize[1] - 1)
               PROVE  \E l \in 0..(origin[2] - 1), c \in 0..(origin[1] - 1) :
                        /\ Nearest(l, i, origin[2], tosize[2]) /\ Nearest(c, j, origin[1], tosize[1])
                        /\ \A k \in 1..3 : heap[torgb][3 * (i * tosize[1] + j) + k]
                                             = <<l * origin[1] + c, <<"r", "g", "b">>[k]>>
    BY DEF Scaled
  <2>1. PICK line, column :
          /\ line[i] \in 0..(origin[2] - 1) /\ Nearest(line[i], i, origin[2], tosize[2])
          /\ column[j] \in 0..(origin[1] - 1) /\ Nearest(column[j], j, origin[1], tosize[1])
          /\ CopiedAs(heap[torgb], line, column, origin[1], tosize[1], tosize[2])
    BY Zenon DEF TorgbHolds
  <2>2. \A k \in 1..3 : heap[torgb][3 * (i * tosize[1] + j) + k]
                          = <<line[i] * origin[1] + column[j], <<"r", "g", "b">>[k]>>
    BY <2>1, Zenon DEF CopiedAs
  <2> QED
    BY <2>1, <2>2, Zenon
<1> QED
  BY <1>2, <1>3, PTL
=============================================================================
