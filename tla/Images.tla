------------------------------- MODULE Images -------------------------------
(***************************************************************************)
(* component/jpeg: JPEGMANAGE, a BMPMAP_FILE object, and a program that    *)
(* calls them, looks at their results and frees what it was given.         *)
(*                                                                         *)
(* A byte of a buffer is <<the number of its pixel, its channel>>, so one  *)
(* in a wrong place is seen.  A call is one step, but where libjpeg may    *)
(* leave it by longjmp(): there each call of libjpeg is a step.  malloc(), *)
(* fopen() and fwrite() may fail at any time.                              *)
(*                                                                         *)
(* Numbers of bytes are kept in 32 bits, and pictures may be larger: a     *)
(* block that is too short is written past its end.  From there on nothing *)
(* is said of the program but that it may be started again ("astray").     *)
(***************************************************************************)
EXTENDS Integers, Sequences, FiniteSets, FiniteSetsExt, Functions

CONSTANTS
  Sizes,        \* <<width, height>> of the pictures, and of what they are scaled to
  DefaultSize,  \* that of fillDefaultBitMapInfoHeader()
  Slack,        \* bytes a raw file may have more than its picture, or less
  Uninitialised,\* values biBitCount may have before it is set
  IntLimit      \* 2^31: an int is below it

\* Any height an int can be; a line of four bytes a pixel fits an int, which
\* libjpeg makes sure of (65500 pixels at most).
ASSUME ImagesAssumption ==
  /\ Sizes \cup {DefaultSize} \subseteq (Nat \ {0}) \X (Nat \ {0})
  /\ IntLimit \in Nat
  /\ \A s \in Sizes \cup {DefaultSize} : 4 * s[1] < IntLimit /\ s[2] < IntLimit
  /\ Slack \subseteq -2..2
  /\ Uninitialised \subseteq Nat

Channels ==
  [RGB24  |-> <<"r", "g", "b">>,      BGR24  |-> <<"b", "g", "r">>,
   RGBA32 |-> <<"r", "g", "b", "a">>, BGRA32 |-> <<"b", "g", "r", "a">>,
   GRAY   |-> <<"y">>,                CMYK   |-> <<"c", "m", "y", "k">>]

MAP_COLOR_SPACE == {"RGB24", "BGR24", "RGBA32", "BGRA32"}
JpegFormats == {"RGB24", "GRAY", "CMYK"}  \* what libjpeg decodes to by default

\* The first n bytes of pictures of that format, one pixel after the other.
Raw(f, n) ==
  LET c == Len(Channels[f])
  IN [k \in 1..n |-> <<(k - 1) \div c, Channels[f][((k - 1) % c) + 1]>>]

Junk == <<0, "junk">>  \* uninitialised memory, or memory of others
Zero == <<0, "zero">>

Unset == <<1, 1>>    \* stands for the size of a picture before it is set

Pixels(s) == s[1] * s[2]

\* What is left of n in an _S32, and in an _U32.
S32(n) == ((n + IntLimit) % (2 * IntLimit)) - IntLimit
U32(n) == n % (2 * IntLimit)

Blocks == 1..4
NULL == 0
None == <<>>

VARIABLES
  pc,
  heap,       \* the contents of the blocks malloc() gave out
  rgb, torgb, \* the program's rgb_buffer and torgb_buffer
  format,     \* of the bytes in rgb
  length,     \* their number
  size,       \* width and height of the picture in rgb, as far as known
  tosize,     \* of the one in torgb
  out,        \* buffer and size that write_jpeg_file() was given
  scanline,   \* cinfo.output_scanline, cinfo.next_scanline
  bmpBuffer,
  bi,         \* bitmapinfoheader: the members that vary
  files,      \* open FILE*s
  codec,      \* is there a jpeg_decompress_struct or jpeg_compress_struct?
  bmpfile,    \* the file createBmpMap() wrote in the step before
  ret,
  dangling,   \* ghost: read_jpeg_file() left the address of a freed block in rgb
  origin      \* ghost: size of the RGB picture in torgb before it was scaled

picture == <<rgb, format, length, size, dangling>>
scaled == <<torgb, tosize, origin>>
bmp == <<bmpBuffer, bi>>
io == <<out, scanline, files, codec>>
vars == <<pc, heap, bmpfile, ret, picture, scaled, bmp, io>>

Init ==
  /\ pc = "idle"
  /\ heap = <<>>
  /\ rgb = NULL /\ torgb = NULL /\ bmpBuffer = NULL
  /\ format = "RGB24" /\ length = 0 /\ size = Unset /\ tosize = Unset
  /\ out = None /\ scanline = 0
  /\ bi \in [size : {Unset}, bits : Uninitialised, sizeImage : {0}]
  /\ files = 0 /\ codec = FALSE
  /\ bmpfile = None
  /\ ret = "none"
  /\ dangling = FALSE /\ origin = None

Fresh(h) == Min(Blocks \ DOMAIN h)
Malloc(h, bytes) == [b \in DOMAIN h \cup {Fresh(h)} |-> IF b \in DOMAIN h THEN h[b] ELSE bytes]
Free(h, b) == Restrict(h, DOMAIN h \ {b})  \* free(NULL) too
At(bytes, k) == IF k < Len(bytes) THEN bytes[k + 1] ELSE Junk

\* The program has a buffer in rgb_buffer.
HasRgb == rgb # NULL /\ ~dangling

\* A call begins.
Called == pc = "idle" /\ bmpfile' = None

\* The program uses one class at a time: of what it holds, the other's is gone.
NoBmp == bmpBuffer = NULL /\ bi.size = Unset

Return(r) == pc' = "idle" /\ ret' = r

\* A read past the end of a buffer ends the program, or goes unnoticed.
ReturnFrom(inside, r) == ret' = r /\ pc' \in {"idle"} \cup (IF inside THEN {} ELSE {"crashed"})

-----------------------------------------------------------------------------
(* The program.                                                             *)

\* It reads a raw picture, which may be longer or shorter than its size says, and
\* keeps the length in an _U32.
Load ==
  /\ Called /\ ~HasRgb
  /\ \E f \in MAP_COLOR_SPACE, s \in Sizes, d \in Slack :
       /\ format' = f /\ size' = s
       /\ LET st_size == Pixels(s) * Len(Channels[f]) + d
          IN heap' = Malloc(heap, Raw(f, st_size)) /\ length' = U32(st_size)
  /\ rgb' = Fresh(heap)
  /\ dangling' = FALSE
  /\ UNCHANGED <<pc, ret, scaled, bmp, io>>

FreeRgb ==
  /\ Called /\ HasRgb
  /\ heap' = Free(heap, rgb)
  /\ rgb' = NULL
  /\ format' = "RGB24" /\ length' = 0 /\ size' = Unset
  /\ UNCHANGED <<pc, ret, dangling, scaled, bmp, io>>

FreeTorgb ==
  /\ Called /\ torgb # NULL
  /\ heap' = Free(heap, torgb)
  /\ torgb' = NULL
  /\ origin' = None /\ tosize' = Unset
  /\ UNCHANGED <<pc, ret, picture, bmp, io>>

\* A program that crashed or went astray is started again.
Restart ==
  /\ pc \in {"crashed", "astray"}
  /\ pc' = "idle" /\ heap' = <<>> /\ rgb' = NULL /\ torgb' = NULL /\ bmpBuffer' = NULL
  /\ files' = 0 /\ codec' = FALSE /\ out' = None /\ ret' = "none"
  /\ bmpfile' = None /\ dangling' = FALSE /\ origin' = None /\ scanline' = 0
  /\ format' = "RGB24" /\ length' = 0 /\ size' = Unset /\ tosize' = Unset
  /\ bi' \in [size : {Unset}, bits : Uninitialised, sizeImage : {0}]

-----------------------------------------------------------------------------
(* JPEGMANAGE.                                                              *)

\* fopen(), the error handler, jpeg_create_decompress().  If fopen() fails,
\* *rgb_buffer stays as it is.
OpenRead ==
  /\ Called /\ ~HasRgb /\ NoBmp
  /\ \/ /\ pc' = "read" /\ ret' = "none"
        /\ files' = files + 1 /\ codec' = TRUE
        /\ rgb' = NULL /\ dangling' = FALSE
     \/ Return("failure") /\ UNCHANGED <<files, codec, rgb, dangling>>
  /\ UNCHANGED <<heap, format, length, size, out, scanline, scaled, bmp>>

\* jpeg_read_header(), jpeg_start_decompress(), and malloc(), which is not
\* checked: memcpy() to a null pointer follows.  malloc() of a negative rgb_size,
\* that is of nearly 2^64 bytes, fails.
ReadHeader ==
  /\ pc = "read"
  /\ format' \in JpegFormats
  /\ size' \in Sizes
  /\ length' = S32(Pixels(size') * Len(Channels[format']))
  /\ \/ /\ length' >= 0
        /\ heap' = Malloc(heap, [k \in 1..length' |-> Junk])
        /\ rgb' = Fresh(heap)
        /\ pc' = "read_lines"
     \/ pc' = "crashed" /\ UNCHANGED <<heap, rgb>>
  /\ scanline' = 0
  /\ UNCHANGED <<out, files, codec, bmpfile, ret, dangling, scaled, bmp>>

row_stride == size[1] * Len(Channels[format])

\* jpeg_read_scanlines() and memcpy(), which may lead past the end of the block.
ReadLine ==
  /\ pc = "read_lines" /\ scanline < size[2]
  /\ \/ /\ row_stride * (scanline + 1) <= length
        /\ heap' = [heap EXCEPT ![rgb] =
                     [k \in 1..length |-> IF (k - 1) \div row_stride = scanline
                                          THEN Raw(format, length)[k] ELSE @[k]]]
        /\ UNCHANGED pc
     \/ row_stride * (scanline + 1) > length /\ pc' = "astray" /\ UNCHANGED heap
  /\ scanline' = scanline + 1
  /\ UNCHANGED <<out, files, codec, bmpfile, ret, picture, scaled, bmp>>

\* jpeg_finish_..., jpeg_destroy_..., fclose().
Finish ==
  /\ \/ pc = "read_lines" /\ scanline = size[2]
     \/ pc = "write_lines" /\ scanline = out.size[2]
  /\ Return("success")
  /\ codec' = FALSE /\ files' = files - 1
  /\ out' = None /\ scanline' = 0
  /\ UNCHANGED <<heap, bmpfile, picture, scaled, bmp>>

\* The handler frees *rgb_buffer, if it was allocated, and leaves it as it is.
Freed ==
  IF rgb # NULL THEN heap' = Free(heap, rgb) /\ dangling' = TRUE ELSE UNCHANGED <<heap, dangling>>

\* Fault: the handler forgets the file.
Closed_Never == UNCHANGED files
Closed == files' = files - 1

\* my_error_exit(): libjpeg gives up in any of its functions.
ErrorExit ==
  /\ \/ pc \in {"read", "read_lines"} /\ Freed
     \/ pc \in {"write", "write_lines"} /\ UNCHANGED <<heap, dangling>>
  /\ Return("failure")
  /\ codec' = FALSE /\ Closed
  /\ out' = None /\ scanline' = 0
  /\ UNCHANGED <<rgb, format, length, size, bmpfile, scaled, bmp>>

\* write_jpeg_file() of what was scaled, or of raw bytes with a size from the
\* command line.
OpenWrite ==
  /\ Called /\ NoBmp
  /\ \/ /\ \/ torgb # NULL /\ out' = [buffer |-> torgb, size |-> tosize]
           \/ HasRgb /\ \E s \in Sizes : out' = [buffer |-> rgb, size |-> s]
        /\ pc' = "write" /\ ret' = "none"
        /\ files' = files + 1 /\ codec' = TRUE
     \/ Return("failure") /\ UNCHANGED <<out, files, codec>>
  /\ UNCHANGED <<heap, scanline, picture, scaled, bmp>>

StartWrite ==
  /\ pc = "write"
  /\ pc' = "write_lines"
  /\ scanline' = 0
  /\ UNCHANGED <<heap, out, files, codec, bmpfile, ret, picture, scaled, bmp>>

\* jpeg_write_scanlines() reads 3 bytes for each pixel of a line, if there are
\* any; where the line begins is kept in 32 bits.
WriteLine ==
  /\ pc = "write_lines" /\ scanline < out.size[2]
  /\ scanline' = scanline + 1
  /\ pc' \in {pc} \cup
       (LET row == 3 * out.size[1]
        IN IF U32(scanline * row) + row <= Len(heap[out.buffer]) THEN {} ELSE {"crashed"})
  /\ UNCHANGED <<heap, out, files, codec, bmpfile, ret, picture, scaled, bmp>>

\* Where i*rate+0.5 is whole for rate = n/m, the rounding of rate may leave it just
\* below, and (_U64) takes one less.
Whole(n, m) == {i \in 0..(m - 1) : (2 * i * n + m) % (2 * m) = 0}
Rounded(i, n, m, below) == (2 * i * n + m) \div (2 * m) - (IF below THEN 1 ELSE 0)

\* Fault: no second thought at the end.
Source_Rounded(i, n, m, below) == Rounded(i, n, m, below)

\* The line (or column) of n that line i of m is taken from.
Source(i, n, m, below) ==
  LET l == Rounded(i, n, m, below) IN IF l >= n THEN (i * n) \div m ELSE l

\* magnifyImage().  Lines and columns are rounded independently of each other and
\* alike in every pixel; a pixel past the end of the picture would end the copy.
\* The block has as many bytes as fit an int, and may be too short for the copy.
Magnify ==
  /\ Called
  /\ torgb = NULL /\ NoBmp /\ ~dangling
  /\ \/ /\ rgb # NULL
        /\ tosize' \in Sizes
        /\ LET W == size[1]  H == size[2]  TW == tosize'[1]  TH == tosize'[2]
               bytes == S32(TW * TH * 3)
           IN
           /\ bytes >= 0
           /\ \E lines \in SUBSET Whole(H, TH), columns \in SUBSET Whole(W, TW) :
                LET line == [i \in 0..(TH - 1) |-> Source(i, H, TH, i \in lines)]
                    column == [j \in 0..(TW - 1) |-> Source(j, W, TW, j \in columns)]
                    dex(p) == line[p \div TW] * W * 3 + column[p % TW] * 3
                    copied(p) == \A q \in 0..p : dex(q) < W * 3 * H
                    last == TW * TH - 1
                    fits == \A p \in 0..last : 3 * p + 3 > bytes => ~copied(p)
                IN /\ heap' = Malloc(heap,
                        [k \in 1..bytes |->
                           LET p == (k - 1) \div 3
                           IN IF copied(p) THEN At(heap[rgb], dex(p) + ((k - 1) % 3)) ELSE Junk])
                   /\ \/ /\ fits
                         /\ ReturnFrom(\A p \in 0..last : dex(p) + 2 < Len(heap[rgb]),
                                       IF copied(last) THEN "success" ELSE "failure")
                      \/ ~fits /\ pc' = "astray" /\ UNCHANGED ret
        /\ torgb' = Fresh(heap)
        /\ origin' = IF format = "RGB24" /\ length >= 3 * Pixels(size) THEN size ELSE None
     \/ \* No picture, or malloc() fails.
        Return("failure") /\ UNCHANGED <<heap, scaled>>
  /\ UNCHANGED <<picture, bmp, io>>

-----------------------------------------------------------------------------
(* BMPMAP_FILE.                                                             *)

\* colorSpace2RGB(): where pixels have 4 bytes it moves them to another block.
Allocates(type) == type \in {"RGBA32", "BGRA32"}

NewLength(n, type) ==
  CASE type = "RGB24" -> n
    [] type = "BGR24" -> (n \div 3) * 3
    [] OTHER -> (n \div 4) * 3

Converted(bytes, n, type) ==
  CASE type = "RGB24" -> bytes
    [] type = "BGR24" ->
         [k \in DOMAIN bytes |->
            IF k > (n \div 3) * 3 THEN bytes[k]
            ELSE bytes[k + 2 - 2 * ((k - 1) % 3)]]
    [] OTHER ->
         [k \in 1..((n \div 4) * 3) |->
            LET c == (k - 1) % 3
            IN bytes[4 * ((k - 1) \div 3) + 1 + (IF type = "BGRA32" THEN 2 - c ELSE c)]]

\* colorSpace2RGB(): what there may be after it in *colorSpace and *spaceLength,
\* which were b and n, and in the heap, which was h.  Its malloc() may fail.
Conversions(h, b, n, type) ==
  {r \in {[ret |-> "success",
           heap |-> IF Allocates(type) THEN Free(Malloc(h, Converted(h[b], n, type)), b)
                    ELSE [h EXCEPT ![b] = Converted(@, n, type)],
           buffer |-> IF Allocates(type) THEN Fresh(h) ELSE b,
           length |-> NewLength(n, type)] : supported \in {type} \cap MAP_COLOR_SPACE}
   \cup {[ret |-> "failure", heap |-> h, buffer |-> b, length |-> n]} :
     r.ret = "failure" => type \notin {"RGB24", "BGR24"}}

\* colorSpace2RGB() of the program's buffer.
ColorSpace2RGB ==
  /\ Called /\ HasRgb
  /\ \E r \in Conversions(heap, rgb, length, format) :
       /\ heap' = r.heap /\ rgb' = r.buffer /\ length' = r.length
       /\ format' = IF r.ret = "success" THEN "RGB24" ELSE format
       /\ Return(r.ret)
  /\ UNCHANGED <<size, dangling, scaled, bmp, io>>

fillDefaultBitMapInfoHeader ==
  /\ Called /\ torgb = NULL
  /\ bi' = [size |-> DefaultSize, bits |-> 24, sizeImage |-> 0]
  /\ Return("success")
  /\ UNCHANGED <<heap, bmpBuffer, picture, scaled, io>>

\* Lines from the top: the height is negative.
setBitMapSize ==
  /\ Called /\ torgb = NULL
  /\ \E s \in Sizes : bi' = [bi EXCEPT !.size = <<s[1], -s[2]>>]
  /\ Return("success")
  /\ UNCHANGED <<heap, bmpBuffer, picture, scaled, io>>

\* Fault: the buffer of the call before is forgotten.
Replaced_Forgotten(h) == h
Replaced(h) == Free(h, bmpBuffer)

\* fillBitMapBuffer(): a copy, converted to RGB and from there to BGR, which is
\* the same exchange as back and cannot fail.
fillBitMapBuffer ==
  /\ Called /\ HasRgb /\ torgb = NULL
  /\ \/ \* malloc() fails.
        Return("failure") /\ UNCHANGED <<heap, bmp>>
     \/ LET pData == Fresh(heap)
            copy == Malloc(heap, SubSeq(heap[rgb], 1, length))
        IN \E r \in Conversions(copy, pData, length, format) :
             \/ /\ r.ret = "failure"
                /\ heap' = Free(r.heap, r.buffer)
                /\ Return("failure") /\ UNCHANGED bmp
             \/ /\ r.ret = "success"
                /\ \E bgr \in Conversions(r.heap, r.buffer, r.length, "BGR24") :
                     heap' = Replaced(bgr.heap) /\ bmpBuffer' = bgr.buffer
                /\ bi' = [bi EXCEPT !.sizeImage = 0]
                /\ Return("success")
  /\ UNCHANGED <<picture, scaled, io>>

\* sizeof, less the two bytes of padding in bitMapFileHeader.
bfOffBits == 16 - 2 + 40

DataSizePerLine == (((bi.size[1] * bi.bits + 31) \div 8) \div 4) * 4

Abs(n) == IF n < 0 THEN -n ELSE n

\* Byte k of line i in the file; the fault takes lines of the buffer for padded.
LineByte_Padded(i, k) ==
  IF k < 3 * bi.size[1] THEN At(heap[bmpBuffer], i * DataSizePerLine + k) ELSE Zero
LineByte(i, k) ==
  IF k < 3 * bi.size[1] THEN At(heap[bmpBuffer], i * 3 * bi.size[1] + k) ELSE Zero

\* createBmpMap().  The result of fclose() is not looked at: of a file it could
\* not write in full nothing is said.
createBmpMap ==
  /\ pc = "idle" /\ torgb = NULL
  /\ LET width == bi.size[1]  height == Abs(bi.size[2])
         imageSize == U32(DataSizePerLine * height)
         filled == DataSizePerLine >= 3 * width
         \* A line's bits do not fit an int, or the lines not the memory allocated
         \* for them, or the place of the last one in bmpBuffer not an int.
         overflows == \/ width * bi.bits + 31 >= IntLimit
                      \/ filled /\ DataSizePerLine * height >= 2 * IntLimit
                      \/ DataSizePerLine > 3 * width /\ 3 * width * (height - 1) >= IntLimit
         pData == Fresh(heap)
         assembled == Malloc(heap, [k \in 1..imageSize |->
                        IF filled /\ bmpBuffer # NULL
                        THEN LineByte((k - 1) \div DataSizePerLine, (k - 1) % DataSizePerLine)
                        ELSE Zero])
     IN /\ bi' = [bi EXCEPT !.sizeImage = imageSize]
        /\ \/ \* malloc() fails.
              bmpfile' = None /\ Return("failure") /\ UNCHANGED heap
           \/ \* Lines are too short, or fopen() or fwrite() fails.
              /\ ~overflows /\ (filled => bmpBuffer # NULL)
              /\ heap' = Free(assembled, pData)
              /\ bmpfile' = None /\ Return("failure")
           \/ \* Success, if bfSize fits.
              /\ ~overflows /\ filled /\ bmpBuffer # NULL
              /\ heap' = Free(assembled, pData)
              /\ \/ bmpfile' = None
                 \/ /\ bfOffBits + imageSize < 2 * IntLimit
                    /\ bmpfile' = [bfSize |-> bfOffBits + imageSize, bfOffBits |-> bfOffBits,
                                   bi |-> bi', data |-> assembled[pData]]
              /\ ReturnFrom(3 * width * height <= Len(heap[bmpBuffer]), "success")
           \/ \* There is no buffer to copy from.
              /\ filled /\ bmpBuffer = NULL
              /\ bmpfile' = None /\ pc' = "crashed" /\ UNCHANGED <<heap, ret>>
           \/ overflows /\ bmpfile' = None /\ pc' = "astray" /\ UNCHANGED <<heap, ret>>
  /\ UNCHANGED <<bmpBuffer, picture, scaled, io>>

\* ~BMPMAP_FILE(), and another object.
Discard ==
  /\ Called
  /\ heap' = Free(heap, bmpBuffer)
  /\ bmpBuffer' = NULL
  /\ bi' \in [size : {Unset}, bits : Uninitialised, sizeImage : {0}]
  /\ UNCHANGED <<pc, ret, picture, scaled, io>>

-----------------------------------------------------------------------------

Program == Load \/ FreeRgb \/ FreeTorgb \/ Restart
Jpeg ==
  \/ OpenRead \/ ReadHeader \/ ReadLine
  \/ OpenWrite \/ StartWrite \/ WriteLine
  \/ Finish \/ ErrorExit \/ Magnify
Bmp ==
  \/ ColorSpace2RGB \/ fillDefaultBitMapInfoHeader \/ setBitMapSize
  \/ fillBitMapBuffer \/ createBmpMap \/ Discard

Next == Program \/ Jpeg \/ Bmp

Spec == Init /\ [][Next]_vars
-----------------------------------------------------------------------------
(* Properties.                                                              *)

\* The variables have their types.
TypeOK ==
  /\ pc \in {"idle", "read", "read_lines", "write", "write_lines", "crashed", "astray"}
  /\ DOMAIN heap \subseteq Blocks
  /\ {rgb, torgb, bmpBuffer} \subseteq Blocks \cup {NULL}
  /\ format \in DOMAIN Channels
  /\ length \in Int
  /\ {size, tosize} \subseteq Sizes \cup {Unset}
  /\ bi.size[1] > 0 /\ bi.bits \in Uninitialised \cup {24} /\ bi.sizeImage \in Nat
  /\ files \in 0..1
  /\ {codec, dangling} \subseteq BOOLEAN
  /\ ret \in {"none", "success", "failure"}

\* Between two calls, whatever failed in them and wherever libjpeg left them, no
\* file is open and no libjpeg object is left, and what is allocated is what the
\* program and the BMPMAP_FILE hold, once each, and is going to be freed.
CleanReturn ==
  pc = "idle" =>
    LET held == {b \in {<<"rgb", rgb>>, <<"torgb", torgb>>, <<"bmp", bmpBuffer>>} :
                   b[2] # NULL /\ (b[1] = "rgb" => ~dangling)}
    IN /\ files = 0 /\ ~codec
       /\ DOMAIN heap = {b[2] : b \in held}
       /\ Cardinality(held) = Cardinality(DOMAIN heap)

\* A file createBmpMap() wrote is a BMP of the picture: lines of blue, green, red
\* bytes, each filled up to a multiple of 4 bytes with zeros, after the headers,
\* whose sizes are true, provided the headers were filled and the picture has at
\* least as many bytes as they say.  A buffer that was read or converted has
\* every byte where its format says.  (A program that went astray has pc =
\* "astray", and createBmpMap() leaves no file in bmpfile when fclose() could not
\* write all of it, or when numbers of bytes are too large for the headers.)
PixelsInPlace ==
  /\ bmpfile # None /\ bmpfile.bi.bits = 24
     /\ Len(heap[bmpBuffer]) >= 3 * bmpfile.bi.size[1] * Abs(bmpfile.bi.size[2]) =>
       LET w == bmpfile.bi.size[1]
           stride == CHOOSE n \in (3 * w)..(3 * w + 3) : n % 4 = 0
       IN /\ Len(bmpfile.data) = stride * Abs(bmpfile.bi.size[2])
          /\ bmpfile.bi.sizeImage = Len(bmpfile.data)
          /\ bmpfile.bfSize = 14 + 40 + Len(bmpfile.data)
          /\ \A i \in 0..(Abs(bmpfile.bi.size[2]) - 1), k \in 0..(stride - 1) :
               bmpfile.data[i * stride + k + 1] =
                 IF k < 3 * w THEN <<i * w + k \div 3, <<"b", "g", "r">>[(k % 3) + 1]>> ELSE Zero
  /\ pc = "idle" /\ HasRgb => SubSeq(heap[rgb], 1, length) = Raw(format, length)

\* Line l of n is nearest to line i of m.
Nearest(l, i, n, m) ==
  l \in 0..(n - 1) /\ \A k \in 0..(n - 1) : Abs(l * m - i * n) <= Abs(k * m - i * n)

\* When a picture with 3 bytes a pixel is scaled, and the copy stays within its
\* block, every pixel of the result is the whole of a nearest pixel of the source.
Scaled ==
  pc = "idle" /\ torgb # NULL /\ origin # None =>
    \A i \in 0..(tosize[2] - 1), j \in 0..(tosize[1] - 1) :
      \E l \in 0..(origin[2] - 1), c \in 0..(origin[1] - 1) :
        /\ Nearest(l, i, origin[2], tosize[2]) /\ Nearest(c, j, origin[1], tosize[1])
        /\ \A k \in 1..3 : heap[torgb][3 * (i * tosize[1] + j) + k]
                             = <<l * origin[1] + c, <<"r", "g", "b">>[k]>>
=============================================================================
