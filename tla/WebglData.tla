------------------------------ MODULE WebglData ------------------------------
(***************************************************************************)
(* What of a script's arrays WebGL calls hand to GL (webgl.cc): the bytes  *)
(* of an upload or a readback under the pixel store of the context, ranges *)
(* of a buffer's bytes, and lists for uniforms and attributes.             *)
(*                                                                         *)
(* A byte is its offset in the view.  GL is external: it takes the rows    *)
(* its own pixel store describes, and refuses an alignment that is no      *)
(* power of two up to 8, a negative row length, a negative size and an     *)
(* image that is too large.  The code's own sizes are unsigned and wrap at *)
(* Word, half of which are the negative ones.                              *)
(***************************************************************************)
EXTENDS Integers, Sequences

CONSTANTS Widths, Heights, \* of an image, in pixels, as a script gives them
          MaxSize,         \* GL_MAX_TEXTURE_SIZE
          Pixels,          \* bytes of a pixel; 0 is a format with none
          Alignments,
          RowLengths,      \* UNPACK_ROW_LENGTH; a short one makes rows overlap
          Lengths,         \* of a view, in bytes or elements
          Offsets, Counts, \* into it; negative ones have wrapped
          Vectors,         \* components of a uniform
          Word

\* What the model asks of its constants.
WebglDataAssumption ==
    /\ Widths \cup Heights \cup Alignments \cup RowLengths \subseteq Int
    /\ Vectors \subseteq Nat \ {0} /\ Pixels \subseteq Nat /\ MaxSize \in Nat
    /\ Word \in Nat /\ Lengths \subseteq 0 .. (Word \div 2) - 1
    /\ Offsets \cup Counts \subseteq 0 .. Word - 1

VARIABLES store,    \* the pixel store of the context
          gl,       \* and GL's own
          call      \* the last call: its arguments, what GL was given, and the
                    \* rows that were copied for it

dataVars == <<store, gl, call>>

NoCall == [op |-> "none", width |-> 1, height |-> 1, pixel |-> 1, length |-> 0, offset |-> 0,
           count |-> 0, clears |-> FALSE]
Refused == <<>>
NoCopy == [rows |-> 0, stride |-> 0, bytes |-> 0]

WebglDataInit ==
    /\ store = [align |-> 4, row |-> 0, pack |-> 4, flip |-> FALSE]
    /\ gl = [align |-> 4, row |-> 0, pack |-> 4, other |-> "none"]
    /\ call = [asked |-> NoCall, given |-> Refused, copied |-> NoCopy]

\* One call follows a setting of the pixel store, so that no state is two calls.
CallsWith(asked, given, copied) ==
    /\ call.asked = NoCall
    /\ call' = [asked |-> asked, given |-> given, copied |-> copied]
    /\ UNCHANGED <<store, gl>>
Calls(asked, given) == CallsWith(asked, given, NoCopy)
Forgets == call' = [asked |-> NoCall, given |-> Refused, copied |-> NoCopy]

-----------------------------------------------------------------------------
(* pixelStorei keeps four of the parameters, and passes all on to GL.  Of  *)
(* those it does not keep, one is set at a time, with the rest at their    *)
(* defaults (a bound).                                                     *)
Accepted(align) == align \in {1, 2, 4, 8}
Unkept == {"UNPACK_SKIP_ROWS", "UNPACK_IMAGE_HEIGHT", "PACK_ROW_LENGTH", "PACK_SKIP_PIXELS"}

PixelStorei ==
    /\ Forgets
    /\ \/ /\ gl.other = "none"
          /\ \/ store' = [store EXCEPT !.flip = ~@] /\ UNCHANGED gl
             \/ \E n \in Alignments :
                  /\ store' = [store EXCEPT !.align = n]
                  /\ gl' = IF Accepted(n) THEN [gl EXCEPT !.align = n] ELSE gl
             \/ \E n \in Alignments :
                  /\ store' = [store EXCEPT !.pack = n]
                  /\ gl' = IF Accepted(n) THEN [gl EXCEPT !.pack = n] ELSE gl
             \/ \E n \in RowLengths :
                  /\ store' = [store EXCEPT !.row = n]
                  /\ gl' = IF n >= 0 THEN [gl EXCEPT !.row = n] ELSE gl
       \/ /\ store = [align |-> 4, row |-> 0, pack |-> 4, flip |-> FALSE]
          /\ \E p \in Unkept : gl' = [gl EXCEPT !.other = IF @ = "none" THEN p ELSE "none"]
          /\ UNCHANGED store

(* The bytes from one row of memory to the next and those of an image, as  *)
(* GL counts them.                                                         *)
Positive(align) == IF align > 0 THEN align ELSE 1
Stride(width, pixel, align, row) ==
    LET bytes == (IF row > 0 THEN row ELSE width) * pixel
        a == Positive(align) IN
    ((bytes + a - 1) \div a) * a
Required(width, height, pixel, align, row) ==
    IF width = 0 \/ height = 0 \/ pixel = 0 THEN 0
    ELSE Stride(width, pixel, align, row) * (height - 1) + width * pixel

\* row_stride and required_upload_bytes, to which a GLsizei is a size_t
Size(n) == n % Word
RowStride(width, pixel, align, row) ==
    LET bytes == ((IF row > 0 THEN row ELSE Size(width)) * pixel) % Word
        a == Positive(align) IN
    ((((bytes + a - 1) % Word) \div a) * a) % Word
\* mutant: rows follow one another without padding
RequiredTight(width, height, pixel, align, row) == (Size(width) * Size(height) * pixel) % Word
RequiredUpload(width, height, pixel, align, row) ==
    IF Size(width) = 0 \/ Size(height) = 0 \/ pixel = 0 THEN 0
    ELSE (RowStride(width, pixel, align, row) * (Size(height) - 1) + Size(width) * pixel) % Word

(* The rows GL takes of a memory that starts at 0, and how far a parameter *)
(* that the context does not keep moves them: it skips a row or a pixel,   *)
(* leaves a row between two layers (of one row each) or makes rows longer. *)
Rows(width, height, pixel, align, row) ==
    [y \in 1 .. height |-> [x \in 1 .. width * pixel |->
       (y - 1) * Stride(width, pixel, align, row) + x - 1]]
Moved(a, y, align, row) ==
    LET stride == Stride(a.width, a.pixel, align, row) IN
    CASE gl.other = "UNPACK_SKIP_ROWS" /\ a.op # "readback" -> stride
      [] gl.other = "UNPACK_IMAGE_HEIGHT" /\ a.op = "layers" -> (y - 1) * stride
      [] gl.other = "PACK_ROW_LENGTH" /\ a.op = "readback" ->
           (y - 1) * (Stride(a.width + 1, a.pixel, align, row) - stride)
      [] gl.other = "PACK_SKIP_PIXELS" /\ a.op = "readback" -> a.pixel
      [] OTHER -> 0

(* apply_unpack_emulation: a copy whose rows are in the other order, of    *)
(* which a later one overwrites what it overlaps.  Bytes that no row was   *)
(* copied to are -1.                                                       *)
\* mutant: the first row comes out past the last
FlippedPast(y, height) == height - y
Flipped(y, height) == height - 1 - y
Emulates(a, need) == store.flip /\ a.op = "image" /\ need # 0
CopyOf(a, need) ==
    IF ~Emulates(a, need) THEN NoCopy
    ELSE [rows |-> Size(a.height), stride |-> RowStride(a.width, a.pixel, store.align, store.row),
          bytes |-> (Size(a.width) * a.pixel) % Word]
Emulated(a, at) ==
    LET stride == Stride(a.width, a.pixel, store.align, store.row)
        over == {y \in 0 .. a.height - 1 : y * stride <= at /\ at < y * stride + a.width * a.pixel}
        top == CHOOSE y \in over : \A z \in over : y <= z IN
    IF over = {} THEN -1
    ELSE a.offset + Flipped(top, a.height) * stride + (at - top * stride)

-----------------------------------------------------------------------------
(* texImage2D, texSubImage2D; texImage3D and texSubImage3D, whose height   *)
(* is that of all layers, do not flip.                                     *)
Fits(a, need) == a.offset <= a.length /\ a.pixel # 0 /\ a.length - a.offset >= need
Taken(a) == a.width \in 0 .. MaxSize /\ a.height \in 0 .. MaxSize

ImageRows(a, need) ==
    LET rows == Rows(a.width, a.height, a.pixel, gl.align, gl.row)
        at(y, x) == rows[y][x] + Moved(a, y, gl.align, gl.row) IN
    [y \in 1 .. a.height |-> [x \in 1 .. a.width * a.pixel |->
       IF Emulates(a, need) THEN Emulated(a, at(y, x)) ELSE a.offset + at(y, x)]]

TexImage(a) ==
    LET need == RequiredUpload(a.width, a.height, a.pixel, store.align, store.row) IN
    IF Fits(a, need)
    THEN CallsWith(a, IF Taken(a) THEN ImageRows(a, need) ELSE Refused, CopyOf(a, need))
    ELSE Calls(a, Refused)

\* readPixels, into the view
ReadPixels(a) ==
    LET need == RequiredUpload(a.width, a.height, a.pixel, store.pack, 0)
        rows == Rows(a.width, a.height, a.pixel, gl.pack, 0)
        at(y, x) == rows[y][x] + Moved(a, y, gl.pack, 0) IN
    Calls(a, IF ~Fits(a, need) \/ a.width < 0 \/ a.height < 0 THEN Refused
             ELSE [y \in 1 .. a.height |-> [x \in 1 .. a.width * a.pixel |-> a.offset + at(y, x)]])

-----------------------------------------------------------------------------
(* bufferData, bufferSubData, compressedTexImage and its like: `count`     *)
(* bytes at `offset`, or all that are left.  GL refuses a size that is     *)
(* negative.                                                               *)
\* mutant: the end of the range is not looked at
InRangeFrom(a) == a.offset <= a.length
InRange(a) ==
    /\ a.offset <= a.length
    /\ a.count # 0 => (a.offset + a.count) % Word <= a.length
Negative(n) == n >= Word \div 2

Ranged(a) ==
    LET n == IF a.count # 0 THEN a.count ELSE a.length - a.offset IN
    Calls(a, IF ~InRange(a) \/ Negative(n) THEN Refused ELSE <<a.offset, n>>)

\* getBufferSubData, which writes the bytes
GetBufferSubData(a) == Ranged(a)

(* get_list, for the uniforms and attributes: of a typed array the length  *)
(* is held against what is left, of an array the sum against its length.   *)
\* mutant: the sum for both
InTypedListSum(a) == (a.offset + a.count) % Word <= a.length
InTypedList(a) == a.offset <= a.length /\ a.count <= a.length - a.offset
InList(a) ==
    IF a.op = "typed" THEN InTypedList(a)
    ELSE a.offset <= a.length /\ (a.count # 0 => (a.offset + a.count) % Word <= a.length)

\* UNIFORM_VEC, UNIFORM_MATRIX: whole vectors of `pixel` components
UniformList(a) ==
    LET n == IF a.count # 0 THEN a.count ELSE a.length - a.offset IN
    Calls(a, IF ~InList(a) \/ n < a.pixel THEN Refused
             ELSE <<a.offset, (n \div a.pixel) * a.pixel>>)

\* clearBuffer{f,i,ui}v: GL takes the components of the buffer, all of them
ClearBuffer(a) ==
    Calls(a, IF ~InList(a) \/ a.length - a.offset < 1 THEN Refused ELSE <<a.offset, a.pixel>>)

\* VATTR_VEC: one vector, the first
VertexAttrib(a) ==
    Calls(a, IF a.length < a.pixel THEN Refused ELSE <<0, a.pixel>>)

WebglDataNext ==
    \/ PixelStorei
    \/ \E width \in Widths, height \in Heights, pixel \in Pixels, length \in Lengths,
          offset \in Offsets :
         LET a == [NoCall EXCEPT !.op = "image", !.width = width, !.height = height,
                     !.pixel = pixel, !.length = length, !.offset = offset] IN
         \/ TexImage(a)
         \/ TexImage([a EXCEPT !.op = "layers"])
         \/ ReadPixels([a EXCEPT !.op = "readback"])
    \/ \E length \in Lengths, offset \in Offsets, count \in Counts :
         LET a == [NoCall EXCEPT !.op = "range", !.length = length, !.offset = offset,
                     !.count = count] IN
         \/ Ranged(a)
         \/ GetBufferSubData([a EXCEPT !.op = "written"])
         \/ \E op \in {"typed", "array"}, n \in Vectors :
              UniformList([a EXCEPT !.op = op, !.pixel = n])
    \/ \E length \in Lengths, op \in {"typed", "array"}, n \in Vectors :
         LET a == [NoCall EXCEPT !.op = op, !.length = length, !.pixel = n] IN
         \/ VertexAttrib(a)
         \/ \E offset \in Offsets : ClearBuffer([a EXCEPT !.offset = offset, !.clears = TRUE])

WebglDataSpec == WebglDataInit /\ [][WebglDataNext]_dataVars

-----------------------------------------------------------------------------
Images == {"image", "layers", "readback"}
Layout(a) == IF a.op = "readback" THEN [align |-> store.pack, row |-> 0]
             ELSE [align |-> store.align, row |-> store.row]

(* GL has accepted what the context keeps, and what it does not keep is at *)
(* its default.                                                            *)
Agree ==
    /\ store.align = gl.align /\ store.row = gl.row /\ store.pack = gl.pack
    /\ gl.other = "none"

\* The sizes are not negative, and what is computed of them does not wrap.
Exact(a) ==
    LET l == Layout(a) IN
    /\ a.width \in 0 .. Word - 1 /\ a.height \in 0 .. Word - 1
    /\ Stride(a.width, a.pixel, l.align, l.row) + Positive(l.align) < Word
    /\ Required(a.width, a.height, a.pixel, l.align, l.row) < Word

\* No row of a copy reaches into the next.
Apart(a) == store.flip /\ a.op = "image" => store.row <= 0 \/ store.row >= a.width

(* Every byte GL takes for an image, or writes for a readback, is one of   *)
(* the view at or after the offset, whatever the padding of rows, and so   *)
(* is what is copied for it, which has room in the copy: for sizes that    *)
(* are exact, a pixel store GL shares, and no rows that overlap in a copy  *)
(* (required_upload_bytes, apply_unpack_emulation, readPixels).  Outside   *)
(* of this the code goes past the view or the copy.                        *)
ImageInView ==
    LET a == call.asked
        c == call.copied IN
    (a.op \in Images /\ Exact(a) /\ Apart(a)) =>
        /\ Agree =>
             \A y \in DOMAIN call.given : \A x \in DOMAIN call.given[y] :
                 call.given[y][x] \in a.offset .. a.length - 1
        /\ \A y \in 0 .. c.rows - 1 :
             /\ a.offset + y * c.stride + c.bytes <= a.length
             /\ y * c.stride + c.bytes <= c.rows * c.stride

(* Where UNPACK_FLIP_Y_WEBGL is set the rows reach GL in the other order,  *)
(* each of them whole, and otherwise as they are, under the same three     *)
(* conditions (apply_unpack_emulation).                                    *)
RowsAsAsked ==
    LET a == call.asked
        plain == Rows(a.width, a.height, a.pixel, store.align, store.row) IN
    (a.op \in {"image", "layers"} /\ Exact(a) /\ Apart(a) /\ Agree /\ call.given # Refused) =>
        \A y \in 1 .. a.height : \A x \in 1 .. a.width * a.pixel :
            call.given[y][x] = a.offset +
              plain[IF store.flip /\ a.op = "image" THEN a.height + 1 - y ELSE y][x]

(* A range GL accepts lies in the view, also where its two numbers wrap    *)
(* when they are added (bufferData and its like).                          *)
RangeInView ==
    (call.asked.op \in {"range", "written"} /\ call.given # Refused) =>
        call.given[1] + call.given[2] <= call.asked.length

(* A list for a uniform, an attribute or a clear lies in its array,        *)
(* whatever the two numbers; of an array that is not typed, where they do  *)
(* not wrap, and for a clear, where the list is as long as the buffer has  *)
(* components (get_list, clearBufferfv).                                   *)
ListInArray ==
    LET a == call.asked IN
    (a.op \in {"typed", "array"} /\ call.given # Refused) =>
        \/ a.op = "array" /\ a.offset + a.count >= Word
        \/ a.clears /\ a.length - a.offset < a.pixel
        \/ call.given[1] + call.given[2] <= a.length

(* GL is given the bytes the call means and none outside the view, at any  *)
(* flip, offset and count, for sizes and pixel stores that are exact, that *)
(* GL shares and that do not overlap in a copy (webgl.cc).                 *)
BytesInView == ImageInView /\ RowsAsAsked /\ RangeInView /\ ListInArray
=============================================================================
