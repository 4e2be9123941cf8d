---------------------------- MODULE FrameAnalysis ----------------------------
(***************************************************************************)
(* What a worker computes from one frame, as functions: the RGB copy of a  *)
(* sample, the detections of the model, the tracks of the tracker.         *)
(***************************************************************************)
EXTENDS Integers, Sequences

(* Stands for the infinities and NaN: no such number is ever compared.     *)
NotFinite == 1000
Unusable  == << >>

Clamp(v, limit) == IF v < 0 THEN 0 ELSE IF v > limit THEN limit ELSE v

-----------------------------------------------------------------------------
(* A sample: the bytes of a mapped buffer, and its layout.                 *)

Bytes(data, from, to) ==
  SubSeq(data, from + 1, IF to < Len(data) THEN to ELSE Len(data))

(* Mutant: the last row may be any shorter.                                *)
CopyAnyLastRow(data, offset, stride, width, height) ==
  LET row == 3 * width IN
  IF Len(data) >= offset + stride * (height - 1)
  THEN [r \in 1..height |-> Bytes(data, offset + (r - 1) * stride, offset + (r - 1) * stride + row)]
  ELSE Unusable

(* A buffer may end with the visible bytes of its last row.                *)
CopyRgb(data, offset, stride, width, height) ==
  LET row   == 3 * width
      block == Bytes(data, offset, offset + stride * height)
  IN IF Len(data) >= offset + stride * height
     THEN [r \in 1..height |-> Bytes(block, (r - 1) * stride, (r - 1) * stride + row)]
     ELSE IF Len(data) < offset + stride * (height - 1) + row THEN Unusable
     ELSE [r \in 1..height |->
             Bytes(data, offset + (r - 1) * stride, offset + (r - 1) * stride + row)]

(* try_pull_frame                                                          *)
Frame(sample) ==
  IF sample.width <= 1 \/ sample.height <= 1
       \/ sample.stride < 3 * sample.width \/ sample.offset < 0
  THEN Unusable
  ELSE CopyRgb(sample.data, sample.offset, sample.stride, sample.width, sample.height)

-----------------------------------------------------------------------------
(* The model: of a box, its class, score and corners.                      *)

Category == [person |-> "person", car |-> "vehicle"]

Clamped(box, width, height) ==
  [x1 |-> Clamp(box.x1, width), y1 |-> Clamp(box.y1, height),
   x2 |-> Clamp(box.x2, width), y2 |-> Clamp(box.y2, height)]

HasArea(box) == box.x1 < box.x2 /\ box.y1 < box.y2

Accepted(found, threshold, enabled, width, height) ==
  /\ found.class \in DOMAIN Category
  /\ Category[found.class] \in enabled
  /\ found.score # NotFinite
  /\ found.score >= threshold
  /\ \A c \in DOMAIN found.box : found.box[c] # NotFinite
  /\ HasArea(Clamped(found.box, width, height))

-----------------------------------------------------------------------------
(* The tracker: of a row, its id (negative while it is not confirmed),     *)
(* whether its class is known, and its box.                                *)

(* Mutant: an id that is returned twice is not looked for.                 *)
OnlyClassesAreLost(rows) == \E i \in DOMAIN rows : rows[i].id >= 0 /\ ~rows[i].known

(* TrackerInvariantError                                                   *)
CannotBeTrusted(rows) ==
  \E i \in DOMAIN rows :
    /\ rows[i].id >= 0
    /\ ~rows[i].known \/ \E j \in 1..(i - 1) : rows[j].id = rows[i].id

(* The rows that are handed on, by their places.                           *)
Tracked(rows) == {i \in DOMAIN rows : rows[i].id >= 0 /\ rows[i].area}

-----------------------------------------------------------------------------
(* A frame has the visible bytes of the buffer, each at its place; a       *)
(* buffer that does not hold them all, in a layout that fits, is no frame. *)
ByteAt(sample, r, b) == sample.offset + (r - 1) * sample.stride + b

FrameIsExact(sample) ==
  LET rows == 1..sample.height
      cols == 1..(3 * sample.width)
  IN IF /\ sample.width > 1 /\ sample.height > 1 /\ sample.stride >= 3 * sample.width
        /\ \A r \in rows, b \in cols : ByteAt(sample, r, b) \in DOMAIN sample.data
     THEN Frame(sample) = [r \in rows |-> [b \in cols |-> sample.data[ByteAt(sample, r, b)]]]
     ELSE Frame(sample) = Unusable

(* What is handed to the tracker lies in the image and has an area.        *)
DetectionIsValid(found, threshold, enabled, width, height) ==
  Accepted(found, threshold, enabled, width, height) =>
    LET box == Clamped(found.box, width, height)
    IN box \in [x1 : 0..(width - 1), x2 : 1..width, y1 : 0..(height - 1), y2 : 1..height]

(* What is handed to the crossing engine are confirmed tracks, each once.  *)
TracksAreDistinct(rows) ==
  ~CannotBeTrusted(rows) =>
    \A i, j \in Tracked(rows) :
      rows[i].id >= 0 /\ (rows[i].id = rows[j].id => i = j)

Coordinates == -1..3 \cup {NotFinite}
Boxes       == [x1 : Coordinates, y1 : {0, 1, NotFinite}, x2 : Coordinates, y2 : {1, 3}]
Samples     ==
  UNION {[data : {[i \in 1..n |-> i]}, offset : -1..1, stride : 5..7, width : 1..2, height : 1..3]
           : n \in 0..22}
Rows        == UNION {[1..n -> [id : -1..1, known : BOOLEAN, area : BOOLEAN]] : n \in 0..3}

ObjectsAndFramesAreSound ==
  /\ \A sample \in Samples : FrameIsExact(sample)
  /\ \A class \in {"person", "car", "dog"}, score \in {0, 1, NotFinite}, box \in Boxes,
        enabled \in {{"person"}, {"person", "vehicle"}} :
       DetectionIsValid([class |-> class, score |-> score, box |-> box], 1, enabled, 2, 2)
  /\ \A rows \in Rows : TracksAreDistinct(rows)
=============================================================================
