--------------------------- MODULE InstanceClouds ---------------------------
(***************************************************************************)
(* What the image annotator makes of one colour image and one depth image: *)
(* the instance mask of the detected objects, the mask without its edges,  *)
(* and the cloud of the depth samples that are seen in it                  *)
(* (sam2_image_annotator/sam2_image_annotator_node.py).                    *)
(*                                                                         *)
(* A mask is a set of colour pixels, an instance mask a function from the  *)
(* pixels to instance ids, 0 where there is none.  A depth image is a      *)
(* function from the row-major index of a depth pixel to its depth.  The   *)
(* lenses and the transform between the cameras (undistortPoints, the      *)
(* rotation and translation of TF, projectPoints) are two functions: when  *)
(* depth pixel i has depth z, its point is projected into the colour pixel *)
(* Landing[i][z], and its distance from the colour camera, along the axis  *)
(* of that camera, is ColorZ[i][z].  The cameras do not order points alike,*)
(* and a point behind the colour camera is projected all the same.         *)
(***************************************************************************)
EXTENDS Integers, Sequences, FiniteSets, SequencesExt, Selections

CONSTANTS
  Rows, Columns,             \* the size of a colour image
  DepthRows, DepthColumns,   \* the size of a depth image
  Landing, ColorZ,
  Stride,                    \* pointcloud_stride
  ChunkRows,                 \* rows of the depth image in a chunk: 64
  TrimPercent,               \* pointcloud_mask_trim_ratio
  YoloConfidence

Outside == <<>>
NotFinite == -1              \* a confidence that is no number

Pixels == {<<r, c>> : r \in 0 .. Rows - 1, c \in 0 .. Columns - 1}
DepthPixels == 0 .. DepthRows * DepthColumns - 1

\* The constructor replaces parameters that are out of range.
ASSUME SizeAssumption ==
  /\ {Rows, Columns, DepthRows, DepthColumns, Stride, ChunkRows}
       \subseteq Nat \ {0}
  /\ TrimPercent \in 0 .. 49
  /\ YoloConfidence \in Nat
  /\ DOMAIN Landing = DepthPixels /\ DOMAIN ColorZ = DepthPixels
  /\ \A i \in DepthPixels : \A z \in DOMAIN ColorZ[i] : ColorZ[i][z] \in Int

\* A depth image: what the lenses make of each of its depths is known.
IsDepthImage(depth) ==
  /\ depth \in [DepthPixels -> Nat]
  /\ \A i \in DepthPixels : depth[i] > 0 => depth[i] \in DOMAIN ColorZ[i]

-----------------------------------------------------------------------------
\* Detection and segmentation.

\* What YOLO finds: a box that is not empty once it is clipped, the mask SAM2
\* makes of it, and whether that mask has the shape of the image
Candidates ==
  [conf : Int, box : BOOLEAN, mask : SUBSET Pixels, shaped : BOOLEAN]

\* detect_objects: the confidence guard of the node, and boxes that are not
\* empty after they were clipped.
Detected(candidates) ==
  Those(candidates, {c \in ToSet(candidates) : /\ c.conf # NotFinite
                                               /\ c.conf >= YoloConfidence
                                               /\ c.box})

\* The objects of compose_detection_outputs: the segments whose mask has the
\* shape of the image.  The instance id of an object is its place here.
Composed(segments) == Those(segments, {s \in ToSet(segments) : s.shaped})

\* The first of the masks at a pixel is the one that owns it.
FirstAt(masks, p) ==
  LET at == {k \in DOMAIN masks : masks[k].shaped /\ p \in masks[k].mask}
  IN  IF at = {} THEN 0 ELSE Min(at)

\* Mutant for CloudShowsItsObjects: segments are numbered before the mask is
\* looked at.
InstanceMaskOfSegments(segments) == [p \in Pixels |-> FirstAt(segments, p)]

InstanceMask(segments) == [p \in Pixels |-> FirstAt(Composed(segments), p)]

EmptyMask == [p \in Pixels |-> 0]
Instance(mask, k) == {p \in Pixels : mask[p] = k}
Instances(mask) == {mask[p] : p \in Pixels} \ {0}

-----------------------------------------------------------------------------
\* trim_instance_mask: an instance loses the pixels near its edge, but never
\* the ones that are farthest from it.

Square(n) == n * n
Top(S) == Min({p[1] : p \in S})
Bottom(S) == Max({p[1] : p \in S})
Left(S) == Min({p[2] : p \in S})
Right(S) == Max({p[2] : p \in S})

\* The shorter side of the crop
Side(S) == Min({Bottom(S) - Top(S) + 1, Right(S) - Left(S) + 1})

\* distanceTransform in the crop with its border of zeros, squared
Distances(S) ==
  LET zeros == ((Top(S) - 1 .. Bottom(S) + 1) \X (Left(S) - 1 .. Right(S) + 1)) \ S
  IN  [p \in S |-> Min({Square(p[1] - q[1]) + Square(p[2] - q[2]) : q \in zeros})]

Kept(S) ==
  LET d == Distances(S)
      deepest == Max({d[p] : p \in S})
  IN  {p \in S : \/ 10000 * d[p] > Square(TrimPercent * Side(S))
                 \/ 100 * d[p] > 81 * deepest}

\* The pixels that keep their instance
Trimmed(mask) ==
  UNION {IF TrimPercent = 0 THEN Instance(mask, k) ELSE Kept(Instance(mask, k)) :
           k \in Instances(mask)}

-----------------------------------------------------------------------------
\* publish_instance_pointcloud, once its inputs are good.

\* Mutant for CloudIsWhatIsSeen: each chunk is sampled from its own start.
FirstPixelOfChunk(row) == row * DepthColumns

\* The first sample at or after the start of the chunk
FirstPixel(row) ==
  row * DepthColumns + ((-(row * DepthColumns)) % Stride)

Sampled(row) ==
  {i \in FirstPixel(row) .. Min({row + ChunkRows, DepthRows}) * DepthColumns - 1 :
     (i - FirstPixel(row)) % Stride = 0}

\* color_points: where the point of a depth pixel is for the colour camera
PixelOf(depth, i) == Landing[i][depth[i]]
DepthOf(depth, i) == ColorZ[i][depth[i]]

\* A depth pixel without a depth has no point; a point counts when it is in
\* front of the colour camera and seen in what is left of an instance.
SeenIn(depth, kept, i) ==
  depth[i] > 0 /\ DepthOf(depth, i) > 0 /\ PixelOf(depth, i) \in kept

SamePixel(depth, i, j) == PixelOf(depth, i) = PixelOf(depth, j)

\* lexsort by the depth for the colour camera, and the first point of each
\* pixel: the sort is stable
Foremost(depth, S) ==
  {i \in S : \A j \in S : SamePixel(depth, i, j) =>
                \/ DepthOf(depth, i) < DepthOf(depth, j)
                \/ DepthOf(depth, i) = DepthOf(depth, j) /\ i <= j}

\* A chunk replaces the points of earlier chunks that are behind its own.
Chunk(shown, depth, kept, row) ==
  LET first == Foremost(depth, {i \in Sampled(row) : SeenIn(depth, kept, i)})
      closer == {i \in first : \A j \in shown :
                   SamePixel(depth, i, j) => DepthOf(depth, i) < DepthOf(depth, j)}
  IN  closer \cup {j \in shown : \A i \in closer : ~SamePixel(depth, i, j)}

ChunkStarts == [n \in 1 .. (DepthRows + ChunkRows - 1) \div ChunkRows |->
                  (n - 1) * ChunkRows]

\* publish_instance_points: the samples that are shown, each at its pixel
\* and with the instance id of it
InstancePoints(samples, depth, mask) ==
  {[sample |-> i, pixel |-> PixelOf(depth, i), id |-> mask[PixelOf(depth, i)]] :
     i \in samples}

InstanceCloud(depth, mask, kept) ==
  InstancePoints(FoldLeft(LAMBDA shown, row : Chunk(shown, depth, kept, row),
                          {}, ChunkStarts),
                 depth, mask)
=============================================================================
