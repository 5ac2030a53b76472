----------------------------- MODULE CanvasImages -----------------------------
(***************************************************************************)
(* What drawImage draws of an image (canvas.cc, image.cc): its pixels, the *)
(* copy of them memoized for later draws, and for a video the surface on   *)
(* the GPU that its frames are uploaded to.  The pixels come from a        *)
(* decoder in the pool (Image, ImageBitmap), from the frames of a video    *)
(* (video.cc) or from an infrared sensor, in place (irs.cc).               *)
(*                                                                         *)
(* A picture is its version, which is also its size, and whether all of it *)
(* is there.                                                               *)
(***************************************************************************)
EXTENDS Naturals, FiniteSets

CONSTANT MaxVersions    \* bound: pictures an image is given

CanvasImagesAssumption == MaxVersions \in Nat \ {0}

VARIABLES kind,         \* what the image is
          image,        \* nx_image_t
          version,      \* pictures given so far
          tasks,        \* decodes in the pool
          loaded,       \* picture whose load the script was last told of
          shown         \* what the last drawImage drew, and what there was to draw

imageVars == <<kind, image, version, tasks, loaded, shown>>

Kinds == {"image", "bitmap", "video", "sensor"}
Nothing == [of |-> 0, whole |-> FALSE]
Whole(v) == [of |-> v, whole |-> TRUE]
Half(v) == [of |-> v, whole |-> FALSE]
NewImage == [size |-> 0, data |-> Nothing, memo |-> Nothing, surface |-> Nothing,
             surfaceSize |-> 0, dirty |-> FALSE]
NotShown == [picture |-> Nothing, wanted |-> Nothing]
NextVersion == version < MaxVersions /\ version' = version + 1

-----------------------------------------------------------------------------
(* nx_image_release_cache and nx_image_release_gpu                         *)
\* mutant: only the copy in memory is dropped
ReleasedCacheOnly(i) == [i EXCEPT !.memo = Nothing]
ReleasedCache(i) == [i EXCEPT !.memo = Nothing, !.dirty = TRUE]
ReleasedGpu(i) == [i EXCEPT !.surface = Nothing, !.surfaceSize = 0]
\* close_image, reset_media
Emptied(i) == [ReleasedGpu(ReleasedCache(i)) EXCEPT !.data = Nothing, !.size = 0]

-----------------------------------------------------------------------------
(* Decoding in the pool.  An Image takes another `src` at any time; a      *)
(* bitmap is given to the script when it is decoded.                       *)
ImageDecode ==
    /\ kind = "image" \/ (kind = "bitmap" /\ version = 0)
    /\ NextVersion
    /\ tasks' = tasks \cup {[version |-> version + 1, at |-> "queued"]}
    /\ shown' = NotShown /\ UNCHANGED <<kind, image, loaded>>

At(t, where) == (tasks \ {t}) \cup {[t EXCEPT !.at = where]}
\* The header gives the size, and libjpeg-turbo's output is the image's own.
DecodeBegins(t) ==
    /\ t.at = "queued"
    /\ \/ /\ tasks' = At(t, "decoding")
          /\ \E jpeg \in BOOLEAN :
               image' = [image EXCEPT !.size = t.version,
                                      !.data = IF jpeg THEN Half(t.version) ELSE @]
       \/ tasks' = At(t, "failed") /\ UNCHANGED image      \* of no known format
    /\ shown' = NotShown /\ UNCHANGED <<kind, version, loaded>>
DecodeEnds(t) ==
    /\ t.at = "decoding"
    /\ \/ tasks' = At(t, "decoded") /\ image' = [image EXCEPT !.data = Whole(t.version)]
       \/ tasks' = At(t, "failed") /\ image' = [image EXCEPT !.data = Nothing]
    /\ shown' = NotShown /\ UNCHANGED <<kind, version, loaded>>
\* nx_decode_image_cb, and the load event
Decoded(t) ==
    /\ t.at \in {"decoded", "failed"} /\ tasks' = tasks \ {t}
    /\ loaded' = IF t.at = "decoded" THEN t.version ELSE loaded
    /\ shown' = NotShown /\ UNCHANGED <<kind, image, version>>

\* ImageBitmap.close
ImageClose ==
    /\ kind = "bitmap" /\ loaded > 0
    /\ image' = Emptied(image)
    /\ shown' = NotShown /\ UNCHANGED <<kind, version, tasks, loaded>>

-----------------------------------------------------------------------------
(* Videos and sensors.                                                     *)
\* The media of a load is there: a buffer for its frames (video.cc).
VideoOpens ==
    /\ kind = "video" /\ image.size = 0 /\ NextVersion
    /\ image' = [image EXCEPT !.size = version + 1, !.data = Whole(version + 1)]
    /\ shown' = NotShown /\ UNCHANGED <<kind, tasks, loaded>>
\* videoTick with a frame to present: of the size the media has
VideoTick ==
    /\ kind = "video" /\ image.size > 0 /\ NextVersion
    /\ image' = ReleasedCache([image EXCEPT !.data = Whole(version + 1)])
    /\ shown' = NotShown /\ UNCHANGED <<kind, tasks, loaded>>
\* reset_media: another source, or close
ResetMedia ==
    /\ kind = "video" /\ image.size > 0
    /\ image' = Emptied(image)
    /\ shown' = NotShown /\ UNCHANGED <<kind, version, tasks, loaded>>
\* nx_irs_sensor_new and nx_irs_sensor_update
SensorUpdate ==
    /\ kind = "sensor" /\ NextVersion
    /\ image' = ReleasedCache([image EXCEPT !.data = Whole(version + 1), !.size = 1])
    /\ shown' = NotShown /\ UNCHANGED <<kind, tasks, loaded>>

-----------------------------------------------------------------------------
(* drawImage.  Where a GPU context records, a video is drawn of its        *)
(* surface, made again for another size and uploaded to when dirty; every  *)
(* other image of the copy in memory, made when there is none.             *)
\* Pixels of a picture that has another size than the image are not it.
Copied(i) == IF kind \in {"image", "bitmap"} /\ i.data.of # i.size THEN Half(i.data.of)
             ELSE i.data

Surfaced(i) == IF i.surfaceSize = i.size THEN i ELSE ReleasedGpu(i)
Uploaded(i) ==
    LET fresh == i.surfaceSize = 0 IN
    IF i.dirty \/ fresh
    THEN [i EXCEPT !.surface = i.data, !.surfaceSize = i.size, !.dirty = FALSE]
    ELSE i
Memoized(i) == IF i.memo = Nothing THEN [i EXCEPT !.memo = Copied(i)] ELSE i

Draws(i, picture) ==
    /\ image' = i /\ shown' = [picture |-> picture, wanted |-> image.data]
    /\ UNCHANGED <<kind, version, tasks, loaded>>
DrawImage ==
    /\ image.size > 0 /\ image.data # Nothing
    /\ kind = "bitmap" => loaded > 0
    /\ \/ kind = "video" /\ LET i == Uploaded(Surfaced(image)) IN Draws(i, i.surface)
       \/ LET i == Memoized(image) IN Draws(i, i.memo)
       \/ shown' = NotShown /\ UNCHANGED <<kind, image, version, tasks, loaded>>  \* no memory

CanvasImagesInit ==
    /\ kind \in Kinds /\ image = NewImage /\ version = 0 /\ tasks = {}
    /\ loaded = 0 /\ shown = NotShown

CanvasImagesNext ==
    \/ ImageDecode \/ \E t \in tasks : DecodeBegins(t) \/ DecodeEnds(t) \/ Decoded(t)
    \/ ImageClose \/ VideoOpens \/ VideoTick \/ ResetMedia \/ SensorUpdate \/ DrawImage

CanvasImagesSpec == CanvasImagesInit /\ [][CanvasImagesNext]_imageVars

-----------------------------------------------------------------------------
(* The image and the decodes of it are of their types.                     *)
CanvasImagesTypeOK ==
    LET pictures == [of : 0 .. MaxVersions, whole : BOOLEAN] IN
    /\ kind \in Kinds /\ version \in 0 .. MaxVersions /\ loaded \in 0 .. version
    /\ image \in [size : Nat, data : pictures, memo : pictures, surface : pictures,
                  surfaceSize : Nat, dirty : BOOLEAN]

(* A video, a sensor and a bitmap are drawn as they are now, not as they   *)
(* were when a copy of them was last made or uploaded                      *)
(* (nx_image_release_cache, drawImage).                                    *)
DrawsCurrentPixels ==
    kind # "image" => shown.picture = shown.wanted

(* An Image whose last `src` has loaded is drawn as that picture, "Once    *)
(* loaded, the image may be drawn" (image.ts).                             *)
LoadedImageIsDrawn ==
    (kind = "image" /\ tasks = {} /\ loaded = version /\ shown # NotShown)
      => shown.picture = Whole(version)
=============================================================================
