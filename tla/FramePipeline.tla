--------------------------- MODULE FramePipeline ---------------------------
(***************************************************************************)
(* The way of a picture in CameraLiveActivity: the analyzer fills the      *)
(* shared arrays y, u and v and queues a task that names them, the consumer*)
(* converts, turns and encodes it, and swapCamera changes the camera under *)
(* both.                                                                   *)
(*                                                                         *)
(* The three arrays are one, and so are nv12 and nv12_rotated.  width,     *)
(* height and rowStride are one number, the size of a picture, which grows *)
(* with each of them.  A picture is its number and its camera.  A live goes*)
(* on throughout: pictures are queued, and the encoder is not released.    *)
(***************************************************************************)
EXTENDS Naturals, Sequences

CONSTANTS
  Cameras,     (* the back and the front camera                            *)
  SizeOf,      (* the size of a camera's pictures                          *)
  FirstCamera, (* the one in use at first                                  *)
  MaxPictures, (* a bound for TLC                                          *)
  MaxSwaps     (* a bound for TLC                                          *)

ASSUME PipelineAssumption ==
  /\ SizeOf \in [Cameras -> Nat \ {0}] /\ FirstCamera \in Cameras
  /\ MaxPictures \in Nat /\ MaxSwaps \in Nat

VARIABLES
  camera,     (* the camera that is bound                                  *)
  front,      (* isUseFrontCamera: the camera whose mirror is applied      *)
  swap,       (* where swapCamera is: "no", "rebind"                       *)
  swaps,      (* how often it ran                                          *)
  isInitYUV,
  width,      (* width, height, rowStride                                  *)
  rotation,   (* rotationDegrees, named by the camera that reports it      *)
  yuv,        (* the arrays y, u, v ever allocated: size and content       *)
  nv12,       (* size and content of nv12 and nv12_rotated                 *)
  analyzer,   (* where it is, under its lock                               *)
  image,      (* the picture it holds                                      *)
  tasks,      (* queue: each task is the index of its arrays               *)
  pc,         (* where the consumer is                                     *)
  task,       (* the arrays it works on                                    *)
  codecSize,  (* the size the encoder was created with, 0 if there is none *)
  encoded,    (* the last picture encoded                                  *)
  pictures,   (* history: pictures taken so far                            *)
  broken,     (* the exception or overrun that ended the process           *)
  askew,      (* history: a picture was turned or mirrored for the other   *)
              (* camera, or a blank array encoded                          *)
  mixed       (* history: pictures of the old camera were about while the  *)
              (* camera was swapped                                        *)

swapVars     == <<camera, front, swap, swaps>>
sizeVars     == <<isInitYUV, width, rotation, yuv, nv12>>
analyzerVars == <<analyzer, image, pictures>>
consumerVars == <<pc, task, codecSize, encoded, askew>>
pipelineVars ==
  <<swapVars, sizeVars, analyzerVars, consumerVars, tasks, broken, mixed>>

Blank == [n |-> 0, camera |-> FirstCamera]

PipelineInit ==
  /\ camera = FirstCamera /\ front = FirstCamera /\ swap = "no" /\ swaps = 0
  /\ isInitYUV = FALSE /\ width = 0 /\ rotation = FirstCamera
  /\ yuv = <<>> /\ nv12 = [size |-> 0, content |-> Blank]
  /\ analyzer = "idle" /\ image = Blank /\ pictures = 0
  /\ tasks = <<>> /\ pc = "take" /\ task = 0
  /\ codecSize = 0 /\ encoded = Blank
  /\ broken = "no" /\ askew = FALSE /\ mixed = FALSE

Works == broken = "no"
Break(how) == broken' = how

(* No picture is on its way.                                               *)
Quiet == analyzer = "idle" /\ tasks = <<>> /\ pc = "take"

-----------------------------------------------------------------------------
(* swapCamera, on the main thread.                                         *)

(* Mutant: the arrays of the old camera are kept.                          *)
SwapResetKeeping ==
  /\ Works /\ swap = "no" /\ swaps < MaxSwaps
  /\ swap' = "rebind" /\ swaps' = swaps + 1
  /\ front' \in Cameras \ {front}
  /\ mixed' = (mixed \/ ~Quiet)
  /\ UNCHANGED <<camera, sizeVars, analyzerVars, consumerVars, tasks, broken>>

SwapReset ==
  /\ Works /\ swap = "no" /\ swaps < MaxSwaps
  /\ swap' = "rebind" /\ swaps' = swaps + 1
  /\ front' \in Cameras \ {front}
  /\ isInitYUV' = FALSE
  /\ mixed' = (mixed \/ ~Quiet)
  /\ UNCHANGED <<camera, width, rotation, yuv, nv12, analyzerVars, consumerVars,
                 tasks, broken>>

(* bindPreview.                                                            *)
SwapRebind ==
  /\ Works /\ swap = "rebind" /\ swap' = "no"
  /\ camera' = front
  /\ UNCHANGED <<front, swaps, sizeVars, analyzerVars, consumerVars, tasks, broken,
                 mixed>>

-----------------------------------------------------------------------------
(* The analyzer, one picture at a time under its lock.                     *)

Analyze ==
  /\ Works /\ analyzer = "idle" /\ pictures < MaxPictures
  /\ pictures' = pictures + 1
  /\ image' = [n |-> pictures', camera |-> camera]
  /\ width' = SizeOf[camera] /\ rotation' = camera
  /\ analyzer' = IF isInitYUV THEN "fill" ELSE "allocate"
  /\ mixed' = (mixed \/ swap = "rebind")
  /\ UNCHANGED <<swapVars, isInitYUV, yuv, nv12, consumerVars, tasks, broken>>

(* y, u, v, nv12 and nv12_rotated are allocated.                           *)
Allocate ==
  /\ Works /\ analyzer = "allocate" /\ analyzer' = "mark"
  /\ yuv' = Append(yuv, [size |-> SizeOf[image.camera], content |-> Blank])
  /\ nv12' = [size |-> width, content |-> Blank]
  /\ UNCHANGED <<swapVars, isInitYUV, width, rotation, image, pictures, consumerVars,
                 tasks, broken, mixed>>

MarkInit ==
  /\ Works /\ analyzer = "mark" /\ analyzer' = "fill" /\ isInitYUV' = TRUE
  /\ UNCHANGED <<swapVars, width, rotation, yuv, nv12, image, pictures, consumerVars,
                 tasks, broken, mixed>>

(* buffer.get(y) fills the whole array, or throws when the picture has     *)
(* less than that; a larger picture is cut off.                            *)
Fill ==
  /\ Works /\ analyzer = "fill"
  /\ \/ /\ SizeOf[image.camera] < yuv[Len(yuv)].size
        /\ Break("underflow") /\ UNCHANGED <<yuv, analyzer>>
     \/ /\ SizeOf[image.camera] >= yuv[Len(yuv)].size
        /\ yuv' = [yuv EXCEPT ![Len(yuv)].content = image]
        /\ analyzer' = "put" /\ UNCHANGED broken
  /\ UNCHANGED <<swapVars, isInitYUV, width, rotation, nv12, image, pictures,
                 consumerVars, tasks, mixed>>

(* Mutant: the newest task is taken first.                                 *)
PutFirst ==
  /\ Works /\ analyzer = "put" /\ analyzer' = "idle"
  /\ tasks' = <<Len(yuv)>> \o tasks
  /\ UNCHANGED <<swapVars, sizeVars, image, pictures, consumerVars, broken, mixed>>

Put ==
  /\ Works /\ analyzer = "put" /\ analyzer' = "idle"
  /\ tasks' = Append(tasks, Len(yuv))
  /\ UNCHANGED <<swapVars, sizeVars, image, pictures, consumerVars, broken, mixed>>

-----------------------------------------------------------------------------
(* The consumer of startQueue.                                             *)

Take ==
  /\ Works /\ pc = "take" /\ tasks # <<>>
  /\ task' = Head(tasks) /\ tasks' = Tail(tasks) /\ pc' = "convert"
  /\ UNCHANGED <<swapVars, sizeVars, analyzerVars, codecSize, encoded, askew, broken,
                 mixed>>

(* yuvToNv12_or_Nv21 with the sizes of now, into the array of now.         *)
Convert ==
  /\ Works /\ pc = "convert"
  /\ \/ /\ yuv[task].size < width \/ nv12.size < width
        /\ Break("bounds") /\ UNCHANGED <<nv12, pc>>
     \/ /\ yuv[task].size >= width /\ nv12.size >= width
        /\ nv12' = [nv12 EXCEPT !.content = yuv[task].content]
        /\ pc' = "rotate" /\ UNCHANGED broken
  /\ UNCHANGED <<swapVars, isInitYUV, width, rotation, yuv, analyzerVars, task,
                 codecSize, encoded, askew, tasks, mixed>>

(* nv12Rotate does not look at the lengths of the arrays it is given.      *)
Rotate ==
  /\ Works /\ pc = "rotate"
  /\ \/ /\ nv12.size < width
        /\ Break("overrun") /\ UNCHANGED <<pc, askew>>
     \/ /\ nv12.size >= width
        /\ pc' = "encode" /\ UNCHANGED broken
        /\ askew' = (askew \/ {rotation, front} # {nv12.content.camera})
  /\ UNCHANGED <<swapVars, sizeVars, analyzerVars, task, codecSize, encoded, tasks,
                 mixed>>

(* encodeVideo.  The encoder may fail to be made, and may have no input    *)
(* buffer free; one that it has, has the size of the encoder's pictures.   *)
Encode ==
  /\ Works /\ pc = "encode"
  /\ codecSize' \in IF codecSize = 0 THEN {0, width} ELSE {codecSize}
  /\ \/ pc' = "take" /\ UNCHANGED <<encoded, askew, broken>>
     \/ /\ codecSize' # 0 /\ nv12.size > codecSize'
        /\ Break("overflow") /\ UNCHANGED <<pc, encoded, askew>>
     \/ /\ codecSize' # 0 /\ nv12.size <= codecSize'
        /\ pc' = "take" /\ UNCHANGED broken
        /\ encoded' = IF nv12.content.n = 0 THEN encoded ELSE nv12.content
        /\ askew' = (askew \/ nv12.content.n = 0)
  /\ UNCHANGED <<swapVars, sizeVars, analyzerVars, task, tasks, mixed>>

PipelineNext ==
  \/ SwapReset \/ SwapRebind
  \/ Analyze \/ Allocate \/ MarkInit \/ Fill \/ Put
  \/ Take \/ Convert \/ Rotate \/ Encode

PipelineSpec == PipelineInit /\ [][PipelineNext]_pipelineVars

-----------------------------------------------------------------------------
(* The arrays fit the pictures, every picture is turned the way its own    *)
(* camera needs and no blank one is encoded, unless the camera was swapped *)
(* with pictures on their way: a swap in a quiet moment is safe, although  *)
(* the sizes are plain fields that the consumer reads three times for one  *)
(* picture (CameraLiveActivity 158-202, 533-536, 574-616).  "overflow", a  *)
(* picture larger than the encoder's, needs no race, but a swap; and in    *)
(* quiet moments one to a camera with larger pictures than those the       *)
(* encoder was made for (CameraLiveActivity 330-339).                      *)
StaleNeedsMixing ==
  /\ broken \in {"underflow", "bounds", "overrun"} \/ askew => mixed
  /\ broken = "overflow" => swaps > 0 /\ (mixed \/ codecSize < SizeOf[camera])

InOrderStep == encoded'.n >= encoded.n

(* The viewers never see an older picture after a newer one, although      *)
(* queued tasks share their arrays and show whatever came last             *)
(* (CameraLiveActivity 193-198, 566-576).                                  *)
PicturesInOrder == [][InOrderStep]_pipelineVars

=============================================================================
