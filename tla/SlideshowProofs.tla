--------------------------- MODULE SlideshowProofs ---------------------------
(***************************************************************************)
(* Theorems about Slideshow for every set of files and every length of a   *)
(* fade.                                                                   *)
(***************************************************************************)
EXTENDS Slideshow, TLAPS

\* The types that hold step by step; that the queues hold one element at most
\* follows from LoadsFollow.
Shape ==
  /\ directory \subseteq Files /\ filename_list \subseteq Files
  /\ surf \subseteq Files
  /\ sort_images \in BOOLEAN /\ background_color \in BOOLEAN /\ has_size \in BOOLEAN
  /\ update_image_id \in BOOLEAN /\ results_pull_id \in BOOLEAN
  /\ op_q \in Nat
  /\ worker \in {"unborn", "idle", "loading", "loaded"}
  /\ pixbuf \in Pixbuf /\ pat1 \in Pixbuf /\ pat2 \in Pixbuf
  /\ results_q \in Seq(Pixbuf)
  /\ fade_ticks \in 0..N_FADE_TICKS
  /\ fade_disabled \in BOOLEAN /\ dropped \in BOOLEAN
  /\ changes \in 0..MaxChanges /\ resizes \in 0..MaxResizes

Loads == Shape /\ LoadsFollow

-----------------------------------------------------------------------------
(***************************************************************************)
(* Types.                                                                  *)
(***************************************************************************)
LEMMA ShapeInit == Init => Shape
<1>. SUFFICES ASSUME Init PROVE Shape
  OBVIOUS
<1>1. fade_ticks \in 0..N_FADE_TICKS /\ changes \in 0..MaxChanges
      /\ resizes \in 0..MaxResizes /\ op_q \in Nat
  BY SlideshowAssumption DEF Init
<1>2. results_q \in Seq(Pixbuf) /\ Null \in Pixbuf
  BY DEF Init, Pixbuf
<1>. QED
  BY <1>1, <1>2 DEF Init, Shape

\* What is read is a file or nothing.
LEMMA ReadType ==
  ASSUME Shape, get_pixbuf_from_local_dir
  PROVE  pixbuf' \in Pixbuf /\ filename_list' \subseteq Files
<1>. DEFINE list == IF filename_list = {} THEN directory ELSE filename_list
<1>1. list \subseteq Files
  BY DEF Shape
<1>2. CASE pixbuf' = Null /\ filename_list' = {}
  BY <1>2 DEF Pixbuf
<1>3. ASSUME NEW f \in Candidates(list),
             pixbuf' = scale_pixbuf(f), filename_list' = list \ {f}
      PROVE  pixbuf' \in Pixbuf /\ filename_list' \subseteq Files
  <2>1. f \in Files
    BY <1>1 DEF Candidates
  <2>. QED
    BY <1>1, <1>3, <2>1 DEF scale_pixbuf, Pixbuf
<1>. QED
  BY <1>2, <1>3 DEF get_pixbuf_from_local_dir

\* A frame draws a picture, and ends at the last tick.
LEMMA FrameType ==
  ASSUME Shape, draw_iter
  PROVE  /\ surf' \subseteq Files
         /\ fade_ticks' \in 0..N_FADE_TICKS /\ fade_disabled' \in BOOLEAN
         /\ pat1' \in Pixbuf /\ pat2' \in Pixbuf
         /\ update_image_id' \in BOOLEAN
<1>1. pat2 \in Files /\ Null \in Pixbuf
  BY DEF Shape, draw_iter, Pixbuf
<1>2. CASE WholeFrame
  BY <1>1, <1>2 DEF Shape, WholeFrame, update_display, finish_fade, start_new_load
<1>3. CASE FadeFrame
  <2>1. surf' \subseteq Files
    BY <1>1, <1>3 DEF Shape, FadeFrame, update_display
  <2>2. fade_ticks' \in 0..N_FADE_TICKS
    <3>1. fade_ticks' = fade_ticks + 1 \/ fade_ticks' = N_FADE_TICKS - 1
      BY <1>3 DEF FadeFrame
    <3>2. fade_ticks + 1 <= N_FADE_TICKS /\ fade_ticks \in Nat
      BY <1>3, SlideshowAssumption DEF FadeFrame, Shape
    <3>. QED
      BY <3>1, <3>2, SlideshowAssumption
  <2>4. fade_disabled' \in BOOLEAN
    BY <1>3 DEF Shape, FadeFrame
  <2>3. pat1' \in Pixbuf /\ pat2' \in Pixbuf /\ update_image_id' \in BOOLEAN
    BY <1>1, <1>3, SlideshowAssumption
    DEF Shape, FadeFrame, finish_fade, start_new_load
  <2>. QED
    BY <2>1, <2>2, <2>3, <2>4
<1>. QED
  BY <1>2, <1>3 DEF draw_iter

LEMMA ShapeStep == Shape /\ [Next]_vars => Shape'
<1>. SUFFICES ASSUME Shape, [Next]_vars PROVE Shape'
  OBVIOUS
<1>. USE DEF dirVars, workerVars, resultVars, fadeVars, sizeVars
<1>1. CASE push_load_image_func
  <2>1. op_q' \in Nat
    BY <1>1 DEF Shape, push_load_image_func
  <2>. QED
    BY <1>1, <2>1 DEF Shape, push_load_image_func
<1>2. CASE results_pull_func
  <2>1. pat2' \in Pixbuf /\ fade_ticks' \in 0..N_FADE_TICKS
    BY <1>2, SlideshowAssumption
    DEF Shape, results_pull_func, process_new_pixbuf, start_fade, Pictures
  <2>2. update_image_id' \in BOOLEAN
    BY <1>2 DEF Shape, results_pull_func, process_new_pixbuf, start_new_load
  <2>3. results_q' \in Seq(Pixbuf)
    BY <1>2 DEF results_pull_func
  <2>. QED
    BY <1>2, <2>1, <2>2, <2>3 DEF Shape, results_pull_func
<1>3. CASE draw_iter
  BY <1>3, FrameType DEF Shape, draw_iter
<1>4. CASE TakeLoad
  <2>1. op_q' \in Nat
    BY <1>4 DEF Shape, TakeLoad
  <2>2. worker' \in {"unborn", "idle", "loading", "loaded"} /\ dropped' \in BOOLEAN
    BY <1>4 DEF Shape, TakeLoad
  <2>. QED
    BY <1>4, <2>1, <2>2 DEF Shape, TakeLoad
<1>5. CASE ReadFile
  BY <1>5, ReadType DEF Shape, ReadFile
<1>6. CASE PushResult
  BY <1>6 DEF Shape, PushResult, Pixbuf
<1>7. CASE size_allocate
  BY <1>7 DEF Shape, size_allocate
<1>8. CASE Configure
  BY <1>8, SlideshowAssumption DEF Shape, Configure
<1>9. CASE FilesChange
  <2>1. directory' \subseteq Files
    BY <1>9 DEF Shape, FilesChange
  <2>. QED
    BY <1>9, <2>1, SlideshowAssumption DEF Shape, FilesChange
<1>10. CASE UNCHANGED vars
  BY <1>10 DEF Shape, vars
<1>. QED
  BY <1>1, <1>2, <1>3, <1>4, <1>5, <1>6, <1>7, <1>8, <1>9, <1>10
  DEF Next, MainLoop, Worker

-----------------------------------------------------------------------------
(***************************************************************************)
(* One load is under way.                                                  *)
(***************************************************************************)
\* The stages as numbers of loads.
LEMMA StagesAre ==
  \E a, b, c, d \in {0, 1} :
    /\ a = 1 <=> update_image_id
    /\ b = 1 <=> worker \in {"loading", "loaded"}
    /\ c = 1 <=> pat2 # Null
    /\ d = 1 <=> ~dropped
    /\ Stages = a + op_q + b + Len(results_q) + c
    /\ Count(~dropped) = d
<1>1. /\ Count(update_image_id) \in {0, 1}
      /\ Count(worker \in {"loading", "loaded"}) \in {0, 1}
      /\ Count(pat2 # Null) \in {0, 1} /\ Count(~dropped) \in {0, 1}
  BY DEF Count
<1>2. /\ Count(update_image_id) = 1 <=> update_image_id
      /\ Count(worker \in {"loading", "loaded"}) = 1 <=> worker \in {"loading", "loaded"}
      /\ Count(pat2 # Null) = 1 <=> pat2 # Null
      /\ Count(~dropped) = 1 <=> ~dropped
  BY DEF Count
<1>3. Stages = Count(update_image_id) + op_q + Count(worker \in {"loading", "loaded"})
                 + Len(results_q) + Count(pat2 # Null)
  BY DEF Stages
<1>. QED
  BY <1>1, <1>2, <1>3, Zenon

\* A result that waits is the only one, and no other stage is occupied.
LEMMA OneResult ==
  ASSUME Loads, results_pull_id
  PROVE  /\ Len(results_q) = 1 /\ DOMAIN results_q = {1}
         /\ ~dropped /\ ~update_image_id /\ op_q = 0 /\ pat2 = Null
         /\ worker \notin {"loading", "loaded"}
<1>1. results_q \in Seq(Pixbuf) /\ results_q # <<>>
  BY DEF Loads, Shape, LoadsFollow
<1>2. Len(results_q) \in Nat \ {0}
  BY <1>1
<1>3. /\ Stages = Count(~dropped) /\ op_q \in Nat
  BY DEF Loads, Shape, LoadsFollow
<1>4. PICK a, b, c, d \in {0, 1} :
        /\ a = 1 <=> update_image_id
        /\ b = 1 <=> worker \in {"loading", "loaded"}
        /\ c = 1 <=> pat2 # Null
        /\ d = 1 <=> ~dropped
        /\ Stages = a + op_q + b + Len(results_q) + c
        /\ Count(~dropped) = d
  BY StagesAre
<1>5. /\ Len(results_q) = 1 /\ op_q = 0 /\ a = 0 /\ b = 0 /\ c = 0 /\ d = 1
  <2>1. a + op_q + b + Len(results_q) + c = d
    BY <1>3, <1>4, Zenon
  <2>2. op_q \in Nat /\ Len(results_q) \in Nat /\ Len(results_q) >= 1
    BY <1>2, <1>3
  <2>3. a \in Nat /\ b \in Nat /\ c \in Nat /\ d \in Nat /\ d <= 1
    OBVIOUS
  <2>4. a = 0 /\ op_q = 0 /\ b = 0 /\ c = 0 /\ d = 1
    BY <2>1, <2>2, <2>3
  <2>5. Len(results_q) = 1
    BY <2>1, <2>2, <2>4
  <2>. QED
    BY <2>4, <2>5
<1>6. DOMAIN results_q = 1..1
  BY <1>1, <1>5
<1>. QED
  BY <1>1, <1>4, <1>5, <1>6

LEMMA LoadsInit == Init => Loads
<1>. SUFFICES ASSUME Init PROVE Loads
  OBVIOUS
<1>1. Shape
  BY ShapeInit
<1>2. LoadsFollow
  BY DEF Init, LoadsFollow, Stages, Count
<1>. QED
  BY <1>1, <1>2 DEF Loads

LEMMA LoadsStep == Loads /\ [Next]_vars => Loads'
<1>. SUFFICES ASSUME Loads, [Next]_vars PROVE LoadsFollow'
  BY ShapeStep DEF Loads
<1>. USE DEF dirVars, workerVars, resultVars, fadeVars, sizeVars
<1>0. /\ Stages = Count(~dropped) /\ (results_pull_id <=> results_q # <<>>)
      /\ op_q \in Nat /\ results_q \in Seq(Pixbuf) /\ Len(results_q) \in Nat
      /\ worker \in {"unborn", "idle", "loading", "loaded"}
      /\ update_image_id \in BOOLEAN /\ dropped \in BOOLEAN
  BY DEF Loads, Shape, LoadsFollow
<1>1. CASE push_load_image_func
  BY <1>0, <1>1 DEF push_load_image_func, LoadsFollow, Stages, Count
<1>2. CASE results_pull_func
  <2>1. Len(results_q) = 1 /\ DOMAIN results_q = {1} /\ ~dropped
        /\ ~update_image_id /\ op_q = 0 /\ pat2 = Null
        /\ worker \notin {"loading", "loaded"}
    BY <1>2, OneResult DEF results_pull_func
  <2>2. results_q' = <<>> /\ ~results_pull_id' /\ Len(<<>>) = 0
    BY <1>2 DEF results_pull_func
  <2>3. op_q' = op_q /\ worker' = worker /\ dropped' = dropped
    BY <1>2 DEF results_pull_func
  <2>4. CASE results_q[1] = Null
    <3>1. Pictures(results_q) = {}
      BY <2>1, <2>4 DEF Pictures
    <3>2. update_image_id' = TRUE /\ pat2' = Null
      BY <1>2, <2>1, <3>1
      DEF results_pull_func, process_new_pixbuf, start_new_load
    <3>. QED
      BY <2>1, <2>2, <2>3, <3>2 DEF LoadsFollow, Stages, Count
  <2>5. CASE results_q[1] # Null
    <3>1. Pictures(results_q) = {1}
      BY <2>1, <2>5 DEF Pictures
    <3>2. update_image_id' = update_image_id /\ pat2' = results_q[1]
      BY <1>2, <2>1, <3>1 DEF results_pull_func, process_new_pixbuf, start_fade
    <3>. QED
      BY <2>1, <2>2, <2>3, <2>5, <3>2 DEF LoadsFollow, Stages, Count
  <2>. QED
    BY <2>4, <2>5
<1>3. CASE draw_iter
  <2>1. pat2 # Null /\ ~update_image_id
    BY <1>0, <1>3 DEF draw_iter, Stages, Count
  <2>2. \/ pat2' = pat2 /\ update_image_id' = update_image_id
        \/ pat2' = Null /\ update_image_id' = TRUE
    BY <1>3 DEF draw_iter, FadeFrame, WholeFrame, finish_fade, start_new_load
  <2>3. /\ results_q' = results_q /\ results_pull_id' = results_pull_id
        /\ op_q' = op_q /\ worker' = worker /\ dropped' = dropped
    BY <1>3 DEF draw_iter
  <2>. QED
    BY <1>0, <2>1, <2>2, <2>3 DEF LoadsFollow, Stages, Count
<1>4. CASE TakeLoad
  <2>1. op_q > 0 /\ op_q' = op_q - 1 /\ worker = "idle"
    BY <1>4 DEF TakeLoad
  <2>2. PICK a, b, c, d \in {0, 1} :
          /\ a = 1 <=> update_image_id
          /\ b = 1 <=> worker \in {"loading", "loaded"}
          /\ c = 1 <=> pat2 # Null
          /\ d = 1 <=> ~dropped
          /\ Stages = a + op_q + b + Len(results_q) + c
          /\ Count(~dropped) = d
    BY StagesAre
  <2>3. d = 1 /\ b = 0 /\ a + op_q + Len(results_q) + c = 1
    BY <1>0, <2>1, <2>2
  <2>4. /\ op_q = 1 /\ a = 0 /\ c = 0 /\ Len(results_q) = 0
    BY <1>0, <2>1, <2>3
  <2>5. /\ ~update_image_id' /\ pat2' = Null /\ results_q' = results_q
        /\ results_pull_id' = results_pull_id /\ op_q' = 0
    BY <1>0, <1>4, <2>1, <2>2, <2>4 DEF TakeLoad
  <2>6. \/ dropped' = TRUE /\ worker' = "idle"
        \/ ~dropped' /\ worker' = "loading"
    BY <1>4, <2>1, <2>2, <2>3 DEF TakeLoad
  <2>7. Stages' = Count((~dropped)')
    BY <2>4, <2>5, <2>6 DEF Stages, Count
  <2>. QED
    BY <1>0, <2>5, <2>7 DEF LoadsFollow
<1>5. CASE ReadFile
  BY <1>0, <1>5 DEF ReadFile, LoadsFollow, Stages, Count
<1>6. CASE PushResult
  <2>1. results_q' = Append(results_q, pixbuf) /\ pixbuf \in Pixbuf
    BY <1>6 DEF PushResult, Loads, Shape
  <2>2. Len(results_q') = Len(results_q) + 1 /\ results_q' # <<>>
    BY <1>0, <2>1
  <2>3. /\ worker = "loaded" /\ worker' = "idle" /\ results_pull_id'
        /\ update_image_id' = update_image_id /\ op_q' = op_q
        /\ pat2' = pat2 /\ dropped' = dropped
    BY <1>6 DEF PushResult
  <2>4. /\ Count(worker \in {"loading", "loaded"}) = 1
        /\ Count((worker \in {"loading", "loaded"})') = 0
        /\ Count(update_image_id) \in {0, 1} /\ Count(pat2 # Null) \in {0, 1}
    BY <2>3 DEF Count
  <2>5. Stages' = Stages
    BY <1>0, <2>2, <2>3, <2>4 DEF Stages
  <2>. QED
    BY <1>0, <2>2, <2>3, <2>5 DEF LoadsFollow, Count
<1>7. CASE size_allocate
  BY <1>0, <1>7 DEF size_allocate, LoadsFollow, Stages, Count
<1>8. CASE Configure
  BY <1>0, <1>8 DEF Configure, LoadsFollow, Stages, Count
<1>9. CASE FilesChange
  BY <1>0, <1>9 DEF FilesChange, LoadsFollow, Stages, Count
<1>10. CASE UNCHANGED vars
  BY <1>0, <1>10 DEF vars, LoadsFollow, Stages, Count
<1>. QED
  BY <1>1, <1>2, <1>3, <1>4, <1>5, <1>6, <1>7, <1>8, <1>9, <1>10
  DEF Next, MainLoop, Worker

\* Across both threads exactly one load is under way until one is dropped, and
\* the idle source is there exactly while a result waits (gste-slideshow.c).
THEOREM OneLoad == Spec => []LoadsFollow
<1>1. Loads => LoadsFollow
  BY DEF Loads
<1>. QED
  BY <1>1, LoadsInit, LoadsStep, PTL DEF Spec

\* The state stays within its types; neither queue ever holds two elements.
THEOREM SlideshowTypes == Spec => []TypeOK
<1>1. Loads => TypeOK
  <2>. SUFFICES ASSUME Loads PROVE TypeOK
    OBVIOUS
  <2>1. Shape /\ Stages = Count(~dropped) /\ Len(results_q) \in Nat /\ op_q \in Nat
    BY DEF Loads, LoadsFollow, Shape
  <2>2. op_q \in {0, 1} /\ Len(results_q) \in {0, 1}
    <3>1. PICK a, b, c, d \in {0, 1} :
            Stages = a + op_q + b + Len(results_q) + c /\ Count(~dropped) = d
      BY StagesAre
    <3>2. a + op_q + b + Len(results_q) + c = d
      BY <2>1, <3>1, Zenon
    <3>3. op_q \in Nat /\ Len(results_q) \in Nat
      BY <2>1
    <3>. QED
      BY <3>2, <3>3
  <2>3. results_q \in {<<>>} \cup {<<p>> : p \in Pixbuf}
    <3>1. results_q \in Seq(Pixbuf)
      BY <2>1 DEF Shape
    <3>2. CASE Len(results_q) = 0
      BY <3>1, <3>2
    <3>3. CASE Len(results_q) = 1
      <4>1. results_q = <<results_q[1]>> /\ results_q[1] \in Pixbuf
        BY <3>1, <3>3
      <4>. QED
        BY <4>1
    <3>. QED
      BY <2>2, <3>2, <3>3
  <2>. QED
    BY <2>1, <2>2, <2>3 DEF Shape, TypeOK
<1>. QED
  BY <1>1, LoadsInit, LoadsStep, PTL DEF Spec

-----------------------------------------------------------------------------
(***************************************************************************)
(* What fades leave on the back buffer.                                    *)
(***************************************************************************)
\* Also during a fade, at most one of the other pictures covers.
Beneath ==
  \A p, q \in surf : p # pat2 /\ q # pat2 /\ Covers(p) /\ Covers(q) => p = q

Clean == FadeEndsClean /\ Beneath

\* A frame paints the picture over others, and one that ends the fade leaves
\* nothing beneath it if it covers.
LEMMA FramePaints ==
  ASSUME Shape, draw_iter
  PROVE  /\ surf' \subseteq surf \cup {pat2}
         /\ \/ pat2' = pat2
            \/ /\ pat2' = Null /\ pat1' = pat2 /\ pat2 \in surf'
               /\ Covers(pat2) => surf' = {pat2}
<1>1. CASE WholeFrame
  BY <1>1 DEF WholeFrame, update_display, finish_fade
<1>2. CASE FadeFrame
  <2>1. surf' \subseteq surf \cup {pat2}
    BY <1>2 DEF FadeFrame, update_display
  <2>2. CASE UNCHANGED pat2
    BY <2>1, <2>2
  <2>3. CASE fade_ticks + 1 = N_FADE_TICKS /\ finish_fade
    BY <1>2, <2>1, <2>3 DEF FadeFrame, update_display, finish_fade
  <2>. QED
    BY <1>2, <2>2, <2>3 DEF FadeFrame
<1>. QED
  BY <1>1, <1>2 DEF draw_iter

LEMMA CleanStep ==
  ASSUME Loads, Clean, [Next]_vars
  PROVE  Clean'
<1>. USE DEF dirVars, workerVars, resultVars, fadeVars, sizeVars
<1>c. \A p : Covers(p)' <=> Covers(p)
  <2>1. background_color' = background_color
    BY DEF Next, MainLoop, Worker, vars, push_load_image_func, results_pull_func,
       draw_iter, TakeLoad, ReadFile, PushResult, size_allocate, Configure, FilesChange
  <2>. QED
    BY <2>1 DEF Covers
<1>1. CASE results_pull_func
  <2>1. pat2 = Null /\ UNCHANGED <<surf, pat1>>
    BY <1>1, OneResult DEF results_pull_func
  <2>2. \A p, q \in surf : Covers(p) /\ Covers(q) => p = q
    BY <2>1 DEF Clean, FadeEndsClean
  <2>. QED
    BY <1>c, <2>1, <2>2 DEF Clean, FadeEndsClean, Beneath
<1>2. CASE draw_iter
  <2>1. /\ surf' \subseteq surf \cup {pat2} /\ pat2 # Null
        /\ \/ pat2' = pat2
           \/ /\ pat2' = Null /\ pat1' = pat2 /\ pat2 \in surf'
              /\ Covers(pat2) => surf' = {pat2}
    BY <1>2, FramePaints DEF Loads, draw_iter
  <2>2. CASE pat2' = pat2
    BY <1>c, <2>1, <2>2 DEF Clean, FadeEndsClean, Beneath
  <2>3. CASE pat2' = Null /\ pat1' = pat2 /\ pat2 \in surf' /\ Covers(pat2) /\ surf' = {pat2}
    BY <1>c, <2>3 DEF Clean, FadeEndsClean, Beneath
  <2>4. CASE pat2' = Null /\ pat1' = pat2 /\ pat2 \in surf' /\ ~Covers(pat2)
    <3>1. \A p, q \in surf' : Covers(p) /\ Covers(q) => p = q
      BY <2>1, <2>4 DEF Clean, Beneath
    <3>. QED
      BY <1>c, <2>4, <3>1 DEF Clean, FadeEndsClean, Beneath
  <2>. QED
    BY <2>1, <2>2, <2>3, <2>4
<1>3. CASE Configure
  BY <1>3 DEF Configure, Clean, FadeEndsClean, Beneath
<1>4. CASE UNCHANGED <<pat1, pat2, surf>>
  BY <1>c, <1>4 DEF Clean, FadeEndsClean, Beneath
<1>. QED
  BY <1>1, <1>2, <1>3, <1>4
  DEF Next, MainLoop, Worker, vars, push_load_image_func, TakeLoad, ReadFile,
      PushResult, size_allocate, FilesChange

\* Between fades the back buffer shows the current picture, and nothing else if
\* that one is opaque or there is a background color, however the fade ended: by
\* its last frame or disabled half way (draw_iter).  Beneath a transparent one at
\* most one picture is left that covers.
THEOREM CleanFades == Spec => []FadeEndsClean
<1>1. Init => Clean
  BY DEF Init, Clean, FadeEndsClean, Beneath
<1>2. Loads /\ Clean /\ [Next]_vars => Clean'
  BY CleanStep
<1>3. Clean => FadeEndsClean
  BY DEF Clean
<1>. QED
  BY <1>1, <1>2, <1>3, LoadsInit, LoadsStep, PTL DEF Spec

-----------------------------------------------------------------------------
(***************************************************************************)
(* The two threads implement PictureShow.                                  *)
(***************************************************************************)
\* The worker has a picture in its hands only until it has queued it.
Carries == Loads /\ (worker # "loaded" => pixbuf = Null)

LEMMA CarriesInit == Init => Carries
  BY LoadsInit DEF Init, Carries

LEMMA CarriesStep == Carries /\ [Next]_vars => Carries'
<1>. SUFFICES ASSUME Carries, [Next]_vars
              PROVE  worker' # "loaded" => pixbuf' = Null
  BY LoadsStep DEF Carries
<1>1. CASE TakeLoad
  BY <1>1 DEF Carries, TakeLoad
<1>2. CASE ReadFile \/ PushResult
  BY <1>2 DEF ReadFile, PushResult
<1>3. CASE UNCHANGED <<pixbuf, worker>>
  BY <1>3 DEF Carries
<1>4. CASE size_allocate
  BY <1>4 DEF Carries, size_allocate
<1>. QED
  BY <1>1, <1>2, <1>3, <1>4
  DEF Next, MainLoop, Worker, vars, workerVars, push_load_image_func,
      results_pull_func, draw_iter, Configure, FilesChange

\* Since one load is under way, wherever it is seen is the stage of the show.
Staged ==
  /\ update_image_id => Stage = "waiting" /\ Picture = Null
  /\ op_q > 0 \/ worker = "loading" => Stage = "reading" /\ Picture = Null
  /\ worker = "loaded" => Stage = "read" /\ Picture = pixbuf
  /\ results_pull_id =>
       Stage = "read" /\ Picture = results_q[1] /\ DOMAIN results_q = {1}
  /\ pat2 # Null => Stage = "fading" /\ Picture = pat2
  /\ dropped => Stage = "stopped" /\ Picture = Null

LEMMA OneStage == Carries => Staged
<1>. SUFFICES ASSUME Carries PROVE Staged
  OBVIOUS
<1>1. PICK a, b, c, d \in {0, 1} :
        /\ a = 1 <=> update_image_id
        /\ b = 1 <=> worker \in {"loading", "loaded"}
        /\ c = 1 <=> pat2 # Null
        /\ d = 1 <=> ~dropped
        /\ Stages = a + op_q + b + Len(results_q) + c
        /\ Count(~dropped) = d
  BY StagesAre
<1>2. /\ op_q \in Nat /\ results_q \in Seq(Pixbuf) /\ Len(results_q) \in Nat
      /\ Stages = Count(~dropped)
      /\ results_pull_id <=> results_q # <<>>
      /\ worker # "loaded" => pixbuf = Null
  BY DEF Carries, Loads, Shape, LoadsFollow
<1>3. a + op_q + b + Len(results_q) + c = d
  BY <1>1, <1>2, Zenon
<1>4. results_q = <<>> <=> Len(results_q) = 0
  BY <1>2
<1>5. /\ a = 1 => op_q = 0 /\ b = 0 /\ Len(results_q) = 0 /\ c = 0 /\ d = 1
      /\ op_q > 0 => a = 0 /\ b = 0 /\ Len(results_q) = 0 /\ c = 0 /\ d = 1
      /\ b = 1 => a = 0 /\ op_q = 0 /\ Len(results_q) = 0 /\ c = 0 /\ d = 1
      /\ Len(results_q) # 0 => a = 0 /\ op_q = 0 /\ b = 0 /\ c = 0 /\ d = 1
      /\ c = 1 => a = 0 /\ op_q = 0 /\ b = 0 /\ Len(results_q) = 0 /\ d = 1
      /\ d = 0 => a = 0 /\ op_q = 0 /\ b = 0 /\ Len(results_q) = 0 /\ c = 0
  BY <1>2, <1>3
<1>6. update_image_id => Stage = "waiting" /\ Picture = Null
  BY <1>1, <1>2, <1>4, <1>5 DEF Stage, Picture
<1>7. op_q > 0 \/ worker = "loading" => Stage = "reading" /\ Picture = Null
  BY <1>1, <1>2, <1>4, <1>5 DEF Stage, Picture
<1>8. worker = "loaded" => Stage = "read" /\ Picture = pixbuf
  BY <1>1, <1>2, <1>4, <1>5 DEF Stage, Picture
<1>9. results_pull_id =>
        Stage = "read" /\ Picture = results_q[1] /\ DOMAIN results_q = {1}
  <2>. SUFFICES ASSUME results_pull_id
                PROVE  Stage = "read" /\ Picture = results_q[1] /\ DOMAIN results_q = {1}
    OBVIOUS
  <2>1. DOMAIN results_q = {1}
    BY OneResult DEF Carries
  <2>. QED
    BY <1>1, <1>2, <1>4, <1>5, <2>1 DEF Stage, Picture
<1>10. pat2 # Null => Stage = "fading" /\ Picture = pat2
  BY <1>1, <1>2, <1>4, <1>5 DEF Stage, Picture
<1>11. dropped => Stage = "stopped" /\ Picture = Null
  BY <1>1, <1>2, <1>4, <1>5 DEF Stage, Picture
<1>. QED
  BY <1>6, <1>7, <1>8, <1>9, <1>10, <1>11 DEF Staged

LEMMA ShowInit == Init => Show!Init
  BY DEF Init, Show!Init, Stage, Picture, Show!Nothing, Null

\* What a step that leaves the files alone has to show.
LEMMA ReadShown ==
  ASSUME Shape, Staged, Staged', ReadFile
  PROVE  Show!Read
<1>. DEFINE list == IF filename_list = {} THEN directory ELSE filename_list
<1>1. /\ worker = "loading" /\ worker' = "loaded"
      /\ UNCHANGED <<directory, sort_images, pat1>>
      /\ get_pixbuf_from_local_dir
  BY DEF ReadFile, dirVars, fadeVars
<1>2. Stage = "reading" /\ Picture = Null /\ Stage' = "read" /\ Picture' = pixbuf'
  BY <1>1 DEF Staged
<1>3. Show!Remaining = list
  BY DEF Show!Remaining
<1>4. CASE list = {} /\ pixbuf' = Null /\ filename_list' = {}
  <2>1. filename_list = {}
    BY <1>4
  <2>. QED
    BY <1>1, <1>2, <1>3, <1>4, <2>1 DEF Show!Read
<1>5. ASSUME NEW f \in Candidates(list),
             pixbuf' = scale_pixbuf(f), filename_list' = list \ {f}
      PROVE  Show!Read
  <2>1. f \in list /\ (sort_images => \A g \in list : f <= g)
    BY DEF Candidates
  <2>2. list \subseteq Files
    BY DEF Shape
  <2>3. Picture' = IF f \in directory \cap (Files \ Thumbnails) THEN f ELSE Show!Nothing
    BY <1>2, <1>5, <2>1, <2>2 DEF scale_pixbuf, Show!Nothing, Null
  <2>. HIDE DEF list
  <2>. QED
    BY <1>1, <1>2, <1>3, <1>5, <2>1, <2>3 DEF Show!Read
<1>. QED
  BY <1>1, <1>4, <1>5 DEF get_pixbuf_from_local_dir

LEMMA ShowStep ==
  Carries /\ Carries' /\ Staged /\ Staged' /\ [Next]_vars => [Show!Next]_(Show!show)
<1>. SUFFICES ASSUME Carries, Carries', Staged, Staged', [Next]_vars
              PROVE  Show!Next \/ UNCHANGED Show!show
  OBVIOUS
<1>. USE DEF dirVars, workerVars, resultVars, fadeVars, sizeVars
<1>1. CASE push_load_image_func
  <2>1. /\ update_image_id /\ op_q' = op_q + 1 /\ op_q \in Nat
        /\ UNCHANGED <<directory, sort_images, filename_list, pat1>>
    BY <1>1 DEF push_load_image_func, Carries, Loads, Shape
  <2>2. op_q' > 0
    BY <2>1
  <2>3. Stage = "waiting" /\ Stage' = "reading" /\ Picture = Null /\ Picture' = Null
    BY <2>1, <2>2 DEF Staged
  <2>. QED
    BY <2>1, <2>3 DEF Show!Next, Show!Begin
<1>2. CASE results_pull_func
  <2>1. /\ results_pull_id /\ UNCHANGED <<directory, sort_images, filename_list, pat1>>
        /\ process_new_pixbuf(results_q)
    BY <1>2 DEF results_pull_func
  <2>2. /\ Stage = "read" /\ Picture = results_q[1] /\ DOMAIN results_q = {1}
        /\ pat2 = Null /\ ~update_image_id
    BY <2>1, OneResult DEF Staged, Carries
  <2>3. CASE results_q[1] = Null
    <3>1. Pictures(results_q) = {}
      BY <2>2, <2>3 DEF Pictures
    <3>2. update_image_id'
      BY <2>1, <2>2, <3>1 DEF process_new_pixbuf, start_new_load
    <3>3. Stage' = "waiting" /\ Picture' = Null
      BY <3>2 DEF Staged
    <3>. QED
      BY <2>1, <2>2, <2>3, <3>3 DEF Show!Next, Show!Skip, Show!Nothing, Null
  <2>4. CASE results_q[1] # Null
    <3>1. Pictures(results_q) = {1}
      BY <2>2, <2>4 DEF Pictures
    <3>2. pat2' = results_q[1]
      BY <2>1, <2>2, <3>1 DEF process_new_pixbuf, start_fade
    <3>3. Stage' = "fading" /\ Picture' = results_q[1]
      BY <2>4, <3>2 DEF Staged
    <3>. QED
      BY <2>1, <2>2, <2>4, <3>3 DEF Show!Next, Show!Fade, Show!Nothing, Null
  <2>. QED
    BY <2>3, <2>4
<1>3. CASE draw_iter
  <2>1. /\ pat2 # Null /\ UNCHANGED <<directory, sort_images, filename_list>>
        /\ FadeFrame \/ WholeFrame
    BY <1>3 DEF draw_iter
  <2>2. Stage = "fading" /\ Picture = pat2
    BY <2>1 DEF Staged
  <2>3. CASE pat1' = pat2 /\ update_image_id'
    <3>1. Stage' = "waiting" /\ Picture' = Null
      BY <2>3 DEF Staged
    <3>. QED
      BY <2>1, <2>2, <2>3, <3>1 DEF Show!Next, Show!Show, Show!Nothing, Null
  <2>4. CASE UNCHANGED <<pat1, pat2>>
    <3>1. Stage' = "fading" /\ Picture' = pat2
      BY <2>1, <2>4 DEF Staged
    <3>. QED
      BY <2>1, <2>2, <2>4, <3>1 DEF Show!show
  <2>. QED
    BY <2>1, <2>3, <2>4 DEF FadeFrame, WholeFrame, finish_fade, start_new_load
<1>4. CASE TakeLoad
  <2>1. /\ op_q > 0 /\ UNCHANGED <<directory, sort_images, filename_list, pat1>>
        /\ dropped' = TRUE \/ worker' = "loading"
    BY <1>4 DEF TakeLoad
  <2>2. Stage = "reading" /\ Picture = Null
    BY <2>1 DEF Staged
  <2>3. Picture' = Null /\ (Stage' = "stopped" \/ Stage' = "reading")
    BY <2>1 DEF Staged
  <2>. QED
    BY <2>1, <2>2, <2>3 DEF Show!Next, Show!Stop, Show!show
<1>5. CASE ReadFile
  BY <1>5, ReadShown DEF Carries, Loads, Show!Next
<1>6. CASE PushResult
  <2>1. /\ worker = "loaded" /\ results_pull_id' /\ results_q' = Append(results_q, pixbuf)
        /\ UNCHANGED <<directory, sort_images, filename_list, pat1>>
    BY <1>6 DEF PushResult
  <2>2. Stage = "read" /\ Picture = pixbuf
    BY <2>1 DEF Staged
  <2>3. Stage' = "read" /\ Picture' = results_q'[1] /\ DOMAIN results_q' = {1}
    BY <2>1 DEF Staged
  <2>4. results_q' = <<pixbuf>>
    <3>1. results_q \in Seq(Pixbuf) /\ pixbuf \in Pixbuf
      BY DEF Carries, Loads, Shape
    <3>2. Len(results_q') = Len(results_q) + 1 /\ DOMAIN results_q' = 1..Len(results_q')
      BY <2>1, <3>1
    <3>3. Len(results_q) = 0
      <4>1. Len(results_q) \in Nat /\ 2 \notin 1..(Len(results_q) + 1)
        BY <2>3, <3>1, <3>2
      <4>. QED
        BY <4>1
    <3>4. results_q = <<>>
      BY <3>1, <3>3
    <3>. QED
      BY <2>1, <3>4
  <2>5. Picture' = pixbuf
    BY <2>3, <2>4
  <2>. QED
    BY <2>1, <2>2, <2>3, <2>5 DEF Show!show
<1>7. CASE FilesChange
  <2>1. UNCHANGED <<sort_images, filename_list, pat1, Stage, Picture>>
    BY <1>7 DEF FilesChange, Stage, Picture
  <2>2. directory' \subseteq Files
    BY DEF Carries, Loads, Shape
  <2>. QED
    BY <2>1, <2>2 DEF Show!Next, Show!FilesChange
<1>8. CASE size_allocate
  BY <1>8 DEF size_allocate, Show!show, Stage, Picture
<1>9. CASE Configure \/ UNCHANGED vars
  BY <1>9 DEF Configure, vars, Show!show, Stage, Picture
<1>. QED
  BY <1>1, <1>2, <1>3, <1>4, <1>5, <1>6, <1>7, <1>8, <1>9
  DEF Next, MainLoop, Worker

\* The main loop and the worker (load_threadfunc) with their queues, timer and
\* idle source show the pictures as one sequential program would, for every
\* set of files, every length of a fade, and whatever files come and go.
THEOREM ShowImplemented == Spec => ImplementsPictureShow
<1>1. Carries => Staged
  BY OneStage
<1>. QED
  BY <1>1, CarriesInit, CarriesStep, ShowInit, ShowStep, PTL
  DEF Spec, ImplementsPictureShow, Show!Spec
=============================================================================
