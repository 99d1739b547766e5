----------------------------- MODULE Slideshow -----------------------------
(***************************************************************************)
(* The slideshow saver (savers/gste-slideshow.c): a main loop that         *)
(* schedules loads and draws fades, and a worker thread that reads the     *)
(* pictures, joined by two asynchronous queues.                            *)
(*                                                                         *)
(* A picture goes round one loop: a timer (update_image_id) queues a load, *)
(* the worker takes it, reads a file and queues the result, an idle source *)
(* (results_pull_id) takes the result and either fades the picture in or,  *)
(* when there is none, schedules another load; the end of a fade schedules *)
(* the next load.                                                          *)
(*                                                                         *)
(* Time is abstract: the 10 ms, 100 ms and 10 s timeouts are one kind of   *)
(* timer.  A file is its rank in the order of strcmp.                      *)
(***************************************************************************)
EXTENDS Integers, Sequences, FiniteSets

CONSTANTS
    Files,          \* the paths the directory may hold, in strcmp's order
    Thumbnails,     \* those no picture is made of: unreadable, or small
    Transparent,    \* those whose pictures have an alpha channel
    N_FADE_TICKS,   \* the frames of a fade (10 in the code)
    MaxChanges,     \* how often files come or go (a bound of the model)
    MaxResizes      \* how often the window is resized (a bound of the model)

ASSUME SlideshowAssumption ==
    /\ Files \subseteq Nat
    /\ IsFiniteSet(Files)
    /\ Thumbnails \subseteq Files
    /\ Transparent \subseteq Files
    /\ N_FADE_TICKS \in Nat \ {0}
    /\ MaxChanges \in Nat
    /\ MaxResizes \in Nat

Null == -1              \* a NULL pixbuf or pattern
Pixbuf == Files \cup {Null}

VARIABLES
    directory,          \* the files of images_location
    sort_images,        \* --sort-images
    background_color,   \* --background-color is given
    has_size,           \* window_width and window_height are above 1
    update_image_id,    \* the timer of the next load is set
    op_q,               \* the loads asked of the worker
    worker,             \* where load_threadfunc is
    pixbuf,             \* what the worker has read
    filename_list,      \* the worker's cache of paths not shown yet
    results_q,          \* the pixbufs on their way to the main loop
    results_pull_id,    \* the idle source that takes them is set
    pat1, pat2,         \* the picture at full opacity; the one fading in
    fade_ticks, fade_disabled,
    surf,               \* the pictures that may be seen on the back buffer
    dropped,            \* history: a load ended without a result
    changes, resizes

dirVars == <<directory, sort_images, background_color, changes>>
workerVars == <<worker, pixbuf, filename_list>>
resultVars == <<results_q, results_pull_id>>
fadeVars == <<pat1, pat2, fade_ticks, fade_disabled>>
sizeVars == <<has_size, resizes>>
vars == <<dirVars, workerVars, resultVars, fadeVars, sizeVars, surf,
          update_image_id, op_q, dropped>>

-----------------------------------------------------------------------------
(***************************************************************************)
(* The saver has been shown: the first load and the frames are scheduled.  *)
(* The worker starts with the first allocation, which also gives the size. *)
(***************************************************************************)

\* gste_slideshow_init and gste_slideshow_real_show.
Init ==
    /\ directory \in SUBSET Files
    /\ sort_images \in BOOLEAN
    /\ background_color \in BOOLEAN
    /\ has_size = FALSE
    /\ update_image_id = TRUE
    /\ op_q = 0
    /\ worker = "unborn"
    /\ pixbuf = Null
    /\ filename_list = {}
    /\ results_q = <<>>
    /\ results_pull_id = FALSE
    /\ pat1 = Null
    /\ pat2 = Null
    /\ fade_ticks = 0
    /\ fade_disabled = FALSE
    /\ surf = {}
    /\ dropped = FALSE
    /\ changes = 0
    /\ resizes = 0

\* The first allocation configures the window, then starts the thread.
size_allocate ==
    /\ worker = "unborn"
    /\ worker' = "idle"
    /\ has_size' \in BOOLEAN
    /\ UNCHANGED <<dirVars, pixbuf, filename_list, resultVars, fadeVars,
                   resizes, surf, update_image_id, op_q, dropped>>

\* A resize: the new back buffer is blank until it is next drawn on.
Configure ==
    /\ worker # "unborn"
    /\ resizes < MaxResizes
    /\ resizes' = resizes + 1
    /\ has_size' \in BOOLEAN
    /\ surf' = {}
    /\ UNCHANGED <<dirVars, workerVars, resultVars, fadeVars,
                   update_image_id, op_q, dropped>>

-----------------------------------------------------------------------------
(***************************************************************************)
(* The main loop.                                                          *)
(***************************************************************************)

\* A load that is already scheduled is not scheduled again.
start_new_load == update_image_id' = TRUE

\* The timer of the next load: a request for the worker.
push_load_image_func ==
    /\ update_image_id
    /\ op_q' = op_q + 1
    /\ update_image_id' = FALSE
    /\ UNCHANGED <<dirVars, workerVars, resultVars, fadeVars, sizeVars, surf,
                   dropped>>

\* A picture whose pattern hides all that is beneath it: one with alpha is
\* flattened onto the background color, if there is one.
Covers(picture) == picture \notin Transparent \/ background_color

\* A picture begins to fade in; one still fading is given up.
start_fade(picture) ==
    /\ pat2' = picture
    /\ fade_ticks' = 0

\* The positions of the pictures among the results.
Pictures(results) == {i \in DOMAIN results : results[i] # Null}

\* SLIP: when there is no picture nothing is scheduled.
process_pixbufs_only(results) ==
    /\ \/ \E i \in Pictures(results) :
              /\ \A j \in Pictures(results) : j <= i
              /\ start_fade(results[i])
       \/ /\ Pictures(results) = {}
          /\ UNCHANGED <<pat2, fade_ticks>>
    /\ UNCHANGED update_image_id

\* The main loop's part of each result in turn: a picture begins to fade in,
\* the last one staying, and for a NULL a load is scheduled unless one is.
process_new_pixbuf(results) ==
    /\ \/ \E i \in Pictures(results) :
              /\ \A j \in Pictures(results) : j <= i
              /\ start_fade(results[i])
       \/ /\ Pictures(results) = {}
          /\ UNCHANGED <<pat2, fade_ticks>>
    /\ \/ /\ Pictures(results) # DOMAIN results
          /\ start_new_load
       \/ /\ Pictures(results) = DOMAIN results
          /\ UNCHANGED update_image_id

\* Every result that is there is taken, under the queue's lock.
results_pull_func ==
    /\ results_pull_id
    /\ process_new_pixbuf(results_q)
    /\ results_q' = <<>>
    /\ results_pull_id' = FALSE
    /\ UNCHANGED <<dirVars, workerVars, sizeVars, surf, op_q, dropped, pat1,
                   fade_disabled>>

\* The picture that faded in is the current one.
finish_fade ==
    /\ pat1' = pat2
    /\ pat2' = Null
    /\ start_new_load

\* The picture fading in is painted with alpha2 over what is there, and the margins
\* with the background.  At full opacity a picture that covers is all that is
\* left; any of what was there may be seen through one that does not.
update_display(opaque) ==
    \/ ~opaque /\ surf' = surf \cup {pat2}
    \/ opaque /\ Covers(pat2) /\ surf' = {pat2}
    \/ opaque /\ ~Covers(pat2) /\ \E rest \in SUBSET surf : surf' = rest \cup {pat2}

\* A frame of a fade.  Its last frame is opaque and ends it.
FadeFrame ==
    /\ ~fade_disabled
    /\ fade_ticks + 1 <= N_FADE_TICKS
    /\ update_display(fade_ticks + 1 = N_FADE_TICKS)
    /\ \/ /\ fade_ticks' = fade_ticks + 1
          /\ UNCHANGED fade_disabled
          /\ \/ /\ fade_ticks + 1 = N_FADE_TICKS
                /\ finish_fade
             \/ /\ fade_ticks + 1 < N_FADE_TICKS
                /\ UNCHANGED <<pat1, pat2, update_image_id>>
       \/ /\ fade_ticks' = N_FADE_TICKS - 1     \* fewer than MINIMUM_FPS
          /\ fade_disabled' = TRUE
          /\ UNCHANGED <<pat1, pat2, update_image_id>>

\* SLIP: with fades disabled the frame keeps the opacity of the last one.
WholeFrameFaint ==
    /\ fade_disabled
    /\ update_display(FALSE)
    /\ finish_fade
    /\ UNCHANGED <<fade_ticks, fade_disabled>>

\* With fades disabled the first frame ends the fade.
WholeFrame ==
    /\ fade_disabled
    /\ update_display(TRUE)
    /\ finish_fade
    /\ UNCHANGED <<fade_ticks, fade_disabled>>

\* The frame timer, every 25 ms; it does nothing outside a fade.
draw_iter ==
    /\ pat2 # Null
    /\ FadeFrame \/ WholeFrame
    /\ UNCHANGED <<dirVars, workerVars, resultVars, sizeVars, op_q, dropped>>

-----------------------------------------------------------------------------
(***************************************************************************)
(* The worker thread.                                                      *)
(***************************************************************************)

\* SLIP: the cache is not in the order of strcmp.
CandidatesUnsorted(list) == list

\* The paths one of which is read next.
Candidates(list) ==
    IF sort_images THEN {f \in list : \A g \in list : f <= g} ELSE list

\* The pixbuf a path gives: NULL if the file is gone, cannot be read, or is
\* under 256 pixels wide or high.
scale_pixbuf(f) == IF f \in directory \ Thumbnails THEN f ELSE Null

\* SLIP: the cache keeps the path read.
get_pixbuf_keeping ==
    LET list == IF filename_list = {} THEN directory ELSE filename_list
    IN  \/ /\ list = {}
           /\ pixbuf' = Null
           /\ filename_list' = {}
        \/ \E f \in Candidates(list) :
              /\ pixbuf' = scale_pixbuf(f)
              /\ filename_list' = list

\* The cache is rebuilt when it is used up; the path read leaves it.
get_pixbuf_from_local_dir ==
    LET list == IF filename_list = {} THEN directory ELSE filename_list
    IN  \/ /\ list = {}
           /\ pixbuf' = Null
           /\ filename_list' = {}
        \/ \E f \in Candidates(list) :
              /\ pixbuf' = scale_pixbuf(f)
              /\ filename_list' = list \ {f}

\* A load is taken; without a size there is nothing to load for.
TakeLoad ==
    /\ worker = "idle"
    /\ op_q > 0
    /\ op_q' = op_q - 1
    /\ \/ /\ ~has_size
          /\ dropped' = TRUE
          /\ UNCHANGED worker
       \/ /\ has_size
          /\ worker' = "loading"
          /\ UNCHANGED dropped
    /\ UNCHANGED <<dirVars, pixbuf, filename_list, resultVars, fadeVars,
                   sizeVars, surf, update_image_id>>

\* A file is chosen and read.
ReadFile ==
    /\ worker = "loading"
    /\ get_pixbuf_from_local_dir
    /\ worker' = "loaded"
    /\ UNCHANGED <<dirVars, resultVars, fadeVars, sizeVars, surf,
                   update_image_id, op_q, dropped>>

\* The result is queued and the idle source set, under the queue's lock.
PushResult ==
    /\ worker = "loaded"
    /\ results_q' = Append(results_q, pixbuf)
    /\ results_pull_id' = TRUE
    /\ worker' = "idle"
    /\ pixbuf' = Null
    /\ UNCHANGED <<dirVars, filename_list, fadeVars, sizeVars, surf,
                   update_image_id, op_q, dropped>>

-----------------------------------------------------------------------------
\* The user puts a file into the directory or takes one out.
FilesChange ==
    /\ changes < MaxChanges
    /\ changes' = changes + 1
    /\ \E f \in Files :
          directory' = IF f \in directory THEN directory \ {f}
                                          ELSE directory \cup {f}
    /\ UNCHANGED <<sort_images, background_color, workerVars, resultVars, fadeVars, sizeVars,
                   surf, update_image_id, op_q, dropped>>

MainLoop == push_load_image_func \/ results_pull_func \/ draw_iter

Worker == TakeLoad \/ ReadFile \/ PushResult

Next ==
    \/ MainLoop
    \/ Worker
    \/ size_allocate
    \/ Configure
    \/ FilesChange

Spec == Init /\ [][Next]_vars

\* Both threads are scheduled, timers fire, and a window that is shown is
\* allocated a size.
FairSpec ==
    /\ Spec
    /\ WF_vars(push_load_image_func)
    /\ WF_vars(results_pull_func)
    /\ WF_vars(draw_iter)
    /\ WF_vars(Worker)
    /\ WF_vars(size_allocate)

-----------------------------------------------------------------------------
TypeOK ==
    /\ directory \subseteq Files
    /\ sort_images \in BOOLEAN
    /\ background_color \in BOOLEAN
    /\ has_size \in BOOLEAN
    /\ update_image_id \in BOOLEAN
    /\ op_q \in {0, 1}
    /\ worker \in {"unborn", "idle", "loading", "loaded"}
    /\ pixbuf \in Pixbuf
    /\ filename_list \subseteq Files
    /\ results_q \in {<<>>} \cup {<<p>> : p \in Pixbuf}
    /\ results_pull_id \in BOOLEAN
    /\ pat1 \in Pixbuf
    /\ pat2 \in Pixbuf
    /\ fade_ticks \in 0..N_FADE_TICKS
    /\ fade_disabled \in BOOLEAN
    /\ surf \subseteq Files
    /\ dropped \in BOOLEAN
    /\ changes \in 0..MaxChanges
    /\ resizes \in 0..MaxResizes

Count(b) == IF b THEN 1 ELSE 0

\* The stages of the loop that are occupied.
Stages ==
    Count(update_image_id) + op_q + Count(worker \in {"loading", "loaded"})
        + Len(results_q) + Count(pat2 # Null)

\* Across the two threads exactly one load is under way: a fade is never
\* interrupted by the next picture, no two timers run, and the show only
\* stops after a load the worker dropped for want of a size
\* (op_load_image's early return).  The idle source is set exactly while a
\* result waits, so that results_pull_func's assertion holds.
LoadsFollow ==
    /\ Stages = Count(~dropped)
    /\ results_pull_id <=> results_q # <<>>

\* Between fades a back buffer that no resize has blanked shows the current
\* picture, and that alone if it is opaque or there is a background color: "any
\* error is guaranteed to be cleaned up by the last iteration" (draw_iter).  Under
\* one with an alpha channel, which is painted over the buffer as it is, rests of
\* those before it stay, but of one picture that covers at most: the buffer never
\* mixes pictures that a finished fade should have parted.
FadeEndsClean ==
    pat2 = Null =>
        /\ surf # {} => pat1 \in surf
        /\ Covers(pat1) => surf \subseteq {pat1}
        /\ \A p, q \in surf : Covers(p) /\ Covers(q) => p = q

\* Where the picture is that has been read and not yet shown.
Stage ==
    IF dropped THEN "stopped"
    ELSE IF update_image_id THEN "waiting"
    ELSE IF pat2 # Null THEN "fading"
    ELSE IF op_q > 0 \/ worker = "loading" THEN "reading" ELSE "read"

Picture ==
    IF pat2 # Null THEN pat2
    ELSE IF results_q # <<>> THEN results_q[1] ELSE pixbuf

Show == INSTANCE PictureShow
            WITH Usable <- Files \ Thumbnails, sorted <- sort_images,
                 pass <- filename_list, stage <- Stage, picture <- Picture,
                 current <- pat1

\* The two threads with their queues, timers and idle source show what a
\* program without them would: no picture is lost, doubled or overtaken on its
\* way from the directory to the screen, and each pass keeps to its order.
ImplementsPictureShow == Show!Spec

\* A picture that stays in the directory is shown again and again, whatever
\* else comes, goes or cannot be read, unless a load was dropped.
PicturesShown ==
    \A f \in Files \ Thumbnails :
        <>[](f \in directory) => <>dropped \/ []<>(pat2 = f)
=============================================================================
