-------------------------------- MODULE UvTimer --------------------------------
(***************************************************************************)
(* A robin::UvTimer (src/src/UvTimer.cpp) as a value: the object, its flag *)
(* bStarted and libuv's timer handle inside it.  Its operations hand their *)
(* work to EventLoop::runInLoop, which calls it at once on the loop's own  *)
(* thread; these are the results of the calls made there.                  *)
(***************************************************************************)

\* life: "none" before the constructor, "open" from uv_timer_init to uv_close,
\* "closing" until libuv has called back, "deleted" after the user's delete.
\* A delete while libuv still has the handle is "dangling".
NoTimer == [life |-> "none", bStarted |-> FALSE, active |-> FALSE]

Constructed == [life |-> "open", bStarted |-> FALSE, active |-> FALSE]

\* libuv arms an open timer, not a closing one.
Started(timer) ==
  IF timer.bStarted THEN timer
  ELSE [timer EXCEPT !.bStarted = TRUE, !.active = timer.life = "open"]

Stopped(timer) == [timer EXCEPT !.active = FALSE, !.bStarted = FALSE]

\* Before it calls back libuv arms a repeating timer again.
Fired(timer, repeat) == [timer EXCEPT !.active = repeat]

\* Fault: the user deletes the timer without waiting for the callback.
DeletedAtOnce(timer) == [Stopped(timer) EXCEPT !.life = "dangling"]

\* close() with a callback that deletes the timer: called at once if the handle
\* is closing already.
Closed(timer) ==
  IF timer.life = "open" THEN [Stopped(timer) EXCEPT !.life = "closing"]
                         ELSE [Stopped(timer) EXCEPT !.life = "dangling"]

\* onClosed, the end of uv_close.
Deleted(timer) == [timer EXCEPT !.life = "deleted"]

\* The values without a dangling handle.
TimerType == [life : {"none", "open", "closing", "deleted"},
              bStarted : BOOLEAN, active : BOOLEAN]
=============================================================================
