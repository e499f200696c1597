----------------------------- MODULE GpuTimeline -----------------------------
(***************************************************************************)
(* The timeline by which the renderer follows the GPU (MasterSemaphore).   *)
(* tick is m_current_tick, the number the commands being recorded will     *)
(* signal; gpu is the value the device has signalled.  Submissions go to   *)
(* one queue, so the device signals their numbers in order.                *)
(***************************************************************************)
EXTENDS Naturals

VARIABLES tick, gpu

timeline == <<tick, gpu>>

TimelineInit == tick = 1 /\ gpu = 0

TimelineType == tick \in Nat \ {0} /\ gpu \in Nat

\* NextTick at a submission: the commands recorded so far signal tick.
NextTick == tick' = tick + 1 /\ gpu' = gpu

\* The device finishes the oldest submission that is still under way.
GpuSignals ==
  /\ gpu < tick - 1
  /\ gpu' = gpu + 1
  /\ UNCHANGED tick
=============================================================================
