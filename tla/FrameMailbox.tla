---------------------------- MODULE FrameMailbox ----------------------------
(***************************************************************************)
(* What IpcManager promises to processes that use it: a mailbox.  Writing  *)
(* a frame puts it over what the box holds, in one step; reading one that  *)
(* has been announced returns as much as the announcement says of what the *)
(* box holds at that moment, in one step: possibly newer frames, never a   *)
(* half-written one.                                                       *)
(***************************************************************************)
EXTENDS FrameStore

VARIABLES
    written,   \* sizes of the frames written
    taken,     \* what reading returned: [frame, img]
    broken     \* the promise is void

box == <<written, taken, broken>>

Init ==
    /\ written = <<>>
    /\ taken = <<>>
    /\ broken = FALSE

(* One more element at the end. *)
Longer(new, old) == Len(new) = Len(old) + 1 /\ old = SubSeq(new, 1, Len(old))

Write ==
    /\ Longer(written', written)
    /\ UNCHANGED <<taken, broken>>

(* The image of frame k as the box shows it now. *)
Image(k, img) ==
    /\ Len(img) = written[k]
    /\ \A a \in 1..Len(img) : Shows(written, Len(written), a, img[a])

Read ==
    /\ Longer(taken', taken)
    /\ LET last == taken'[Len(taken) + 1]
       IN last.frame \in 1..Len(written) /\ Image(last.frame, last.img)
    /\ UNCHANGED <<written, broken>>

Next == Write \/ Read

Spec == Init /\ [][broken' \/ Next]_box
===========================================================================
