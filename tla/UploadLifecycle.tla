---------------------------- MODULE UploadLifecycle ----------------------------
(***************************************************************************)
(* What a connection promises the owner of an upload attempt, whatever     *)
(* Transport and the rig do: the attempt is uploaded at most once, one     *)
(* attempt lives at a time, each step of its life follows the one before,  *)
(* an interrupted attempt can only be abandoned, and an abandoned one      *)
(* never comes back.                                                       *)
(***************************************************************************)
EXTENDS Naturals

CONSTANT Attempts

VARIABLES
  status,    \* [a -> where attempt a is in its life]
  results    \* result ticks received for the attempt that lives

Live == {"uploading", "accepted", "running", "broken"}

Move(a, from, to) ==
  /\ status[a] \in from
  /\ status' = [status EXCEPT ![a] = to]

Queue(a) ==
  /\ \A b \in Attempts : status[b] \notin Live
  /\ Move(a, {"fresh"}, "uploading")
  /\ results' = 0

Accept(a) == Move(a, {"uploading"}, "accepted") /\ UNCHANGED results
StartRun(a) == Move(a, {"accepted"}, "running") /\ UNCHANGED results

Result(a) ==
  /\ status[a] = "running"
  /\ results' = results + 1
  /\ UNCHANGED status

Break(a)  == Move(a, {"uploading", "accepted", "running"}, "broken") /\ UNCHANGED results
Retire(a) == Move(a, Live, "retired") /\ results' = 0

Init ==
  /\ status = [a \in Attempts |-> "fresh"]
  /\ results = 0

Next ==
  \E a \in Attempts :
    Queue(a) \/ Accept(a) \/ StartRun(a) \/ Result(a) \/ Break(a) \/ Retire(a)

Spec == Init /\ [][Next]_<<status, results>>
=============================================================================
