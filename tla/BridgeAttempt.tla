---------------------------- MODULE BridgeAttempt ----------------------------
(***************************************************************************)
(* What GpclientBridgeService promises of connect and disconnect: one      *)
(* attempt at a time.  An attempt is a sign-in, then a tunnel, or a tunnel *)
(* at once; a sign-in that was cancelled never becomes a tunnel, and only  *)
(* a new attempt takes a cancellation back.                                *)
(***************************************************************************)
CONSTANTS Caller, Tunnel
VARIABLES
  signIns,    \* callers whose sign-in is under way
  tunnels,    \* tunnels supervised
  cancelled   \* disconnect was called since the attempt began

vars == <<signIns, tunnels, cancelled>>

Idle == signIns = {} /\ tunnels = {}

Init == Idle /\ cancelled = FALSE

SignIn ==
  /\ Idle
  /\ \E c \in Caller : signIns' = {c}
  /\ cancelled' = FALSE
  /\ UNCHANGED tunnels

Start ==
  /\ Idle \/ (signIns # {} /\ ~cancelled)
  /\ signIns' = {} /\ \E t \in Tunnel : tunnels' = {t}
  /\ cancelled' = FALSE

Cancel == cancelled' = TRUE /\ UNCHANGED <<signIns, tunnels>>

End == signIns' = {} /\ tunnels' = {} /\ UNCHANGED cancelled

Next == SignIn \/ Start \/ Cancel \/ End

Spec == Init /\ [][Next]_vars
=============================================================================
