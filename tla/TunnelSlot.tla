----------------------------- MODULE TunnelSlot -----------------------------
(***************************************************************************)
(* What the privileged helper promises its clients: it has one slot.  A    *)
(* run takes the slot, launches gpclient at most once while it holds it,   *)
(* and gives the slot back only when that gpclient has ended.  If the      *)
(* daemon goes away the slot and its gpclient are no longer its concern.   *)
(***************************************************************************)
CONSTANTS Run, NoRun

VARIABLES
  owner,      \* the run holding the slot, or NoRun
  live,       \* gpclients of this daemon that are up
  used,       \* runs that ever held the slot
  launched    \* runs whose gpclient was ever launched

vars == <<owner, live, used, launched>>

Init == owner = NoRun /\ live = {} /\ used = {} /\ launched = {}

Take(r) ==
  /\ owner = NoRun /\ r \notin used
  /\ owner' = r
  /\ used' = used \union {r}
  /\ UNCHANGED <<live, launched>>

Launch(r) ==
  /\ owner = r /\ r \notin launched
  /\ live' = {r}
  /\ launched' = launched \union {r}
  /\ UNCHANGED <<owner, used>>

End ==
  /\ live' = {}
  /\ UNCHANGED <<owner, used, launched>>

Release ==
  /\ owner # NoRun /\ live = {}
  /\ owner' = NoRun
  /\ UNCHANGED <<live, used, launched>>

Vanish ==
  /\ owner' = NoRun /\ live' = {}
  /\ UNCHANGED <<used, launched>>

Next ==
  \/ \E r \in Run : Take(r) \/ Launch(r)
  \/ End \/ Release \/ Vanish

Spec == Init /\ [][Next]_vars
=============================================================================
