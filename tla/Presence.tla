------------------------------- MODULE Presence -------------------------------
(***************************************************************************)
(* What the state machine promises its caller, with no slots, rings or     *)
(* flags: a set of devices that are present, and one Unlock for each       *)
(* arrival, one device at a time.  A device arrives only on a recent       *)
(* strong sighting and leaves only after a long silence; where a window is *)
(* at least as long as a timeout, both may happen in one decision.  The    *)
(* time 0 is special: an Unlock given at 0 is repeated by a later          *)
(* decision, and a device last sighted at 0 need never leave.              *)
(***************************************************************************)
EXTENDS Integers

CONSTANTS
  Mac,          \* the devices
  MaxWindow,    \* the longest entry window of any configuration
  MinTimeout,   \* the shortest presence timeout of any configuration
  MaxTimeout    \* the longest presence timeout of any configuration

VARIABLES
  now,      \* the clock of the state machine's caller
  heard,    \* heard[m]: when m was last sighted at all, -1 for never
  strong,   \* strong[m]: when m was last sighted with a strong enough signal
  present,  \* the devices considered to be at home
  repeat,   \* those whose Unlock came at time 0 and is to be repeated
  verdict   \* the latest decision

vars == <<now, heard, strong, present, repeat, verdict>>

Init ==
  /\ now \in Nat
  /\ heard = [m \in Mac |-> -1] /\ strong = [m \in Mac |-> -1]
  /\ present = {} /\ repeat = {}
  /\ verdict = "NoOp"

Hear(m) ==
  /\ heard' = [heard EXCEPT ![m] = now]
  /\ strong' \in {strong, [strong EXCEPT ![m] = now]}
  /\ UNCHANGED <<now, present, repeat, verdict>>

Forget(m) ==
  /\ present' = present \ {m}
  /\ repeat' = repeat \ {m}
  /\ UNCHANGED <<now, heard, strong, verdict>>

\* Devices that have not been sighted strongly for so long that they may leave.
MayLeave == {m \in present : now' - strong[m] >= MinTimeout}

\* What every decision keeps to.
Decide(gone) ==
  /\ now' \in Nat /\ now' >= now
  /\ gone \subseteq MayLeave
  /\ UNCHANGED <<heard, strong>>

\* A decision that lets m in and opens the door for it: m was not present, or
\* leaves in the same decision.
Arrive(m) ==
  \E gone \in SUBSET present :
    /\ Decide(gone)
    /\ m \notin present \ gone
    /\ strong[m] >= 0 /\ now' - strong[m] <= MaxWindow
    /\ present' = (present \ gone) \cup {m}
    /\ repeat' = (repeat \ gone) \cup (IF now' = 0 THEN {m} ELSE {})
    /\ verdict' = "Unlock"

\* A decision that lets nobody in and opens the door again for m.
Repeat(m) ==
  \E gone \in SUBSET present :
    /\ Decide(gone)
    /\ m \in repeat \ gone
    /\ present' = present \ gone
    /\ repeat' = (repeat \ gone) \ (IF now' = 0 THEN {} ELSE {m})
    /\ verdict' = "Unlock"

\* A decision with nothing to do: no Unlock is left to repeat, and nobody stays
\* present who has been silent for the longest timeout.
Quiet ==
  \E gone \in SUBSET present :
    /\ Decide(gone)
    /\ repeat \subseteq gone
    /\ present' = present \ gone
    /\ \A m \in present' : now' - heard[m] < MaxTimeout \/ strong[m] = 0
    /\ repeat' = {}
    /\ verdict' = "NoOp"

Next ==
  \/ \E m \in Mac : Hear(m) \/ Forget(m) \/ Arrive(m) \/ Repeat(m)
  \/ Quiet

Spec == Init /\ [][Next]_vars
===============================================================================
