----------------------------- MODULE DailyClaim -----------------------------
(***************************************************************************)
(* What the daily check promises, without managers, caches and faults: the *)
(* day of a watch is claimed at most once in Day ticks, and a claim is     *)
(* announced at most once, by the one who made it, or never.               *)
(***************************************************************************)
EXTENDS Integers, Sequences

CONSTANTS
  Day,        \* the time between two claims of a watch
  Epoch       \* when a new watch was last claimed: long ago

VARIABLES
  now,        \* the clock
  exists,     \* there is a watch
  last,       \* when it was last claimed
  version,    \* its version; a claim is known by the version it makes
  open,       \* the claims made and not yet announced
  announced   \* the claims announced, in order

vars == <<now, exists, last, version, open, announced>>

Init ==
  /\ now = 0 /\ exists = TRUE /\ last = Epoch
  /\ version \in Nat
  /\ open = {} /\ announced = <<>>

Pass ==
  /\ now' = now + 1
  /\ UNCHANGED <<exists, last, version, open, announced>>

\* Anything but a claim that makes a new version of the watch.
Edit ==
  /\ exists /\ version' = version + 1
  /\ UNCHANGED <<now, exists, last, open, announced>>

\* A watch is created or removed; a new one has not been claimed.
Replace ==
  /\ exists' = ~exists /\ last' = Epoch
  /\ version' = version + 1
  /\ UNCHANGED <<now, open, announced>>

\* A claim whose maker never learns of it is not open to anybody.
Claim ==
  /\ exists /\ now - last >= Day
  /\ last' = now
  /\ version' = version + 1
  /\ open' \in {open, open \cup {version'}}
  /\ UNCHANGED <<now, exists, announced>>

Announce ==
  \E c \in open :
    /\ announced' = Append(announced, c)
    /\ open' = open \ {c}
    /\ UNCHANGED <<now, exists, last, version>>

Lapse ==
  \E c \in open :
    /\ open' = open \ {c}
    /\ UNCHANGED <<now, exists, last, version, announced>>

Next == Pass \/ Edit \/ Replace \/ Claim \/ Announce \/ Lapse

Spec == Init /\ [][Next]_vars

=============================================================================
