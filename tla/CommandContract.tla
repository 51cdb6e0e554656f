---------------------------- MODULE CommandContract ----------------------------
(***************************************************************************)
(* What a device command promises whoever issued it, without dispatchers,  *)
(* transactions, locks, queue items or clocks.  A command is open until it *)
(* is settled; the network is asked to take it only while it is PENDING,   *)
(* though what was asked may happen at any later time; it is marked SENT   *)
(* only once it was handed over; expiry and failure settle only open       *)
(* commands; a verdict on it needs a report, which is possible only for a  *)
(* command that was handed over or that the report names outright, and is  *)
(* the one thing that may revise a settled status.                         *)
(***************************************************************************)
CONSTANT Command
VARIABLES
  status,   \* of each command, "NONE" before it is issued
  asked,    \* commands the network is being asked to take
  handed,   \* commands the network has been given at least once
  named     \* commands a report has named by their identity

Terminal == {"ACKED", "FAILED", "EXPIRED"}
Open(c) == status[c] \in {"PENDING", "SENT"}

Init ==
  /\ status = [c \in Command |-> "NONE"]
  /\ asked = {} /\ handed = {} /\ named = {}

Assign(C, s) == status' = [c \in Command |-> IF c \in C THEN s ELSE status[c]]

\* A call for c may be over; another one for it may be under way.
Returns(c) == asked' \in {asked, asked \ {c}}

Issue(C) ==
  /\ \A c \in C : status[c] = "NONE"
  /\ Assign(C, "PENDING")
  /\ UNCHANGED <<asked, handed, named>>

Ask(c) ==
  /\ status[c] = "PENDING"
  /\ asked' = asked \cup {c}
  /\ UNCHANGED <<status, handed, named>>

HandOver(c) ==
  /\ c \in asked
  /\ handed' = handed \cup {c}
  /\ Returns(c)
  /\ UNCHANGED <<status, named>>

GiveUp(c) == Returns(c) /\ UNCHANGED <<status, handed, named>>

MarkSent(c) ==
  /\ status[c] = "PENDING"
  /\ c \in handed
  /\ Assign({c}, "SENT")
  /\ UNCHANGED <<asked, handed, named>>

Fail(c) ==
  /\ Open(c)
  /\ Assign({c}, "FAILED")
  /\ Returns(c)
  /\ UNCHANGED <<handed, named>>

Expire(C) ==
  /\ \A c \in C : Open(c)
  /\ Assign(C, "EXPIRED")
  /\ UNCHANGED <<asked, handed, named>>

Name(c) ==
  /\ status[c] # "NONE"
  /\ named' = named \cup {c}
  /\ UNCHANGED <<status, asked, handed>>

Answer(c, s) ==
  /\ c \in handed \cup named
  /\ Assign({c}, s)
  /\ UNCHANGED <<asked, handed, named>>

Next ==
  \/ \E C \in SUBSET Command : Issue(C) \/ Expire(C)
  \/ \E c \in Command :
       \/ Ask(c) \/ HandOver(c) \/ GiveUp(c) \/ MarkSent(c) \/ Fail(c) \/ Name(c)
       \/ \E s \in Terminal : Answer(c, s)

Spec == Init /\ [][Next]_<<status, asked, handed, named>>
=============================================================================
