-------------------------- MODULE ConnectionService --------------------------
(***************************************************************************)
(* What the server promises one TCP connection, with no descriptor, poll   *)
(* set, buffer or system call in sight.  A connection waits to be          *)
(* accepted, has its request read, is answered by exactly one response     *)
(* that is handed over front to back, and is closed.  The event loop of    *)
(* srcs/polls/polls.cpp is shown to implement this module (EventLoop).     *)
(***************************************************************************)
EXTENDS Naturals

CONSTANTS
  Conns,    \* connections
  Lengths   \* lengths a response can have

VARIABLES
  phase,      \* where each connection is
  total,      \* length of the response chosen for it, 0 before there is one
  delivered   \* how much of that response has been handed over

svars == <<phase, total, delivered>>

Phase == {"waiting", "reading", "answering", "closed"}

Init ==
  /\ phase = [c \in Conns |-> "waiting"]
  /\ total = [c \in Conns |-> 0]
  /\ delivered = [c \in Conns |-> 0]

Accept(c) ==
  /\ phase[c] = "waiting"
  /\ phase' = [phase EXCEPT ![c] = "reading"]
  /\ UNCHANGED <<total, delivered>>

(* The one response of the connection is fixed, whole, before any of it    *)
(* is handed over.                                                         *)
Answer(c) ==
  /\ phase[c] = "reading"
  /\ phase' = [phase EXCEPT ![c] = "answering"]
  /\ \E n \in Lengths : total' = [total EXCEPT ![c] = n]
  /\ UNCHANGED delivered

(* Some more of the response is handed over; the connection is closed by   *)
(* the same step when that was the last of it, and never before.           *)
Deliver(c) ==
  /\ phase[c] = "answering"
  /\ \E n \in (delivered[c] + 1) .. total[c] :
       /\ delivered' = [delivered EXCEPT ![c] = n]
       /\ phase' = [phase EXCEPT ![c] = IF n = total[c] THEN "closed" ELSE @]
  /\ UNCHANGED total

(* The peer is gone, or has nothing more to say while its request is       *)
(* incomplete.                                                             *)
HangUp(c) ==
  /\ phase[c] \in {"reading", "answering"}
  /\ phase' = [phase EXCEPT ![c] = "closed"]
  /\ UNCHANGED <<total, delivered>>

(* The process ends: every connection it holds or has queued is closed.    *)
Crash ==
  /\ \E refused \in SUBSET {c \in Conns : phase[c] = "waiting"} :
       phase' = [c \in Conns |-> IF phase[c] # "waiting" \/ c \in refused
                                 THEN "closed" ELSE "waiting"]
  /\ UNCHANGED <<total, delivered>>

Next ==
  \/ \E c \in Conns : Accept(c) \/ Answer(c) \/ Deliver(c) \/ HangUp(c)
  \/ Crash

Spec == Init /\ [][Next]_svars
=============================================================================
