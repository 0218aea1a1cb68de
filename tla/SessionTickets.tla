-------------------------- MODULE SessionTickets --------------------------
(***************************************************************************)
(* What the connection manager promises to a single thread, without its    *)
(* cache and its counters: a session is issued, serves a limited number of *)
(* handshakes, and once retired serves no more until it is issued anew.    *)
(***************************************************************************)
EXTENDS Integers

CONSTANTS Sessions, Limits

VARIABLES
  limit,  \* the handshakes a session may serve; <= 0 is "no limit"
  live,   \* the sessions that may serve a handshake
  uses    \* the handshakes each session has served

ticketVars == <<limit, live, uses>>

TicketInit ==
  /\ limit = 0
  /\ live = {}
  /\ uses = [s \in Sessions |-> 0]

\* The limit is set before there is any session.
SetLimit ==
  /\ live = {}
  /\ limit' \in Limits
  /\ UNCHANGED <<live, uses>>

\* A full handshake issues a session, which serves that handshake.
Issue(s) ==
  /\ s \notin live
  /\ live' = live \cup {s}
  /\ uses' = [uses EXCEPT ![s] = 1]
  /\ UNCHANGED limit

\* A live session serves one more handshake, within its limit.
Serve(s) ==
  /\ s \in live
  /\ limit > 0 => uses[s] < limit
  /\ uses' = [uses EXCEPT ![s] = @ + 1]
  /\ UNCHANGED <<limit, live>>

\* Sessions are retired, at the limit or for want of room.
Retire ==
  /\ live' \subseteq live
  /\ UNCHANGED <<limit, uses>>

TicketNext ==
  \/ SetLimit
  \/ \E s \in Sessions : Issue(s) \/ Serve(s)
  \/ Retire

TicketSpec == TicketInit /\ [][TicketNext]_ticketVars
=============================================================================
