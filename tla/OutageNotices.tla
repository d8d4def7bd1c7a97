---------------------------- MODULE OutageNotices ----------------------------
(***************************************************************************)
(* What a user is told of an outage: the server's being down is announced  *)
(* once it has lasted for a threshold (NOTIFY_SERVER_CONNECTION_THRESHOLD), *)
(* and its being back only if the outage lasted that long or was there at  *)
(* the start.  The announcement of an outage takes its time, the one of    *)
(* its end does not wait for it and may come first.                        *)
(***************************************************************************)
EXTENDS Sequences, Naturals

VARIABLES
  up,         \* PLEX_SERVER_UP
  pending,    \* an outage waits for its threshold
  announcing, \* an outage that lasted is about to be announced
  notices     \* what was announced so far

noticeVars == <<up, pending, announcing, notices>>

Start == up = "unknown" /\ pending = FALSE /\ announcing = FALSE /\ notices = <<>>

\* What is found at the program's start is not announced.
First ==
  /\ up = "unknown"
  /\ up' \in {"up", "down"}
  /\ UNCHANGED <<pending, announcing, notices>>

Fail ==
  /\ up = "up"
  /\ up' = "down"
  /\ pending' = TRUE
  /\ UNCHANGED <<announcing, notices>>

\* The outage has lasted; one announcement at a time is enough.
Lasts ==
  /\ pending
  /\ pending' = FALSE
  /\ announcing' = TRUE
  /\ UNCHANGED <<up, notices>>

Announce ==
  /\ announcing
  /\ announcing' = FALSE
  /\ notices' = Append(notices, "down")
  /\ UNCHANGED <<up, pending>>

\* A short outage is forgotten, a longer one is said to be over.
Recover ==
  /\ up = "down"
  /\ up' = "up"
  /\ pending' = FALSE
  /\ notices' = IF pending THEN notices ELSE Append(notices, "up")
  /\ UNCHANGED announcing

Step == First \/ Fail \/ Lasts \/ Announce \/ Recover

Notices == Start /\ [][Step]_noticeVars

\* Nobody is told twice in a row that the server is down, or that it is back.
Alternating == \A i \in 1..(Len(notices) - 1) : notices[i] # notices[i + 1]

\* While the server is up, the last that was said is not that it is down.
UpToDate == up = "up" /\ notices # <<>> => notices[Len(notices)] = "up"
=============================================================================
