------------------------------ MODULE Notifier ------------------------------
(***************************************************************************)
(* The Durable Object UserNotifier of one user: it accepts the WebSockets   *)
(* of the user's clients, answers their handshakes, passes notifications    *)
(* on, and pings them from an alarm that it sets again and again.  The       *)
(* object runs one event at a time, so an event is one action; a handler of *)
(* the API that writes first and notifies later is two.  Some handlers that *)
(* write never notify, and none notifies anybody but the user who asked.    *)
(***************************************************************************)
EXTENDS Naturals, FiniteSets

CONSTANTS
  Socket,    \* the clients' WebSockets; a closed one may be opened anew
  Interval,  \* ping_interval, in ticks of the clock
  Attempts,  \* how often the platform runs an alarm that fails
  Writers,   \* handlers of the API that write what the user's clients show
  Off        \* the alarm is not set

ASSUME NotifierAssumption ==
  Interval \in Nat \ {0} /\ Attempts \in Nat \ {0} /\ Off \notin Nat

VARIABLES
  conn,      \* each socket: admitted by the worker; half, when its upgrade
             \* failed; waiting for its handshake; open; or closed
  alarm,     \* ticks until the alarm, or Off
  failures,  \* failed runs of this alarm
  pending,   \* handlers that have written and not yet notified
  behind,    \* open sockets whose client was not told of a handler's write
  missed,    \* history: those a handler did not reach: it stopped, its
             \* notification failed, or it never sends one
  gaveUp     \* history: the platform gave the alarm up

told == <<pending, behind, missed>>
notifierVars == <<conn, alarm, failures, told, gaveUp>>

States == {"closed", "admitted", "half", "waiting", "open"}

-----------------------------------------------------------------------------
Open == {s \in Socket : conn[s] = "open"}
\* get_websockets.
Accepted == {s \in Socket : conn[s] \in {"half", "waiting", "open"}}

NotifierInit == /\ conn = [s \in Socket |-> "closed"]
                /\ alarm = Off /\ failures = 0 /\ pending = {}
                /\ behind = {} /\ missed = {} /\ gaveUp = FALSE

SetAlarm == alarm' = Interval /\ failures' = 0

-----------------------------------------------------------------------------
\* hub has validated the access token and forwards the request.
Admit(s) ==
  /\ conn[s] = "closed"
  /\ conn' = [conn EXCEPT ![s] = "admitted"]
  /\ UNCHANGED <<alarm, failures, told, gaveUp>>

\* Mutant: the socket is accepted, and the alarm left to the first ping.
UpgradeQuietly(s) ==
  /\ conn[s] = "admitted"
  /\ conn' = [conn EXCEPT ![s] = "waiting"]
  /\ gaveUp' = FALSE
  /\ UNCHANGED <<alarm, failures, told>>

\* fetch: the alarm is set anew, however soon it was.
Upgrade(s) ==
  /\ conn[s] = "admitted"
  /\ conn' = [conn EXCEPT ![s] = "waiting"]
  /\ SetAlarm
  /\ gaveUp' = FALSE
  /\ UNCHANGED told

\* set_alarm fails; the socket is accepted, but the client is not told.
UpgradeFails(s) ==
  /\ conn[s] = "admitted"
  /\ conn' = [conn EXCEPT ![s] = "half"]
  /\ UNCHANGED <<alarm, failures, told, gaveUp>>

\* Mutant: every message of a client postpones the ping.
HandshakeOrPing(s) ==
  /\ conn[s] \in {"waiting", "open"}
  /\ conn' = [conn EXCEPT ![s] = "open"]
  /\ SetAlarm
  /\ UNCHANGED <<told, gaveUp>>

\* websocket_message, the first; later ones are ignored.
Handshake(s) ==
  /\ conn[s] = "waiting"
  /\ conn' = [conn EXCEPT ![s] = "open"]
  /\ UNCHANGED <<alarm, failures, told, gaveUp>>

\* A client closes or is lost; websocket_close and websocket_error do nothing.
Close(s) ==
  /\ conn[s] # "closed"
  /\ conn' = [conn EXCEPT ![s] = "closed"]
  /\ behind' = {b \in behind : b.client # s}
  /\ missed' = missed \ {s}
  /\ UNCHANGED <<alarm, failures, pending, gaveUp>>

-----------------------------------------------------------------------------
Tick == /\ alarm \in 1..Interval
        /\ alarm' = alarm - 1
        /\ UNCHANGED <<conn, failures, told, gaveUp>>

\* Mutant: the alarm is set again whoever is connected.
FireAlways ==
  /\ alarm = 0
  /\ SetAlarm
  /\ UNCHANGED <<conn, told, gaveUp>>

\* alarm: with sockets accepted the open ones are pinged, and the alarm is set.
Fire ==
  /\ alarm = 0
  /\ IF Accepted = {} THEN alarm' = Off /\ failures' = 0 ELSE SetAlarm
  /\ UNCHANGED <<conn, told, gaveUp>>

\* alarm pings, and fails to set the alarm; the platform runs it again, but
\* not for ever.
FireFails ==
  /\ alarm = 0 /\ Accepted # {}
  /\ IF failures + 1 < Attempts
     THEN failures' = failures + 1 /\ UNCHANGED <<alarm, gaveUp>>
     ELSE failures' = 0 /\ alarm' = Off /\ gaveUp' = TRUE
  /\ UNCHANGED <<conn, told>>

Ring == Fire \/ FireFails

-----------------------------------------------------------------------------
\* The open clients, to be told of what w wrote.
Untold(w) == {[client |-> s, writer |-> w] : s \in Open}

\* Mutant: the handler notifies, and writes after that.
NotifyFirst(w) ==
  /\ w \notin pending
  /\ behind' = behind \cup Untold(w)
  /\ UNCHANGED <<conn, alarm, failures, pending, missed, gaveUp>>

\* A handler writes what the clients show, and will notify them: those of ciphers,
\* folders and sends.
Write(w) ==
  /\ w \notin pending
  /\ pending' = pending \cup {w} /\ behind' = behind \cup Untold(w)
  /\ UNCHANGED <<conn, alarm, failures, missed, gaveUp>>

\* One that never notifies this object: share_cipher, the attachment handlers,
\* put_profile, the handlers of collections, and whatever another member does to
\* a cipher of the organization.
WriteSilently(w) ==
  /\ w \notin pending
  /\ behind' = behind \cup Untold(w) /\ missed' = missed \cup Open
  /\ UNCHANGED <<conn, alarm, failures, pending, gaveUp>>

\* send_notification, and the fetch of /notify: to the open sockets.
Notify(w) ==
  /\ w \in pending
  /\ pending' = pending \ {w} /\ behind' = {b \in behind : b.writer # w}
  /\ UNCHANGED <<conn, alarm, failures, missed, gaveUp>>

\* The handler stops before it, or its error is logged and dropped.
NotifyFails(w) ==
  /\ w \in pending
  /\ pending' = pending \ {w}
  /\ missed' = missed \cup {b.client : b \in {x \in behind : x.writer = w}}
  /\ UNCHANGED <<conn, alarm, failures, behind, gaveUp>>

NotifierNext ==
  \/ \E s \in Socket : \/ Admit(s) \/ Upgrade(s) \/ UpgradeFails(s)
                       \/ Handshake(s) \/ Close(s)
  \/ Tick \/ Ring
  \/ \E w \in Writers : Write(w) \/ WriteSilently(w) \/ Notify(w) \/ NotifyFails(w)

NotifierSpec == NotifierInit /\ [][NotifierNext]_notifierVars

-----------------------------------------------------------------------------
NotifierTypeOK ==
  /\ conn \in [Socket -> States]
  /\ alarm \in (0..Interval) \cup {Off} /\ failures \in 0..(Attempts - 1)
  /\ pending \subseteq Writers
  /\ behind \subseteq [client: Open, writer: Writers]
  /\ missed \subseteq Open
  /\ gaveUp \in BOOLEAN

\* While a client is connected the alarm is set, unless the platform gave it up.
AlarmArmed ==
  (\E s \in Socket : conn[s] \in {"waiting", "open"}) => alarm # Off \/ gaveUp

\* A connected client that was not told of a write soon will be, unless the
\* handler stopped after it, its notification failed, or it never sends one.
ToldOfWrites ==
  \A b \in behind : b.writer \in pending \/ b.client \in missed

\* A client that stays connected is pinged again and again, unless others
\* connect again and again, each time postponing the alarm, or the platform
\* gave it up.
KeptAlive ==
  \A s \in Socket : <>[](conn[s] = "open") =>
    \/ []<><<Ring>>_notifierVars
    \/ []<><<\E t \in Socket : Upgrade(t)>>_notifierVars
    \/ <>[]gaveUp

\* When all have gone for good the alarm goes off for good.
FallsQuiet == <>[](Accepted = {} /\ \A s \in Socket : conn[s] # "admitted")
                => <>[](alarm = Off)
=============================================================================
