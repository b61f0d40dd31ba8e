------------------------------ MODULE Heartbeat ------------------------------
(***************************************************************************)
(* The heartbeat of a client, XhrConnectionHeartbeat, and the notifications *)
(* ConnectionHealthNotifier shows about it.  An interval sends a heartbeat *)
(* every so often, whether or not the last one was answered; some failures *)
(* are retried, and the interval rests meanwhile.  The check of a          *)
(* connection sends a heartbeat of its own, which tells nobody.            *)
(***************************************************************************)
EXTENDS Naturals

CONSTANTS
  Beat,         \* bound on the heartbeats in flight at a time
  Check,        \* the calls of testConnection and of the version check
  MaxRetry,     \* MAX_RETRY_COUNT
  ResetLimit,   \* ECONNRESET_ERRORS_IN_ROW_LIMIT
  AwayLimit,    \* HEARTBEAT_AWAY_REPORT_COUNT
  Failure       \* the errors a request may fail with

LimitsAssumption ==
  /\ MaxRetry \in Nat
  /\ {ResetLimit, AwayLimit} \subseteq Nat \ {0}
  /\ Failure \subseteq {"NETWORK_AWAY", "ECONNREFUSED", "ECONNRESET",
                        "CERT_NOT_YET_VALID", "CERT_SIGNATURE_FAILURE"}

SendersAssumption == Beat \cap Check = {}

VARIABLES
  sends,          \* sends[b]: the request of heartbeat or check b
  interval,       \* _heartbeatInterval: "none" is null, "cleared" a dead handle
  connectedOnce,  \* _heartbeatConnectedOnce
  last,           \* _lastHeartbeat
  resetCount,     \* _connectionResetCount
  monitor,        \* the ConnectionHealthNotifier: "none", "on" or "disposed"
  awayCount,      \* _heartbeatNetworkAwayCount, up to its limit
  notification,   \* the code of _lastHeartbeatNotification
  isClosed        \* whether close() was called

notifierVars == <<monitor, awayCount, notification>>
vars == <<sends, interval, connectedOnce, last, resetCount, notifierVars, isClosed>>

Request == [status : {"none", "waiting", "sleeping"}, retries : 0 .. MaxRetry]

NoRequest == [status |-> "none", retries |-> 0]
NewRequest == [status |-> "waiting", retries |-> MaxRetry]

Init ==
  /\ \E b \in Beat :
       sends = [c \in Beat \cup Check |-> IF c = b THEN NewRequest ELSE NoRequest]
  /\ interval = "on"
  /\ connectedOnce = FALSE
  /\ last = "none"
  /\ resetCount = 0
  /\ monitor = "none" /\ awayCount = 0 /\ notification = "none"
  /\ isClosed = FALSE

\* _heartbeat, called by the interval.
Tick(b) ==
  /\ interval = "on" /\ sends[b] = NoRequest
  /\ sends' = [sends EXCEPT ![b] = NewRequest]
  /\ UNCHANGED <<interval, connectedOnce, last, resetCount, notifierVars, isClosed>>

SendCheck(c) ==
  /\ sends[c] = NoRequest /\ ~isClosed
  /\ sends' = [sends EXCEPT ![c] = NewRequest]
  /\ UNCHANGED <<interval, connectedOnce, last, resetCount, notifierVars, isClosed>>

\* Mutant of Ends: the interval is restarted only by a successful request.
EndsWithoutRestart(b) ==
  sends' = [sends EXCEPT ![b] = NoRequest] /\ UNCHANGED interval

\* Request b is over; _restartHeartbeatIfNecessary, which sends a heartbeat.
Ends(b) ==
  IF interval = "none" /\ connectedOnce
    THEN /\ interval' = "on"
         /\ \E n \in Beat :
              /\ n = b \/ sends[n] = NoRequest
              /\ sends' = [sends EXCEPT ![b] = NoRequest, ![n] = NewRequest]
    ELSE /\ sends' = [sends EXCEPT ![b] = NoRequest]
         /\ UNCHANGED interval

\* Mutant of OnHeartbeat: only what was shown for an absence is taken back.
OnHeartbeatAfterAbsence ==
  IF monitor = "on" /\ awayCount >= AwayLimit
    THEN notification' = "none" /\ awayCount' = 0 /\ UNCHANGED monitor
    ELSE UNCHANGED notifierVars

\* onHeartbeat of the notifier.
OnHeartbeat ==
  IF monitor = "on" /\ notification # "none"
    THEN notification' = "none" /\ awayCount' = 0 /\ UNCHANGED monitor
    ELSE UNCHANGED notifierVars

\* A request is answered, and _heartbeat goes on; that it then emits
\* `reconnect`, if the connection was away, is HeartbeatRestored of
\* BigDigSession.
Succeeds(b) ==
  /\ sends[b].status = "waiting"
  /\ Ends(b)
  /\ IF b \in Check
       THEN UNCHANGED <<connectedOnce, last, resetCount, notifierVars>>
       ELSE /\ connectedOnce' = TRUE
            /\ last' = "here"
            /\ resetCount' = 0
            /\ OnHeartbeat
  /\ UNCHANGED isClosed

\* Failures that are retried at first.
Retriable(f) == f = "CERT_NOT_YET_VALID" \/ (f = "ECONNREFUSED" /\ connectedOnce)

\* sendHeartBeat to its sleep, with _disableHeartbeatIfNecessary.
Retries(b, f) ==
  /\ sends[b].status = "waiting" /\ sends[b].retries > 0
  /\ Retriable(f)
  /\ sends' = [sends EXCEPT ![b] = [status |-> "sleeping", retries |-> @.retries - 1]]
  /\ interval' = "none"
  /\ UNCHANGED <<connectedOnce, last, resetCount, notifierVars, isClosed>>

Wakes(b) ==
  /\ sends[b].status = "sleeping"
  /\ sends' = [sends EXCEPT ![b].status = "waiting"]
  /\ UNCHANGED <<interval, connectedOnce, last, resetCount, notifierVars, isClosed>>

\* Mutant of Code: one reset more is tolerated.
CodeOneLater(f) ==
  CASE f = "ECONNREFUSED" -> IF connectedOnce THEN "SERVER_CRASHED"
                                              ELSE "PORT_NOT_ACCESSIBLE"
    [] f = "ECONNRESET" /\ resetCount + 1 > ResetLimit -> "INVALID_CERTIFICATE"
    [] OTHER -> f

\* The code a failed heartbeat is reported with.
Code(f) ==
  CASE f = "ECONNREFUSED" -> IF connectedOnce THEN "SERVER_CRASHED"
                                              ELSE "PORT_NOT_ACCESSIBLE"
    [] f = "ECONNRESET" /\ resetCount + 1 >= ResetLimit -> "INVALID_CERTIFICATE"
    [] OTHER -> f

\* Failures that are shown when there were enough of them; the code of a
\* notification that is shown already is not shown again.
IsAway(code) == code \in {"NETWORK_AWAY", "ECONNRESET", "CERT_NOT_YET_VALID"}

\* onHeartbeatError of the notifier.
OnHeartbeatError(code) ==
  /\ IF IsAway(code)
       THEN awayCount' = IF awayCount < AwayLimit THEN awayCount + 1 ELSE awayCount
       ELSE UNCHANGED awayCount
  /\ notification' = IF IsAway(code) /\ awayCount' < AwayLimit THEN notification ELSE code
  /\ UNCHANGED monitor

\* A request fails for good, and _heartbeat reports it.
Fails(b, f) ==
  /\ sends[b].status = "waiting"
  /\ sends[b].retries = 0 \/ ~Retriable(f)
  /\ Ends(b)
  /\ IF b \in Check
       THEN UNCHANGED <<last, resetCount, notifierVars>>
       ELSE /\ last' = "away"
            /\ resetCount' = IF Code(f) = "ECONNRESET" THEN resetCount + 1 ELSE 0
            /\ IF monitor = "on" THEN OnHeartbeatError(Code(f)) ELSE UNCHANGED notifierVars
  /\ UNCHANGED <<connectedOnce, isClosed>>

\* ServerConnection creates its notifier once the versions agree.
StartMonitor ==
  /\ monitor = "none" /\ ~isClosed
  /\ monitor' = "on"
  /\ UNCHANGED <<sends, interval, connectedOnce, last, resetCount, awayCount,
                 notification, isClosed>>

\* ServerConnection.close and, in it, close(): the handle stays, and with it
\* what a request in flight may do to it.
Close ==
  /\ ~isClosed
  /\ isClosed' = TRUE
  /\ interval' = IF interval = "on" THEN "cleared" ELSE interval
  /\ monitor' = "disposed"
  /\ UNCHANGED <<sends, connectedOnce, last, resetCount, awayCount, notification>>

-----------------------------------------------------------------------------
Goes(b) == Succeeds(b) \/ Wakes(b) \/ \E f \in Failure : Retries(b, f) \/ Fails(b, f)

Next ==
  \/ \E b \in Beat : Tick(b)
  \/ \E c \in Check : SendCheck(c)
  \/ \E b \in Beat \cup Check : Goes(b)
  \/ StartMonitor
  \/ Close

Spec == Init /\ [][Next]_vars

\* Every request is answered or times out, and every timer fires.
Fairness ==
  /\ \A b \in Beat \cup Check : WF_vars(Goes(b))
  /\ WF_vars(\E b \in Beat : Tick(b))

FairSpec == Spec /\ Fairness

-----------------------------------------------------------------------------
(* Properties *)

\* The types of the variables.
TypeOK ==
  /\ sends \in [Beat \cup Check -> Request]
  /\ interval \in {"none", "on", "cleared"}
  /\ connectedOnce \in BOOLEAN
  /\ last \in {"none", "here", "away"}
  /\ resetCount \in 0 .. ResetLimit - 1
  /\ monitor \in {"none", "on", "disposed"}
  /\ awayCount \in 0 .. AwayLimit
  /\ notification \in {"none", "SERVER_CRASHED", "PORT_NOT_ACCESSIBLE",
                       "INVALID_CERTIFICATE"} \cup Failure
  /\ isClosed \in BOOLEAN

\* While a notification is shown, the latest heartbeat to end had failed: no
\* success leaves one standing, however many heartbeats overlap.
NotificationMeansAway == notification # "none" /\ ~isClosed => last = "away"

\* When requests stop failing, a client that was connected is told so: its
\* heartbeat is back, although retries that failed had stopped the interval, and
\* no notification is left.
Failing == \E b \in Beat \cup Check : \E f \in Failure : Retries(b, f) \/ Fails(b, f)

Recovers ==
  <>[][~Failing]_vars =>
    [](connectedOnce /\ interval = "on"
         => <>(isClosed \/ (last = "here" /\ notification = "none")))

=============================================================================
