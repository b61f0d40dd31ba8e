---------------------------- MODULE MCBigDigClient ----------------------------
(***************************************************************************)
(* Instances for TLC of Tunnels and of Heartbeat, two parts of a client    *)
(* that share no state.  They are explored in one run, each in behaviours  *)
(* of its own: the initial state picks the one that takes steps, and the   *)
(* other stays as it is.                                                   *)
(***************************************************************************)
EXTENDS Tunnels

CONSTANTS Beat, Check, MaxRetry, ResetLimit, AwayLimit, Failure

VARIABLES
  running,  \* the part that takes steps
  sends, interval, connectedOnce, last, resetCount,
  monitor, awayCount, notification, heartbeatClosed

heartbeatVars ==
  <<sends, interval, connectedOnce, last, resetCount,
    monitor, awayCount, notification, heartbeatClosed>>

\* A tunnel, a reverse one for the same ports and another reverse one: the calls
\* ask for any of them.
Config(c) ==
  CASE c = 1 -> [local |-> 1, remote |-> 2, reverse |-> FALSE]
    [] c = 2 -> [local |-> 1, remote |-> 2, reverse |-> TRUE]
    [] c = 3 -> [local |-> 1, remote |-> 3, reverse |-> TRUE]

AllRequests ==
  {[k \in Call |-> Config(c[k])] :
     c \in {c \in [Call -> 1 .. 3] : \A j, k \in Call : j < k => c[j] <= c[k]}}

ServerPort == {<<"server", 2>>}

H == INSTANCE Heartbeat WITH isClosed <- heartbeatClosed

ASSUME HeartbeatAssumptions == H!LimitsAssumption /\ H!SendersAssumption

\* The part that takes no step starts in one state.
ClientInit ==
  /\ running \in {"tunnels", "heartbeat"}
  /\ Init /\ H!Init
  /\ running = "heartbeat" => taken = {} /\ \A k \in Call : request[k] = Config(1)
  /\ running = "tunnels" => sends[CHOOSE b \in Beat : TRUE] # H!NoRequest

ClientNext ==
  \/ running = "tunnels" /\ Next /\ UNCHANGED <<running, heartbeatVars>>
  \/ running = "heartbeat" /\ H!Next /\ UNCHANGED <<running, vars>>

\* In the initial state of Tunnels nothing is under way; in that of Heartbeat, a
\* heartbeat is.
ClientSpec ==
  /\ ClientInit
  /\ [][ClientNext]_<<running, vars, heartbeatVars>>
  /\ Fairness
  /\ \A b \in Beat \cup Check : WF_heartbeatVars(running = "heartbeat" /\ H!Goes(b))
  /\ WF_heartbeatVars(running = "heartbeat" /\ \E b \in Beat : H!Tick(b))

\* The types of the variables of both.
ClientTypeOK == TypeOK /\ H!TypeOK

\* While a notification is shown, the latest heartbeat to end had failed
\* (ConnectionHealthNotifier).
NotificationMeansAway == H!NotificationMeansAway

\* When requests stop failing, a client that was connected is told so.
Recovers == H!Recovers

=============================================================================
