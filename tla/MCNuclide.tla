------------------------------ MODULE MCNuclide ------------------------------
(***************************************************************************)
(* Instances for TLC of RemoteConnections, of Watchman and of              *)
(* LanguageServices, which share no state.  They are explored in one run,  *)
(* each in behaviours of its own: the initial state picks the one that     *)
(* takes steps, and the others stay as they are.                           *)
(***************************************************************************)
EXTENDS RemoteConnections

CONSTANTS
  WatchCall, Cases, MaxClock, MaxFailures,  \* of Watchman
  Project, RestartLimit                     \* of LanguageServices

VARIABLES
  running,  \* the one that takes steps
  name, root, watch, entry, count, lastKnown, client, commands, phase,
  scheduled, restoring, settling, refused, clock, born, feed, seen, failures,
  factory, latest, observing, observed, cleared, doomed, lsp

watchmanVars ==
  <<name, root, watch, entry, count, lastKnown, client, commands, phase,
    scheduled, restoring, settling, refused, clock, born, feed, seen, failures>>

languageVars == <<factory, latest, observing, observed, cleared, doomed, lsp>>

\* Nothing fails but what is cut off, or every step may.
AllOrNothing == {{}, Step}

\* Two calls ask for the same subscription; or for two under one root, and there
\* are changes after the clock there, if any.
OneName ==
  [root |-> [s \in {"a"} |-> 1], name |-> [k \in WatchCall |-> "a"], clock |-> 1]

OneRoot(now) ==
  [root |-> [s \in {"a", "b"} |-> 1],
   name |-> [k \in WatchCall |-> IF k = "w1" THEN "b" ELSE "a"], clock |-> now]

NameOrRoot == {OneName, OneRoot(MaxClock)}

W == INSTANCE Watchman WITH Call <- WatchCall, stage <- watch, state <- client

ASSUME WatchmanAssumptions ==
  W!CallsAssumption /\ W!CasesAssumption /\ W!BoundAssumption

L == INSTANCE LanguageServices

ASSUME LanguageAssumptions == L!ProjectAssumption /\ L!LimitAssumption

\* Those that take no step start in one state.
NuclideInit ==
  /\ running \in {"connections", "watchman", "languages"}
  /\ Init /\ W!Init /\ L!Init
  /\ running # "connections" => faults = {}
  /\ running # "watchman" =>
       LET c == CHOOSE c \in Cases : TRUE IN
       root = c.root /\ name = c.name /\ clock = c.clock

NuclideNext ==
  \/ /\ running = "connections" /\ Next
     /\ UNCHANGED <<running, watchmanVars, languageVars>>
  \/ /\ running = "watchman" /\ W!Next
     /\ UNCHANGED <<running, vars, languageVars>>
  \/ /\ running = "languages" /\ L!Next
     /\ UNCHANGED <<running, vars, watchmanVars>>

\* In the initial states of RemoteConnections and LanguageServices nothing is
\* under way; in that of Watchman, a client is being created.
NuclideSpec ==
  /\ NuclideInit
  /\ [][NuclideNext]_<<running, vars, watchmanVars, languageVars>>
  /\ Fairness /\ L!Fairness
  /\ WF_watchmanVars(running = "watchman" /\ W!Answer)
  /\ WF_watchmanVars(running = "watchman" /\ W!ClientCreated)
  /\ WF_watchmanVars(running = "watchman" /\ W!Retry)
  /\ WF_watchmanVars(running = "watchman" /\ \E t \in settling : W!Settled(t))
  /\ WF_watchmanVars(running = "watchman" /\ \E s \in DOMAIN root : W!Event(s))

\* The types of the variables of all three; the connection registered under the
\* host is not a closed one (ServerConnection.close).
NuclideTypeOK == TypeOK /\ W!TypeOK /\ L!TypeOK

\* When nothing is under way, Watchman knows every subscription of the map but
\* one it refused (WatchmanClient._restoreSubscriptions).
EntriesSubscribed == W!EntriesSubscribed

\* The only subscription of a client, if it was asked for once, misses nothing
\* after its first event while Watchman itself runs
\* (WatchmanClient._restoreSubscriptions).
AloneMissesNothing == W!AloneMissesNothing

\* No language server outlives its connection, and a click on Restart never makes
\* a second one (LspLanguageService._handleClose, _stop and start).
ServersMatchStates == L!ServersMatchStates

\* Every call of findOrCreate and every call on the WatchmanClient returns or
\* throws, and a reconnect of the latter ends; a language server that is to be
\* stopped is, and one that crashed is noticed.
CallsSettle == Settles /\ W!Settles /\ L!Settles

=============================================================================
