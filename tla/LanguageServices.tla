-------------------------- MODULE LanguageServices --------------------------
(***************************************************************************)
(* The language servers of a connection.  A MultiProjectLanguageService    *)
(* keeps an LspLanguageService for each project, made when a file of the   *)
(* project is first asked about, and watches their diagnostics.  An        *)
(* LspLanguageService spawns the server of its project, talks to it over   *)
(* an LspConnection, and starts it again when it crashes or when the user  *)
(* says so.                                                                *)
(*                                                                         *)
(* What follows the end of a connection at once, as the rejection of its   *)
(* requests and the end of its dialogs do, is part of the same action.     *)
(* The service waits until diagnostics are observed, as it does by         *)
(* default, and is made once for a project.                                *)
(***************************************************************************)
EXTENDS Naturals

CONSTANTS
  Project,       \* the projects of the connection
  RestartLimit   \* the crashes in three minutes after which it gives up, 5

\* No project.
NoProject == "none"

\* What an instance must satisfy.
ProjectAssumption == NoProject \notin Project
LimitAssumption == RestartLimit \in Nat \ {0}

VARIABLES
  factory,    \* factory[p]: how far the promise of p in _processes is
  latest,     \* the project whose entry was made last
  observing,  \* whether observeDiagnostics was called
  observed,   \* the projects whose diagnostics are subscribed to
  cleared,    \* whether the entries were cleared
  doomed,     \* the projects to be disposed when their promise is resolved
  lsp         \* lsp[p]: the LspLanguageService of p

multiVars == <<factory, latest, observing, observed, cleared, doomed>>
vars == <<multiVars, lsp>>

State == {"Initial", "Starting", "StartFailed", "Running", "Stopping", "Stopped"}

\* What start() awaits: the command and a host, the process, the answer to
\* `initialize`, the user's answer to a dialog.
Start == {"none", "hosting", "spawning", "initializing", "asking"}

NewService ==
  [state |-> "Initial",
   start |-> "none",
   connection |-> FALSE,   \* whether there is an _lspConnection
   server |-> "none",      \* the process of the connection
   fileEvents |-> FALSE,   \* whether _subscribeToFileEvents is subscribed
   recent |-> 0,           \* the length of _recentRestarts, up to the limit
   disposed |-> FALSE]     \* whether dispose was called

Init ==
  /\ factory = [p \in Project |-> "none"]
  /\ latest = NoProject
  /\ observing = FALSE
  /\ observed = {}
  /\ cleared = FALSE
  /\ doomed = {}
  /\ lsp = [p \in Project |-> NewService]

-----------------------------------------------------------------------------
(* LspLanguageService: how a service goes on *)

\* start(), to its first await; for a new service, or a restart.
Starting(l) == [l EXCEPT !.state = "Starting", !.start = "hosting"]

\* What perConnectionDisposables does; the process is killed.
TornDown(l) ==
  [l EXCEPT !.connection = FALSE, !.server = "none", !.fileEvents = FALSE]

\* _lspConnection.dispose() where the state is to become next; a start() that
\* awaits something of this connection is told, and fails.
Disconnected(l, next) ==
  [TornDown(l) EXCEPT !.state = IF l.start = "none" THEN next ELSE "StartFailed",
                      !.start = "none"]

StartFailed(l) == [l EXCEPT !.state = "StartFailed", !.start = "none"]

IsStopped(l) == l.state \in {"Stopping", "Stopped"}

\* _stop(), to its await if it has one.
Stopped(l) ==
  IF IsStopped(l) THEN l
  ELSE IF ~l.connection THEN [l EXCEPT !.state = "Stopped"]
  ELSE IF l.state = "Running" THEN [l EXCEPT !.state = "Stopping"]
  ELSE Disconnected(l, "Stopped")

Becomes(p, l) == lsp' = [lsp EXCEPT ![p] = l] /\ UNCHANGED multiVars

-----------------------------------------------------------------------------
(* MultiProjectLanguageService *)

\* getLanguageServiceForFile after findProjectDir, which may still be awaited
\* when the entries are cleared.
Request(p) ==
  /\ factory[p] = "none"
  /\ factory' = [factory EXCEPT ![p] = "waiting"]
  /\ latest' = p
  /\ UNCHANGED <<observing, observed, cleared, doomed, lsp>>

\* observeDiagnostics: the factories go on.
ObserveDiagnostics ==
  /\ ~observing
  /\ observing' = TRUE
  /\ UNCHANGED <<factory, latest, observed, cleared, doomed, lsp>>

\* The end of languageServiceFactory.
Returns(p) ==
  /\ factory[p] = "waiting" /\ observing
  /\ factory' = [factory EXCEPT ![p] = "returned"]
  /\ lsp' = [lsp EXCEPT ![p] = Starting(@)]
  /\ UNCHANGED <<latest, observing, observed, cleared, doomed>>

\* observeLanguageServices: its switchMap awaits the latest promise only.
Emits(p) ==
  /\ observing /\ latest = p
  /\ factory[p] = "returned" /\ p \notin observed
  /\ observed' = observed \cup {p}
  /\ UNCHANGED <<factory, latest, observing, cleared, doomed, lsp>>

\* _closeProcesses, when the file events end.
CloseProcesses ==
  /\ ~cleared
  /\ cleared' = TRUE
  /\ latest' = IF observing THEN latest ELSE NoProject
  /\ doomed' = {p \in Project : factory[p] # "none"}
  /\ UNCHANGED <<factory, observing, observed, lsp>>

\* LspLanguageService.dispose
Dispose(p) ==
  /\ p \in doomed /\ factory[p] = "returned"
  /\ doomed' = doomed \ {p}
  /\ lsp' = [lsp EXCEPT ![p] = [Stopped(@) EXCEPT !.disposed = TRUE]]
  /\ UNCHANGED <<factory, latest, observing, observed, cleared>>

-----------------------------------------------------------------------------
(* LspLanguageService.start *)

At(p, start) == lsp[p].start = start

\* The command is known and forkHostServices returned; or there is no command.
Hosts(p) ==
  /\ At(p, "hosting")
  /\ \/ Becomes(p, [lsp[p] EXCEPT !.start = "spawning"])
     \/ Becomes(p, StartFailed(lsp[p]))

\* The process is there, the connection listens and `initialize` is sent.
Spawns(p) ==
  /\ At(p, "spawning")
  /\ \/ Becomes(p, [lsp[p] EXCEPT !.start = "initializing",
                                  !.connection = TRUE, !.server = "alive"])
     \/ Becomes(p, StartFailed(lsp[p]))

Initializes(p) ==
  /\ At(p, "initializing")
  /\ Becomes(p, [lsp[p] EXCEPT !.state = "Running", !.start = "none",
                               !.fileEvents = TRUE])

\* Mutant of InitializeFails: the connection is left as it is.
InitializeFailsConnected(p) ==
  /\ At(p, "initializing")
  /\ Becomes(p, StartFailed(lsp[p]))

\* The server answered with an error that offers no retry.
InitializeFails(p) ==
  /\ At(p, "initializing")
  /\ Becomes(p, Disconnected(lsp[p], "StartFailed"))

\* It offers one; over the host of a disposed service, no dialog is shown.
OffersRetry(p) ==
  /\ At(p, "initializing")
  /\ Becomes(p, IF lsp[p].disposed THEN Disconnected(lsp[p], "StartFailed")
                                   ELSE [lsp[p] EXCEPT !.start = "asking"])

\* The user's answer.
AnswersDialog(p) ==
  /\ At(p, "asking")
  /\ \/ Becomes(p, [lsp[p] EXCEPT !.start = "initializing"])
     \/ Becomes(p, Disconnected(lsp[p], "StartFailed"))

\* The user clicks on Retry or Restart, which are shown in these states; the
\* host of a disposed service shows nothing.
ClickRestart(p) ==
  /\ lsp[p].state \in {"StartFailed", "Stopped"} /\ ~lsp[p].disposed
  /\ Becomes(p, Starting(lsp[p]))

-----------------------------------------------------------------------------
(* LspLanguageService: the end of a connection *)

\* The server crashes.
Exits(p) ==
  /\ lsp[p].server = "alive"
  /\ Becomes(p, [lsp[p] EXCEPT !.server = "exited"])

\* The fourth failed write, or a failed read.
HandleError(p) ==
  /\ lsp[p].connection /\ ~IsStopped(lsp[p])
  /\ Becomes(p, Stopped(lsp[p]))

\* _recentRestarts with the crash that was just now; some of the earlier ones
\* may be three minutes old.
Recent(l, k) == IF k + 1 > RestartLimit THEN RestartLimit ELSE k + 1

HandleClose(p) ==
  LET l == lsp[p] IN
  /\ l.connection /\ l.server = "exited" /\ ~IsStopped(l)
  /\ \/ l.state # "Running" /\ Becomes(p, Disconnected(l, "Stopped"))
     \/ /\ l.state = "Running"
        /\ \E k \in 0 .. l.recent :
             LET crashed == [Disconnected(l, "Stopped") EXCEPT !.recent = Recent(l, k)] IN
             Becomes(p, IF crashed.recent >= RestartLimit THEN crashed
                                                          ELSE Starting(crashed))

\* The end of _stop: the server answered, or did not within 30 seconds.
StopEnds(p) ==
  /\ lsp[p].state = "Stopping"
  /\ Becomes(p, Disconnected(lsp[p], "Stopped"))

-----------------------------------------------------------------------------
Next ==
  \/ ObserveDiagnostics
  \/ CloseProcesses
  \/ \E p \in Project :
       \/ Request(p) \/ Returns(p) \/ Emits(p) \/ Dispose(p)
       \/ Hosts(p) \/ Spawns(p)
       \/ Initializes(p) \/ InitializeFails(p) \/ OffersRetry(p)
       \/ AnswersDialog(p) \/ ClickRestart(p)
       \/ Exits(p) \/ HandleError(p) \/ HandleClose(p) \/ StopEnds(p)

Spec == Init /\ [][Next]_vars

\* Promises go on, a process is spawned or not, and the timer of _stop fires.
\* Nothing makes a server answer `initialize`, or the user anything.
Fairness ==
  \A p \in Project :
    /\ WF_vars(Returns(p)) /\ WF_vars(Emits(p)) /\ WF_vars(Dispose(p))
    /\ WF_vars(Hosts(p)) /\ WF_vars(Spawns(p))
    /\ WF_vars(HandleClose(p)) /\ WF_vars(StopEnds(p))

FairSpec == Spec /\ Fairness

-----------------------------------------------------------------------------
(* Properties *)

\* The types of the variables.
TypeOK ==
  /\ factory \in [Project -> {"none", "waiting", "returned"}]
  /\ latest \in Project \cup {NoProject}
  /\ observing \in BOOLEAN /\ cleared \in BOOLEAN
  /\ observed \subseteq Project /\ doomed \subseteq Project
  /\ lsp \in [Project ->
       [state : State, start : Start, connection : BOOLEAN,
        server : {"none", "alive", "exited"}, fileEvents : BOOLEAN,
        recent : 0 .. RestartLimit, disposed : BOOLEAN]]

\* However crashes, errors, failed starts, retries and disposals follow each
\* other, no server outlives its connection; _stop finds one when it goes on
\* (LspLanguageService.js:1015); file events are sent over one only, in the
\* states _fileOpen and its like assert; and a service that shows Retry or
\* Restart has no server left and no start under way, so that a click never
\* makes a second one.
ServersMatchStates ==
  \A p \in Project : LET l == lsp[p] IN
    /\ l.server # "none" => l.connection
    /\ l.state = "Stopping" => l.connection
    /\ l.fileEvents => l.connection /\ l.state \in {"Running", "Stopping"}
    /\ l.state \in {"StartFailed", "Stopped"} /\ ~l.disposed =>
         ~l.connection /\ l.start = "none"

\* A service that is stopping stops; a start gets as far as the server; a crash
\* is noticed, except by a service that was disposed while it started; and a
\* disposal awaited only the promise of its service.
Settles ==
  \A p \in Project :
    /\ lsp[p].state = "Stopping" ~> lsp[p].state # "Stopping"
    /\ lsp[p].start \in {"hosting", "spawning"} ~>
         lsp[p].start \notin {"hosting", "spawning"}
    /\ lsp[p].server = "exited" ~> lsp[p].server # "exited" \/ lsp[p].disposed
    /\ p \in doomed /\ observing ~> lsp[p].disposed

\* "As soon as we ourselves return, MultiProjectLanguageService will hook up
\* observeDiagnostics into the LSP process" (main.js:187): a service that was
\* returned is observed.
ReturnedIsObserved ==
  \A p \in Project : factory[p] = "returned" ~> p \in observed \/ cleared

=============================================================================
