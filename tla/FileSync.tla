------------------------------ MODULE FileSync ------------------------------
(***************************************************************************)
(* Keeping the server's copy of an open file in step with the editor: a    *)
(* BufferSubscription for each time the file is open (a session), the      *)
(* retries of NotifiersByConnection, and FileCache with its                *)
(* FileVersionNotifier on the server.                                      *)
(*                                                                         *)
(* The calls of onFileEvent travel over an RpcConnection: they arrive in   *)
(* order, and one that is not answered in time is rejected at the client   *)
(* although it still arrives.  A text is named after the session and the   *)
(* change count at which the editor had it.  Closing stands for renaming   *)
(* as well, which is a close under the old path.                           *)
(***************************************************************************)
EXTENDS Integers, Sequences

CONSTANTS
  MaxSession,   \* bound on the times the file is opened
  MaxVersion,   \* bound on the change count
  MaxTimeouts,  \* bound on the calls that time out
  MaxWire,      \* bound on the calls in flight when the user does something
  MaxReplies    \* bound on the answers in flight when a call arrives

ASSUME BoundsAssumption ==
  {MaxSession, MaxVersion, MaxTimeouts, MaxWire, MaxReplies} \subseteq Nat /\ MaxVersion > 0

VARIABLES
  session,            \* the number of times the file was opened
  isOpen,             \* whether it is open now
  changeCount,        \* _changeCount of its BufferSubscription
  sentOpen,           \* _sentOpen
  lastAttemptedSync,  \* _lastAttemptedSync
  resyncs,            \* the versions for which a sendResync timer runs
  closes,             \* the sessions for which a sendMessage timer of a CLOSE runs
  timeouts,           \* the calls that have timed out so far
  wire,               \* the calls on their way to the server
  replies,            \* the answers on their way to the client
  buffer,             \* the server's buffer of the file and its version
  lost,               \* whether a CLOSE of an earlier session took the buffer,
                      \* and no edit has come since
  ask                 \* a request of a language service for a version of the file

subscriptionVars == <<session, isOpen, changeCount, sentOpen>>
retryVars == <<lastAttemptedSync, resyncs, closes>>
serverVars == <<buffer, lost>>
vars == <<subscriptionVars, retryVars, timeouts, wire, replies, serverVars, ask>>

Session == 1 .. MaxSession
Version == 1 .. MaxVersion

\* The editor's text now, and a text that no editor had.
Text == <<session, changeCount>>
Mixed == <<0, 0>>

None == [version |-> 0, text |-> Mixed]

NoAsk == [stage |-> "none", session |-> 0, version |-> 0, answer |-> Mixed]

Init ==
  /\ session = 0 /\ isOpen = FALSE
  /\ changeCount = 1 /\ sentOpen = FALSE
  /\ lastAttemptedSync = -1 /\ resyncs = {} /\ closes = {}
  /\ timeouts = 0
  /\ wire = <<>> /\ replies = <<>>
  /\ buffer = None /\ lost = FALSE
  /\ ask = NoAsk

\* A call of onFileEvent; an edit carries the text it leads to, a sync or an
\* open the whole text.
Event(kind, version, text) ==
  [kind |-> kind, session |-> session, version |-> version, text |-> text,
   awaited |-> TRUE]

Sent(event) == wire' = Append(wire, event)

Room == Len(wire) < MaxWire

-----------------------------------------------------------------------------
(* BufferSubscription *)

\* The constructor; an empty buffer is not announced.
OpenFile(isEmpty) ==
  /\ ~isOpen /\ session < MaxSession /\ Room
  /\ session' = session + 1
  /\ isOpen' = TRUE
  /\ changeCount' = 1
  /\ sentOpen' = ~isEmpty
  /\ lastAttemptedSync' = -1
  /\ resyncs' = {}
  /\ wire' = IF isEmpty THEN wire
             ELSE Append(wire, [Event("OPEN", 1, <<session + 1, 1>>)
                                  EXCEPT !.session = session + 1])
  /\ UNCHANGED <<closes, timeouts, replies, serverVars, ask>>

\* onDidChangeText with n changes, each an edit of its own version, or the
\* OPEN that was not sent before.
Edit(n) ==
  /\ isOpen /\ changeCount + n <= MaxVersion /\ Room
  /\ changeCount' = changeCount + n
  /\ sentOpen' = TRUE
  /\ wire' = IF sentOpen
               THEN wire \o [i \in 1 .. n |->
                      Event("EDIT", changeCount + i, <<session, changeCount + i>>)]
               ELSE Append(wire, Event("OPEN", changeCount', <<session, changeCount'>>))
  /\ UNCHANGED <<session, isOpen, retryVars, timeouts, replies, serverVars, ask>>

\* onDidSave
Save ==
  /\ isOpen /\ Room
  /\ sentOpen' = TRUE
  /\ Sent(Event(IF sentOpen THEN "SAVE" ELSE "OPEN", changeCount, Text))
  /\ UNCHANGED <<session, isOpen, changeCount, retryVars, timeouts, replies,
                 serverVars, ask>>

\* dispose, with the first attempt of NotifiersByConnection.sendClose.  The
\* timers of the subscription find no notifier when they fire.
CloseFile ==
  /\ isOpen
  /\ isOpen' = FALSE
  /\ resyncs' = {}
  /\ Sent(Event("CLOSE", changeCount, Text))
  /\ UNCHANGED <<session, changeCount, sentOpen, lastAttemptedSync, closes, timeouts,
                 replies, serverVars, ask>>

\* updateServerVersion
UpdateServerVersion(version) ==
  lastAttemptedSync' = IF version > lastAttemptedSync THEN version ELSE lastAttemptedSync

\* What sendResync checks of a subscription that was not disposed.
SendsResync(version) == version = lastAttemptedSync' /\ version = changeCount

SendResync(version, calls) ==
  wire' = IF SendsResync(version) THEN Append(calls, Event("SYNC", version, Text))
                                  ELSE calls

\* Mutant of AttemptResync: one attempt, whatever becomes of it.
AttemptResyncOnce(calls) ==
  IF lastAttemptedSync = -1
    THEN lastAttemptedSync' = changeCount /\ SendResync(changeCount, calls)
    ELSE UNCHANGED lastAttemptedSync /\ wire' = calls

\* attemptResync
AttemptResync(calls) ==
  IF changeCount > lastAttemptedSync
    THEN lastAttemptedSync' = changeCount /\ SendResync(changeCount, calls)
    ELSE UNCHANGED lastAttemptedSync /\ wire' = calls

IsCurrent(m) == isOpen /\ m.session = session

\* What follows the await of a call that was answered.
Succeeds(m) ==
  /\ IF IsCurrent(m) /\ m.kind # "CLOSE"
       THEN UpdateServerVersion(m.version)
       ELSE UNCHANGED lastAttemptedSync
  /\ UNCHANGED <<resyncs, closes, wire>>

\* The catch block of a call that was rejected, with the calls in flight.
Fails(m, calls) ==
  \/ /\ m.kind = "CLOSE"
     /\ closes' = closes \cup {m.session}
     /\ wire' = calls
     /\ UNCHANGED <<lastAttemptedSync, resyncs>>
  \/ /\ m.kind = "SYNC"
     /\ resyncs' = IF IsCurrent(m) THEN resyncs \cup {m.version} ELSE resyncs
     /\ wire' = calls
     /\ UNCHANGED <<lastAttemptedSync, closes>>
  \/ /\ m.kind \notin {"CLOSE", "SYNC"}
     /\ IF IsCurrent(m) THEN AttemptResync(calls)
                        ELSE UNCHANGED lastAttemptedSync /\ wire' = calls
     /\ UNCHANGED <<resyncs, closes>>

HandleReply ==
  /\ replies # <<>>
  /\ LET m == Head(replies) IN
       \/ ~m.awaited /\ UNCHANGED <<retryVars, wire>>
       \/ m.awaited /\ m.ok /\ Succeeds(m)
       \/ m.awaited /\ ~m.ok /\ Fails(m, wire)
  /\ replies' = Tail(replies)
  /\ UNCHANGED <<subscriptionVars, timeouts, serverVars, ask>>

\* The timer of a call fires while the call or its answer is on its way.
TimesOut ==
  /\ timeouts < MaxTimeouts
  /\ timeouts' = timeouts + 1
  /\ \/ \E i \in DOMAIN wire :
          /\ wire[i].awaited
          /\ Fails(wire[i], [wire EXCEPT ![i].awaited = FALSE])
          /\ UNCHANGED replies
     \/ \E i \in DOMAIN replies :
          /\ replies[i].awaited
          /\ Fails(replies[i], wire)
          /\ replies' = [replies EXCEPT ![i].awaited = FALSE]
  /\ UNCHANGED <<subscriptionVars, serverVars, ask>>

\* The timer of sendResync.
ResyncTimer ==
  \E version \in resyncs :
    /\ resyncs' = resyncs \ {version}
    /\ UNCHANGED <<lastAttemptedSync, closes>>
    /\ SendResync(version, wire)
    /\ UNCHANGED <<subscriptionVars, timeouts, replies, serverVars, ask>>

\* The timer of sendMessage.
CloseTimer ==
  \E s \in closes :
    /\ closes' = closes \ {s}
    /\ Sent([Event("CLOSE", 0, Mixed) EXCEPT !.session = s])
    /\ UNCHANGED <<subscriptionVars, lastAttemptedSync, resyncs, timeouts, replies,
                   serverVars, ask>>

\* getFileVersionOfBuffer, and the request of a language service with it.
Ask ==
  /\ isOpen /\ ask = NoAsk /\ Room
  /\ ask' = [NoAsk EXCEPT !.stage = "sent", !.session = session, !.version = changeCount]
  /\ Sent([Event("ASK", changeCount, Mixed) EXCEPT !.awaited = FALSE])
  /\ UNCHANGED <<subscriptionVars, retryVars, timeouts, replies, serverVars>>

-----------------------------------------------------------------------------
(* FileCache and FileVersionNotifier *)

\* Mutant of CheckRequests: a request for a version the file went past is left
\* waiting.
CheckRequestsExactly(version) ==
  ask' = IF ask.stage = "waiting" /\ ask.version = version
           THEN [ask EXCEPT !.stage = "reached"] ELSE ask

\* _checkRequests, with the version the file has now.
CheckRequests(version) ==
  ask' = IF ask.stage = "waiting" /\ ask.version <= version
           THEN [ask EXCEPT !.stage = IF ask.version = version THEN "reached"
                                                               ELSE "answered"]
           ELSE ask

\* update: the file gets a text and a version.
Update(version, text) ==
  /\ buffer' = [version |-> version, text |-> text]
  /\ CheckRequests(version)

Reply(m, ok) ==
  replies' = Append(replies, [kind |-> m.kind, session |-> m.session,
                              version |-> m.version, ok |-> ok, awaited |-> m.awaited])

\* _open
OpenBuffer(m) == Update(m.version, m.text) /\ lost' = FALSE /\ Reply(m, TRUE)

\* An error is thrown: the client is told.
Rejects(m) == Reply(m, FALSE) /\ lost' = FALSE /\ UNCHANGED <<buffer, ask>>

HandleOpen(m) ==
  \/ buffer = None /\ OpenBuffer(m)
  \/ buffer # None /\ Rejects(m)

\* Whatever session and version the CLOSE is for.
HandleClose(m) ==
  /\ lost' = IF buffer = None THEN lost ELSE buffer.text[1] # m.session
  /\ buffer' = None
  /\ Reply(m, TRUE)
  /\ UNCHANGED ask

\* An edit that fits the version but was made for another text is applied when
\* the range it replaces happens to hold the text it expects.
HandleEdit(m) ==
  LET fits == buffer # None /\ buffer.version = m.version - 1
      same == buffer.text = <<m.session, m.version - 1>> IN
  \/ /\ fits
     /\ Update(m.version, IF same THEN m.text ELSE Mixed)
     /\ Reply(m, TRUE)
     /\ UNCHANGED lost
  \/ ~(fits /\ same) /\ Rejects(m)

HandleSave(m) == Reply(m, TRUE) /\ UNCHANGED <<serverVars, ask>>

\* Mutant of SyncBuffer: setText counts the change, and nothing sets the count.
SyncBufferCounted(m) == Update(buffer.version + 1, m.text)

\* _syncEdit, past its check.
SyncBuffer(m) == Update(m.version, m.text)

\* _syncEdit, or _open without a buffer.
HandleSync(m) ==
  \/ buffer = None /\ OpenBuffer(m)
  \/ /\ buffer # None /\ m.version < buffer.version
     /\ Reply(m, TRUE)
     /\ UNCHANGED <<serverVars, ask>>
  \/ /\ buffer # None /\ m.version >= buffer.version
     /\ SyncBuffer(m)
     /\ Reply(m, TRUE)
     /\ UNCHANGED lost

\* waitForBufferAtVersion
HandleAsk(m) ==
  /\ ask' = [ask EXCEPT !.stage =
       IF buffer.version = m.version THEN "reached"
       ELSE IF buffer.version > m.version THEN "answered" ELSE "waiting"]
  /\ UNCHANGED <<replies, serverVars>>

\* onFileEvent, or the language service's call.
HandleEvent ==
  /\ wire # <<>> /\ Len(replies) < MaxReplies
  /\ LET m == Head(wire) IN
       \/ m.kind = "OPEN" /\ HandleOpen(m)
       \/ m.kind = "CLOSE" /\ HandleClose(m)
       \/ m.kind = "EDIT" /\ HandleEdit(m)
       \/ m.kind = "SAVE" /\ HandleSave(m)
       \/ m.kind = "SYNC" /\ HandleSync(m)
       \/ m.kind = "ASK" /\ HandleAsk(m)
  /\ wire' = Tail(wire)
  /\ UNCHANGED <<subscriptionVars, retryVars, timeouts>>

\* Mutant of BufferFor: the version is not checked again after the await.
BufferForLatest(version) == buffer.text

\* The end of getBufferAtVersion: Mixed stands for its null.
BufferFor(version) == IF buffer.version = version THEN buffer.text ELSE Mixed

Answer ==
  /\ ask.stage = "reached"
  /\ ask' = [ask EXCEPT !.stage = "answered", !.answer = BufferFor(ask.version)]
  /\ UNCHANGED <<subscriptionVars, retryVars, timeouts, wire, replies, serverVars>>

-----------------------------------------------------------------------------
Next ==
  \/ \E isEmpty \in BOOLEAN : OpenFile(isEmpty)
  \/ \E n \in 1 .. 2 : Edit(n)
  \/ Save
  \/ CloseFile
  \/ Ask
  \/ HandleReply
  \/ TimesOut
  \/ ResyncTimer
  \/ CloseTimer
  \/ HandleEvent
  \/ Answer

Spec == Init /\ [][Next]_vars

\* Calls and answers arrive, timers fire and promises go on; nothing makes the
\* user do anything, or a call time out.
Fairness ==
  /\ WF_vars(HandleEvent)
  /\ WF_vars(HandleReply)
  /\ WF_vars(ResyncTimer)
  /\ WF_vars(CloseTimer)
  /\ WF_vars(Answer)

FairSpec == Spec /\ Fairness

-----------------------------------------------------------------------------
(* Properties *)

Kind == {"OPEN", "CLOSE", "EDIT", "SAVE", "SYNC", "ASK"}

AnyText == (Session \X Version) \cup {Mixed}

\* The types of the variables.
TypeOK ==
  /\ session \in 0 .. MaxSession
  /\ isOpen \in BOOLEAN /\ sentOpen \in BOOLEAN /\ lost \in BOOLEAN
  /\ changeCount \in 1 .. MaxVersion
  /\ lastAttemptedSync \in {-1} \cup Version
  /\ resyncs \subseteq Version /\ closes \subseteq Session
  /\ timeouts \in 0 .. MaxTimeouts
  /\ wire \in Seq([kind : Kind, session : Session, version : Nat, text : AnyText,
                   awaited : BOOLEAN])
  /\ replies \in Seq([kind : Kind, session : Session, version : Nat, ok : BOOLEAN,
                      awaited : BOOLEAN])
  /\ buffer \in [version : Version, text : AnyText] \cup {None}
  /\ ask.stage \in {"none", "sent", "waiting", "reached", "answered"}

\* The variables have their types, and the version of the server's buffer tells
\* its text: whatever was retried, overtaken or rejected, the buffer never has a
\* text under another version's number, and no edit is applied to a text it was
\* not made for.
VersionMeansText == TypeOK /\ (buffer # None => buffer.text[2] = buffer.version)

\* When nothing is in flight and no timer runs, the server has the editor's
\* text, or no buffer if the file is closed or was never announced; unless a
\* CLOSE of an earlier session, retried after it had timed out, took it, and
\* no edit has come since.
AtRest == wire = <<>> /\ replies = <<>> /\ resyncs = {} /\ closes = {}

InSyncAtRest ==
  AtRest =>
    IF isOpen /\ sentOpen
      THEN \/ buffer = [version |-> changeCount, text |-> Text]
           \/ buffer = None /\ lost
      ELSE buffer = None

\* A language service is given the text its caller saw, or none; a request left
\* over from an earlier session may be answered from a later one.
AnswersMatch ==
  ask.answer # Mixed =>
    /\ ask.answer[2] = ask.version
    /\ ask.answer[1] >= ask.session

\* A request about a file that was announced is answered, unless the file is
\* closed or a late CLOSE takes it.
Asked == ask.stage \in {"sent", "waiting", "reached"} /\ isOpen /\ sentOpen
           /\ ask.session = session

AskSettles == Asked ~> ask.stage = "answered" \/ ~isOpen \/ lost

=============================================================================
