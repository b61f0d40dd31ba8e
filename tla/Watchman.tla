------------------------------ MODULE Watchman ------------------------------
(***************************************************************************)
(* WatchmanClient: subscriptions to the changes below directories, kept    *)
(* over the failures of the connection to Watchman.  A failed client is    *)
(* replaced by a new one, which subscribes again to everything in the map  *)
(* of subscriptions, from the last clock an event of the root was seen at. *)
(*                                                                         *)
(* A subscription object is named after the call of                        *)
(* watchDirectoryRecursive that made it.  Time is one clock, which every   *)
(* change in the file system advances.  Watchman itself is external: it    *)
(* answers the commands of a connection in order, refuses some of them,    *)
(* and keeps no subscription longer than the connection.  Asked for the    *)
(* changes since a clock of its own it reports them all; asked since one   *)
(* of a Watchman that has died it reports none (empty_on_fresh_instance),  *)
(* but a clock of its own.  Its messages about states are left out, as are *)
(* the reports of health and the growing delay between attempts.           *)
(***************************************************************************)
EXTENDS Integers, Sequences, FiniteSets, SequencesExt

CONSTANTS
  Call,         \* the calls of watchDirectoryRecursive
  Cases,        \* the roots of the subscriptions, which one each call asks for,
                \* and the clock at the start
  MaxClock,     \* bound on the changes in the file system
  MaxFailures   \* bound on the failures of clients and of commands

\* Who awaits a command, beside the calls: the attempt to restore that is under
\* way, or one that was given up.
Attempt == {"this attempt", "an earlier one"}

None == "none"

\* What an instance must satisfy.
CallsAssumption == IsFiniteSet(Call) /\ Call \cap Attempt = {} /\ None \notin Call

CasesAssumption ==
  \A c \in Cases : /\ IsFiniteSet(DOMAIN c.root)
                   /\ c.name \in [Call -> DOMAIN c.root]
                   /\ c.clock \in 1 .. MaxClock

BoundAssumption == MaxClock \in Nat

VARIABLES
  name,       \* name[k]: the subscription call k asks for, which never changes
  root,       \* root[s]: the root of subscription s, which never changes
  stage,      \* stage[k]: how far call k is
  entry,      \* _subscriptions: entry[s] is an object, or None
  count,      \* count[k]: subscriptionCount of object k
  lastKnown,  \* _lastKnownClockTimes, 0 for none
  state,      \* the client in _clientPromise; a "dead" one has no listeners
  commands,   \* the commands of that client that are not answered
  phase,      \* how far _reconnectClient is
  scheduled,  \* the scheduledCall of _serializedReconnect
  restoring,  \* the subscriptions this attempt has to restore yet
  settling,   \* restores that sleep, of this attempt or an earlier one
  refused,    \* the calls whose subscribe Watchman refused since the last
              \* reconnect began; history, which no action reads
  clock,      \* the clock of the file system
  born,       \* the clock at which the Watchman that runs was started
  feed,       \* feed[s]: up to where Watchman told the client of changes
  seen,       \* seen[k]: the clock of the last changes object k emitted, or 0
  failures    \* how many failures there were

callVars == <<name, root, stage>>
mapVars == <<entry, count, lastKnown>>
clientVars == <<state, commands>>
reconnectVars == <<phase, scheduled, restoring, settling>>
eventVars == <<clock, born, feed, seen>>
vars == <<callVars, mapVars, clientVars, reconnectVars, refused, eventVars, failures>>

Sub == DOMAIN root

\* The feed of a subscription Watchman has not.
Off == 0

\* A call awaits one command after the other; "leaving" awaits unsubscribe.
Awaiting == {"watch-project", "clock", "subscribe", "unsubscribe"}
Stage == {"idle", "open", "failed", "left"} \cup Awaiting

Command(by, s, verb, since) == [by |-> by, sub |-> s, verb |-> verb, since |-> since]

Init ==
  /\ \E c \in Cases : root = c.root /\ name = c.name /\ clock = c.clock
  /\ stage = [k \in Call |-> "idle"]
  /\ entry = [s \in Sub |-> None]
  /\ count = [k \in Call |-> 0]
  /\ lastKnown = [r \in {root[s] : s \in Sub} |-> 0]
  /\ state = "creating" /\ commands = <<>>
  /\ phase = "idle" /\ scheduled = FALSE /\ restoring = {} /\ settling = {}
  /\ refused = {} /\ born = 1
  /\ feed = [s \in Sub |-> Off]
  /\ seen = [k \in Call |-> 0]
  /\ failures = 0

Ask(command) == commands' = Append(commands, command)

-----------------------------------------------------------------------------
(* Failures and reconnecting *)

\* The calls whose command is lost when the connection ends.
Cancelled == [k \in Call |-> IF stage[k] \in Awaiting THEN "failed" ELSE stage[k]]

\* client.end(), or the end of its connection.
EndClient ==
  /\ stage' = Cancelled
  /\ feed' = [s \in Sub |-> Off]

\* _reconnectClient, which ends the client it replaces, to its await on the
\* new one.
BeginReconnect ==
  /\ EndClient
  /\ state' = "creating"
  /\ commands' = <<>>
  /\ phase' = "creating"
  /\ restoring' = {}
  /\ refused' = {}
  /\ settling' = {[by |-> "an earlier one", sub |-> t.sub] : t \in settling}

\* Some restore of this attempt is cut off with the commands.
AttemptFails ==
  phase = "restoring" /\ \E i \in DOMAIN commands : commands[i].by = "this attempt"

\* Mutant of DropClient: the client that failed is not ended.
DropClientOnly ==
  /\ state' = "broken"
  /\ UNCHANGED <<commands, stage, feed, phase>>

\* What becomes of a client that failed while a reconnect is under way.
DropClient ==
  /\ EndClient
  /\ state' = "dead"
  /\ commands' = <<>>
  /\ phase' = IF AttemptFails THEN "waiting" ELSE phase

\* The `end` and `error` handlers of a client: _serializedReconnect starts now,
\* or after the reconnect that is under way.
ClientFails ==
  /\ state = "live" /\ failures < MaxFailures
  /\ failures' = failures + 1
  /\ \/ phase = "idle" /\ BeginReconnect /\ UNCHANGED scheduled
     \/ phase # "idle" /\ DropClient /\ scheduled' = TRUE /\ UNCHANGED <<restoring, settling, refused>>
  /\ UNCHANGED <<name, root, mapVars, clock, born, seen>>

\* The delay of retryWhen is over.
Retry ==
  /\ phase = "waiting"
  /\ BeginReconnect
  /\ UNCHANGED <<name, root, mapVars, scheduled, clock, born, seen, failures>>

\* Subscription s is restored; when it was the last one the attempt is over.
Restored(s) ==
  /\ restoring' = restoring \ {s}
  /\ phase' = IF restoring' # {} THEN phase ELSE IF scheduled THEN "waiting" ELSE "idle"
  /\ scheduled' = (scheduled /\ restoring' # {})

\* _createClientPromise is over; a reconnect goes on with _restoreSubscriptions.
ClientCreated ==
  /\ state = "creating"
  /\ state' = "live"
  /\ IF phase = "creating"
       THEN LET subs == {s \in Sub : entry[s] # None} IN
            /\ restoring' = subs
            /\ phase' = IF subs # {} THEN "restoring" ELSE IF scheduled THEN "waiting" ELSE "idle"
            /\ scheduled' = (scheduled /\ subs # {})
            /\ commands' = commands \o
                 SetToSeq({Command("this attempt", s, "watch-project", 0) : s \in subs})
       ELSE UNCHANGED <<restoring, phase, scheduled, commands>>
  /\ UNCHANGED <<callVars, mapVars, settling, refused, eventVars, failures>>

\* Mutant of Since: what was missed is not asked for.
SinceNow(s) == 0

\* Where a restored subscription starts, or 0 to ask for the clock.
Since(s) == lastKnown[root[s]]

\* The restore of a subscription wakes up from its sleep.
Settled(t) ==
  /\ t \in settling
  /\ settling' = settling \ {t}
  /\ Ask(Command(t.by, t.sub, IF Since(t.sub) = 0 THEN "clock" ELSE "subscribe", Since(t.sub)))
  /\ UNCHANGED <<callVars, mapVars, state, phase, scheduled, restoring, refused, eventVars,
                 failures>>

-----------------------------------------------------------------------------
(* watchDirectoryRecursive and unwatch *)

\* watchDirectoryRecursive, to its first await.
Watch(k) ==
  /\ stage[k] = "idle"
  /\ LET o == entry[name[k]] IN
       \/ /\ o # None
          /\ count' = [count EXCEPT ![o] = @ + 1]
          /\ stage' = [stage EXCEPT ![k] = "open"]
          /\ UNCHANGED commands
       \/ /\ o = None
          /\ stage' = [stage EXCEPT ![k] = "watch-project"]
          /\ Ask(Command(k, name[k], "watch-project", 0))
          /\ UNCHANGED count
  /\ UNCHANGED <<name, root, entry, lastKnown, state, reconnectVars, refused, eventVars,
                 failures>>

\* unwatch, to its await if it was the last user.  It looks for the name, and
\* may find the object of another call.
Unwatch(k) ==
  /\ stage[k] = "open"
  /\ LET o == entry[name[k]] IN
       \/ /\ o = None
          /\ stage' = [stage EXCEPT ![k] = "left"]
          /\ UNCHANGED <<count, commands>>
       \/ /\ o # None
          /\ count' = [count EXCEPT ![o] = @ - 1]
          /\ IF count'[o] = 0
               THEN /\ stage' = [stage EXCEPT ![k] = "unsubscribe"]
                    /\ Ask(Command(k, name[k], "unsubscribe", 0))
               ELSE /\ stage' = [stage EXCEPT ![k] = "left"]
                    /\ UNCHANGED commands
  /\ UNCHANGED <<name, root, entry, lastKnown, state, reconnectVars, refused, eventVars,
                 failures>>

-----------------------------------------------------------------------------
(* The answers of Watchman *)

\* Mutant of DeleteSubscription: the entry stays.
KeepSubscription(s) == UNCHANGED entry

\* _deleteSubscription
DeleteSubscription(s) == entry' = [entry EXCEPT ![s] = None]

\* Only a client with listeners hears of changes.
Feeds(s, since) == feed' = [feed EXCEPT ![s] = IF state = "live" THEN since ELSE Off]

AnswerCall(c) ==
  LET k == c.by
      Then(verb, since) ==
        /\ stage' = [stage EXCEPT ![k] = verb]
        /\ commands' = Append(Tail(commands), Command(k, c.sub, verb, since))
      Ends(final) ==
        /\ stage' = [stage EXCEPT ![k] = final]
        /\ commands' = Tail(commands) IN
  /\ \/ /\ c.verb = "watch-project"
        /\ Then("clock", 0)
        /\ UNCHANGED <<entry, count, feed>>
     \/ /\ c.verb = "clock"
        /\ entry' = [entry EXCEPT ![c.sub] = k]
        /\ count' = [count EXCEPT ![k] = 1]
        /\ Then("subscribe", clock)
        /\ UNCHANGED feed
     \/ /\ c.verb = "subscribe"
        /\ Feeds(c.sub, c.since)
        /\ Ends("open")
        /\ UNCHANGED <<entry, count>>
     \/ /\ c.verb = "unsubscribe"
        /\ feed' = [feed EXCEPT ![c.sub] = Off]
        /\ DeleteSubscription(c.sub)
        /\ Ends("left")
        /\ UNCHANGED count
  /\ UNCHANGED reconnectVars

\* A restore of an attempt that was given up goes on, too.
AnswerRestore(c) ==
  /\ \/ /\ c.verb = "watch-project"
        /\ settling' = settling \cup {[by |-> c.by, sub |-> c.sub]}
        /\ commands' = Tail(commands)
        /\ UNCHANGED <<feed, phase, scheduled, restoring>>
     \/ /\ c.verb = "clock"
        /\ commands' = Append(Tail(commands), Command(c.by, c.sub, "subscribe", clock))
        /\ UNCHANGED <<feed, reconnectVars>>
     \/ /\ c.verb = "subscribe"
        /\ Feeds(c.sub, c.since)
        /\ commands' = Tail(commands)
        /\ IF c.by = "this attempt" /\ phase = "restoring"
             THEN Restored(c.sub)
             ELSE UNCHANGED <<phase, scheduled, restoring>>
        /\ UNCHANGED settling
  /\ UNCHANGED <<stage, entry, count>>

Answer ==
  /\ state \in {"live", "dead"} /\ commands # <<>>
  /\ LET c == Head(commands) IN
       IF c.by \in Call THEN AnswerCall(c) ELSE AnswerRestore(c)
  /\ UNCHANGED <<name, root, lastKnown, state, refused, clock, born, seen, failures>>

\* Watchman answers with an error: whoever awaits the command fails, and what
\* was done before it stays.  So a refused subscribe leaves the entry that was
\* made before it, and a refused unsubscribe one that nobody uses.
Refuse ==
  /\ state \in {"live", "dead"} /\ commands # <<>> /\ failures < MaxFailures
  /\ failures' = failures + 1
  /\ LET c == Head(commands) IN
       /\ stage' = [k \in Call |-> IF k = c.by THEN "failed" ELSE stage[k]]
       /\ refused' = refused \cup {k \in Call : k = c.by /\ c.verb = "subscribe"}
       /\ phase' = IF c.by = "this attempt" /\ phase = "restoring" THEN "waiting" ELSE phase
  /\ commands' = Tail(commands)
  /\ UNCHANGED <<name, root, mapVars, state, scheduled, restoring, settling, eventVars>>

-----------------------------------------------------------------------------
(* Changes in the file system *)

Change ==
  /\ clock < MaxClock
  /\ clock' = clock + 1
  /\ UNCHANGED <<callVars, mapVars, clientVars, reconnectVars, refused, born, feed, seen,
                 failures>>

\* Watchman died, which ended the client, and another one was started before the
\* next client connects; its clocks are none of the earlier ones.
WatchmanRestarts ==
  /\ state = "creating" /\ clock < MaxClock
  /\ clock' = clock + 1
  /\ born' = clock'
  /\ UNCHANGED <<callVars, mapVars, clientVars, reconnectVars, refused, feed, seen, failures>>

\* Watchman was asked for changes since a clock that is not its own.
Fresh(s) == feed[s] < born

\* _onSubscriptionResult: the object that has the name now emits the changes.
\* A Watchman that is fresh to the subscription names none.
Event(s) ==
  /\ state = "live" /\ feed[s] # Off /\ feed[s] < clock
  /\ feed' = [feed EXCEPT ![s] = clock]
  /\ LET o == entry[s] IN
       IF o = None
         THEN UNCHANGED <<lastKnown, seen>>
         ELSE /\ lastKnown' = [lastKnown EXCEPT ![root[s]] = clock]
              /\ seen' = IF Fresh(s) THEN seen ELSE [seen EXCEPT ![o] = clock]
  /\ UNCHANGED <<callVars, entry, count, clientVars, reconnectVars, refused, clock, born,
                 failures>>

-----------------------------------------------------------------------------
Next ==
  \/ \E k \in Call : Watch(k) \/ Unwatch(k)
  \/ Answer
  \/ Refuse
  \/ ClientCreated
  \/ ClientFails
  \/ Retry
  \/ \E t \in settling : Settled(t)
  \/ Change
  \/ WatchmanRestarts
  \/ \E s \in Sub : Event(s)

Spec == Init /\ [][Next]_vars

\* A client that did not fail answers, timers fire, and events arrive.
Fairness ==
  /\ WF_vars(Answer)
  /\ WF_vars(ClientCreated)
  /\ WF_vars(Retry)
  /\ WF_vars(\E t \in settling : Settled(t))
  /\ WF_vars(\E s \in Sub : Event(s))

FairSpec == Spec /\ Fairness

-----------------------------------------------------------------------------
(* Properties *)

\* The types of the variables.
TypeOK ==
  /\ stage \in [Call -> Stage]
  /\ entry \in [Sub -> Call \cup {None}]
  /\ count \in [Call -> -Cardinality(Call) .. Cardinality(Call)]
  /\ state \in {"creating", "live", "dead"}
  /\ commands \in Seq([by : Call \cup Attempt, sub : Sub, since : 0 .. MaxClock,
                       verb : Awaiting])
  /\ phase \in {"idle", "creating", "restoring", "waiting"}
  /\ scheduled \in BOOLEAN
  /\ restoring \subseteq Sub
  /\ settling \subseteq [by : Attempt, sub : Sub]
  /\ refused \subseteq Call
  /\ born \in 1 .. clock
  /\ feed \in [Sub -> 0 .. clock]

\* When nothing is under way, Watchman knows every subscription of the map,
\* whatever was cut off, refused, retried or overlapped, but for one: that of a
\* call whose subscribe Watchman refused.  Its entry stays (the code makes it
\* first), the next caller is handed it, and nobody subscribes until the next
\* reconnect, which does.  The converse does not hold: an unwatch may take away
\* the entry a second caller is about to subscribe.
AtRest == state = "live" /\ commands = <<>> /\ phase = "idle" /\ settling = {}

EntriesSubscribed ==
  AtRest => \A s \in Sub : entry[s] \notin refused \cup {None} => feed[s] # Off

\* Changes o was not told of are not coming any more, although the Watchman
\* that sent its last changes still runs.
Misses(s) ==
  LET o == entry[s] IN
  o # None /\ feed[s] # Off /\ seen[o] >= born /\ feed[s] > seen[o]

\* "reconnect `since` that time, so that we get any events we missed"
\* (WatchmanClient._restoreSubscriptions): the only subscription of a client, if
\* it was asked for once, misses nothing after its first event while Watchman
\* runs, however often the connection fails, also at an event that cannot be
\* read.  If Watchman itself died, what changed until the restore is missed.
\* With another subscription more may be: under the same root, since they share
\* a clock; under any, since an attempt given up for the other restores this one
\* twice.
Alone(s) ==
  /\ Sub = {s}
  /\ \A j, k \in Call :
       name[j] = s /\ name[k] = s /\ "idle" \notin {stage[j], stage[k]} => j = k

AloneMissesNothing == \A s \in Sub : Alone(s) => ~Misses(s)

\* "serializeAsyncCall can be unblocked. Otherwise, we end up in a deadlock"
\* (WatchmanClient): every call settles, and a reconnect ends.
Settles ==
  /\ \A k \in Call : stage[k] \in Awaiting ~> stage[k] \notin Awaiting
  /\ phase # "idle" ~> phase = "idle" /\ state = "live"

=============================================================================
