--------------------------- MODULE FileSyncProofs ---------------------------
(***************************************************************************)
(* Theorems about FileSync, for every bound on the sessions, versions,     *)
(* timeouts and calls in flight: that the version of the server's buffer   *)
(* tells its text, that a language service is given the text its caller    *)
(* saw, and that at rest the server has the text of the editor.            *)
(***************************************************************************)
EXTENDS FileSync, SequenceTheorems, TLAPS

-----------------------------------------------------------------------------
(* The invariant *)

CallType ==
  [kind : Kind, session : Session, version : Nat, text : AnyText, awaited : BOOLEAN]

ReplyType ==
  [kind : Kind, session : Session, version : Nat, ok : BOOLEAN, awaited : BOOLEAN]

AskType ==
  [stage : {"none", "sent", "waiting", "reached", "answered"},
   session : 0 .. MaxSession, version : Nat, answer : AnyText]

Typed ==
  /\ session \in 0 .. MaxSession /\ (isOpen => session > 0)
  /\ isOpen \in BOOLEAN /\ sentOpen \in BOOLEAN /\ lost \in BOOLEAN
  /\ changeCount \in Version
  /\ lastAttemptedSync \in {-1} \cup Version
  /\ resyncs \subseteq Version /\ closes \subseteq Session
  /\ timeouts \in 0 .. MaxTimeouts
  /\ wire \in Seq(CallType)
  /\ replies \in Seq(ReplyType)
  /\ buffer \in [version : Version, text : AnyText] \cup {None}
  /\ ask \in AskType

\* The calls that bring a text, and those that rely on the text of a session.
Data == {"OPEN", "EDIT", "SYNC"}
Bound == Data \cup {"ASK"}

\* What a call says agrees with what the editor had.
Meant(m) ==
  /\ m.session <= session
  /\ m.kind \in Data => m.text = <<m.session, m.version>>
  /\ m.kind # "CLOSE" => m.version \in Version
  /\ m.kind # "CLOSE" /\ m.session = session => m.version <= changeCount
  /\ m.kind = "SYNC" /\ m.session = session => m.version <= lastAttemptedSync
  /\ m.kind = "CLOSE" /\ isOpen => m.session < session
  /\ m.kind = "ASK" => ~m.awaited

\* What an answer says.
Told(r) ==
  /\ r.session <= session
  /\ r.kind # "CLOSE" => r.version \in Version
  /\ r.kind # "CLOSE" /\ r.session = session => r.version <= changeCount
  /\ r.kind = "SYNC" /\ r.session = session => r.version <= lastAttemptedSync
  /\ r.kind = "CLOSE" /\ isOpen => r.session < session
  /\ r.kind # "ASK"
  /\ r.ok \/ r.kind \in {"OPEN", "EDIT"}

CallsMeant == \A i \in 1 .. Len(wire) : Meant(wire[i])
AnswersTold == \A i \in 1 .. Len(replies) : Told(replies[i])

\* The text of the buffer is one the editor had at the version of the buffer.
Held ==
  buffer # None =>
    /\ buffer.text = <<buffer.text[1], buffer.version>>
    /\ buffer.text[1] \in 1 .. session
    /\ buffer.text[1] = session => buffer.version <= changeCount

Retried ==
  /\ lastAttemptedSync <= changeCount
  /\ \A v \in resyncs : v <= lastAttemptedSync
  /\ \A s \in closes : s <= session /\ (isOpen => s < session)
  /\ ~isOpen => resyncs = {}

\* There is a CLOSE in w between positions i and j.
Closes(w, i, j) == \E k \in i + 1 .. j - 1 : w[k].kind = "CLOSE"

\* A call that relies on the text of one session is not preceded by a text of
\* another without a CLOSE between the two; b is the session whose text the
\* buffer has, n the session that may send the next call, or 0.
Separated(w, b, n) ==
  /\ \A i, j \in 1 .. Len(w) :
       i < j /\ w[i].kind \in Data /\ w[j].kind \in Bound /\ w[i].session # w[j].session
         => Closes(w, i, j)
  /\ \A j \in 1 .. Len(w) :
       b # 0 /\ w[j].kind \in Bound /\ w[j].session # b => Closes(w, 0, j)
  /\ \A i \in 1 .. Len(w) :
       w[i].kind \in Data /\ w[i].session # n => Closes(w, i, Len(w) + 1)
  /\ b # 0 /\ b # n => Closes(w, 0, Len(w) + 1)

Holder == IF buffer = None THEN 0 ELSE buffer.text[1]
Sender == IF isOpen THEN session ELSE 0

\* Nothing of an open file that was not announced has been sent.
Unsent ==
  isOpen /\ ~sentOpen =>
    /\ lastAttemptedSync = -1
    /\ \A i \in 1 .. Len(wire) : wire[i].session = session => wire[i].kind = "ASK"
    /\ \A i \in 1 .. Len(replies) : replies[i].session # session
    /\ Holder # session

\* The call that announces the editor's version, and those that may follow it.
Announces(m) ==
  m.kind \in {"OPEN", "EDIT"} /\ m.session = session /\ m.version = changeCount

Follows(m) ==
  \/ m.kind \in {"CLOSE", "ASK"}
  \/ m.kind \in {"SYNC", "SAVE"} /\ m.session = session /\ m.version = changeCount

Older(m) ==
  m.session = session /\ m.kind \in {"OPEN", "EDIT", "SYNC", "SAVE"} => m.version < changeCount

\* Calls that follow position p of the wire, a SYNC among them.
Behind(p) == \A j \in p + 1 .. Len(wire) : Follows(wire[j])
Resynced(p) == \E j \in p + 1 .. Len(wire) : wire[j].kind = "SYNC"

InSync ==
  \/ buffer = [version |-> changeCount, text |-> Text]
  \/ buffer = None /\ lost

\* The announcement was rejected, and the client will resynchronise when it
\* reads the answer.
Rejected ==
  \E q \in 1 .. Len(replies) :
    /\ replies[q].kind \in {"OPEN", "EDIT"} /\ replies[q].session = session
    /\ ~replies[q].ok /\ replies[q].awaited
    /\ lastAttemptedSync < changeCount
    /\ \A j \in 1 .. q - 1 : Older(replies[j])

\* The announcement of the editor's version is at position p of the wire.
Announcing(p) ==
  /\ Announces(wire[p]) /\ Behind(p)
  /\ \A j \in 1 .. p - 1 : Older(wire[j])
  /\ \A j \in 1 .. Len(replies) : Older(replies[j])
  /\ Resynced(p) \/ (wire[p].awaited /\ lastAttemptedSync < changeCount)

\* It was handled.
Announced ==
  /\ Behind(0)
  /\ InSync \/ Resynced(0) \/ changeCount \in resyncs \/ Rejected

Settling ==
  isOpen /\ sentOpen => Announced \/ \E p \in 1 .. Len(wire) : Announcing(p)

\* The request of the language service, and the sessions it may be answered from.
Asking ==
  /\ ask.stage = "none" => ask = NoAsk
  /\ ask.session <= session
  /\ \A i \in 1 .. Len(wire) : wire[i].kind = "ASK" =>
       /\ ask.stage = "sent" /\ ask.session = wire[i].session
       /\ \A j \in 1 .. Len(wire) :
            /\ wire[j].kind = "ASK" => j = i
            /\ j > i /\ wire[j].kind \in Data => wire[j].session >= ask.session
  /\ ask.stage \in {"waiting", "reached"} =>
       /\ Holder # 0 => Holder >= ask.session
       /\ \A i \in 1 .. Len(wire) : wire[i].kind \in Data => wire[i].session >= ask.session
  /\ ask.stage # "answered" => ask.answer = Mixed

FilesInv ==
  /\ Typed
  /\ CallsMeant /\ AnswersTold
  /\ Held /\ Retried /\ Unsent
  /\ Separated(wire, Holder, Sender)
  /\ Settling
  /\ Asking /\ AnswersMatch

-----------------------------------------------------------------------------
(* Calls, and what an action does to the calls on their way *)

\* Call m is x, and nobody may await its answer any more.
Like(m, x) ==
  /\ m.kind = x.kind /\ m.session = x.session /\ m.version = x.version /\ m.text = x.text
  /\ m.awaited => x.awaited

\* The calls of r are those of w, then new ones.
Grows(w, r) ==
  /\ Len(w) <= Len(r)
  /\ \A i \in 1 .. Len(w) : Like(r[i], w[i])

LEMMA SeqFacts ==
  ASSUME NEW S, NEW w \in Seq(S)
  PROVE  Len(w) \in Nat /\ \A i \in 1 .. Len(w) : w[i] \in S
  OBVIOUS

LEMMA AppendFacts ==
  ASSUME NEW S, NEW w \in Seq(S), NEW m \in S, NEW r, r = Append(w, m)
  PROVE  /\ r \in Seq(S) /\ Len(r) = Len(w) + 1 /\ Len(w) \in Nat
         /\ r[Len(w) + 1] = m
         /\ \A i \in 1 .. Len(w) : r[i] = w[i]
         /\ \A i \in Len(w) + 1 .. Len(r) : r[i] = m
  OBVIOUS

LEMMA TailFacts ==
  ASSUME NEW S, NEW w \in Seq(S), w # <<>>, NEW r, r = Tail(w)
  PROVE  /\ r \in Seq(S) /\ Len(w) \in Nat /\ Len(w) >= 1 /\ Len(r) = Len(w) - 1
         /\ Head(w) = w[1] /\ w[1] \in S
         /\ \A i \in 1 .. Len(r) : r[i] = w[i + 1] /\ i + 1 \in 2 .. Len(w)
         /\ \A i \in 2 .. Len(w) : w[i] = r[i - 1] /\ i - 1 \in 1 .. Len(r)
  OBVIOUS

\* Nobody awaits the i-th of w any more.
Unawaited(w, i) == [w EXCEPT ![i].awaited = FALSE]

LEMMA MarkCall ==
  ASSUME NEW w \in Seq(CallType), NEW i \in 1 .. Len(w),
         NEW r, r = Unawaited(w, i)
  PROVE  /\ r \in Seq(CallType) /\ Len(r) = Len(w)
         /\ \A j \in 1 .. Len(w) : Like(r[j], w[j]) /\ (j # i => r[j] = w[j])
<1>1. w[i] \in CallType
  BY SeqFacts
<1>2. PICK m \in CallType : m = [w[i] EXCEPT !.awaited = FALSE]
  BY <1>1 DEF CallType
<1>3. Like(m, w[i])
  BY <1>1, <1>2 DEF CallType, Like
<1>4. r = [w EXCEPT ![i] = m]
  BY <1>2 DEF Unawaited
<1>5. /\ r \in Seq(CallType) /\ Len(r) = Len(w)
      /\ \A j \in 1 .. Len(w) : r[j] = IF j = i THEN m ELSE w[j]
  <2> DEFINE x == [w EXCEPT ![i] = m]
  <2>1. /\ x \in Seq(CallType) /\ Len(x) = Len(w)
        /\ \A j \in 1 .. Len(w) : x[j] = IF j = i THEN m ELSE w[j]
    BY ExceptSeq
  <2> HIDE DEF x
  <2>2. r = x
    BY <1>4 DEF x
  <2> QED BY <2>1, <2>2
<1>6. \A j \in 1 .. Len(w) : Like(w[j], w[j])
  BY DEF Like
<1> QED BY <1>3, <1>5, <1>6

LEMMA MarkReply ==
  ASSUME NEW w \in Seq(ReplyType), NEW i \in 1 .. Len(w),
         NEW r, r = Unawaited(w, i)
  PROVE  /\ r \in Seq(ReplyType) /\ Len(r) = Len(w)
         /\ \A j \in 1 .. Len(w) :
              /\ r[j].kind = w[j].kind /\ r[j].session = w[j].session
              /\ r[j].version = w[j].version /\ r[j].ok = w[j].ok
              /\ j # i => r[j] = w[j]
<1>1. w[i] \in ReplyType
  BY SeqFacts
<1>2. PICK m \in ReplyType : m = [w[i] EXCEPT !.awaited = FALSE]
  BY <1>1 DEF ReplyType
<1>3. m.kind = w[i].kind /\ m.session = w[i].session /\ m.version = w[i].version /\ m.ok = w[i].ok
  BY <1>1, <1>2 DEF ReplyType
<1>4. r = [w EXCEPT ![i] = m]
  BY <1>2 DEF Unawaited
<1>5. /\ r \in Seq(ReplyType) /\ Len(r) = Len(w)
      /\ \A j \in 1 .. Len(w) : r[j] = IF j = i THEN m ELSE w[j]
  <2> DEFINE x == [w EXCEPT ![i] = m]
  <2>1. /\ x \in Seq(ReplyType) /\ Len(x) = Len(w)
        /\ \A j \in 1 .. Len(w) : x[j] = IF j = i THEN m ELSE w[j]
    BY ExceptSeq
  <2> HIDE DEF x
  <2>2. r = x
    BY <1>4 DEF x
  <2> QED BY <2>1, <2>2
<1> QED BY <1>3, <1>5

\* The calls an action makes.
LEMMA NewCall ==
  ASSUME Typed, NEW kind \in Kind, NEW version \in Nat, NEW text \in AnyText,
         session \in Session
  PROVE  /\ Event(kind, version, text) \in CallType
         /\ Event(kind, version, text).kind = kind
         /\ Event(kind, version, text).session = session
         /\ Event(kind, version, text).version = version
         /\ Event(kind, version, text).text = text
         /\ Event(kind, version, text).awaited
  BY DEF Event, CallType

LEMMA Texts ==
  ASSUME Typed, isOpen
  PROVE  /\ session \in Session /\ Text \in AnyText /\ Text = <<session, changeCount>>
         /\ \A v \in Version : <<session, v>> \in AnyText
         /\ Mixed \in AnyText
  BY BoundsAssumption DEF Typed, Text, AnyText, Session

LEMMA MixedIsNone ==
  /\ \A s, v : <<s, v>>[1] = s /\ <<s, v>>[2] = v
  /\ Mixed[1] = 0 /\ Mixed[2] = 0 /\ None.version = 0 /\ None.text = Mixed
  /\ None \notin [version : Version, text : AnyText]
<1>1. None.version \notin Version
  BY BoundsAssumption DEF None, Version
<1> QED BY <1>1 DEF Mixed, None

-----------------------------------------------------------------------------
(* The texts of sessions are separated *)

LEMMA SeparatedGrows ==
  ASSUME NEW w \in Seq(CallType), NEW r \in Seq(CallType), Grows(w, r),
         NEW b, NEW n, NEW v, Separated(w, b, n), n = v \/ n = 0,
         \A i \in Len(w) + 1 .. Len(r) : r[i].kind \in Bound => r[i].session = v
  PROVE  Separated(r, b, v)
<1>1. /\ Len(w) \in Nat /\ Len(r) \in Nat /\ Len(w) <= Len(r)
      /\ \A i \in 1 .. Len(w) : r[i].kind = w[i].kind /\ r[i].session = w[i].session
      /\ \A i \in 1 .. Len(w) : w[i].session # 0
  <2>1. Len(w) \in Nat /\ Len(r) \in Nat /\ \A i \in 1 .. Len(w) : w[i] \in CallType
    BY SeqFacts
  <2>2. \A m \in CallType : m.session # 0
    BY BoundsAssumption DEF CallType, Session
  <2> QED BY <2>1, <2>2 DEF Grows, Like
<1>2. \A i, j \in 0 .. Len(w) + 1 : Closes(w, i, j) => Closes(r, i, j)
  BY <1>1 DEF Closes
<1>3. \A i \in 0 .. Len(w), j \in Len(w) + 1 .. Len(r) + 1 :
        Closes(w, i, Len(w) + 1) => Closes(r, i, j)
  BY <1>1 DEF Closes
<1>4. \A i \in 1 .. Len(w) : w[i].kind \in Data /\ w[i].session # v => Closes(w, i, Len(w) + 1)
  BY <1>1 DEF Separated
<1>5. b # 0 /\ b # v => Closes(w, 0, Len(w) + 1)
  BY DEF Separated
<1>6. ASSUME NEW i \in 1 .. Len(r), NEW j \in 1 .. Len(r),
             i < j, r[i].kind \in Data, r[j].kind \in Bound, r[i].session # r[j].session
      PROVE  Closes(r, i, j)
  <2>1. CASE j \in 1 .. Len(w)
    <3>1. i \in 1 .. Len(w) /\ i \in 0 .. Len(w) + 1 /\ j \in 0 .. Len(w) + 1
      BY <1>1, <1>6, <2>1
    <3>2. Closes(w, i, j)
      BY <1>1, <1>6, <2>1, <3>1 DEF Separated
    <3> QED BY <1>2, <3>1, <3>2
  <2>2. CASE j \in Len(w) + 1 .. Len(r)
    <3>1. r[j].session = v /\ j \in Len(w) + 1 .. Len(r) + 1
      BY <1>1, <1>6, <2>2
    <3>2. i \in 1 .. Len(w)
      <4>1. i \in Len(w) + 1 .. Len(r) => r[i].session = v
        BY <1>6 DEF Data, Bound
      <4> QED BY <1>1, <1>6, <3>1, <4>1
    <3>3. Closes(w, i, Len(w) + 1) /\ i \in 0 .. Len(w)
      BY <1>1, <1>4, <1>6, <3>1, <3>2
    <3> QED BY <1>3, <3>1, <3>3
  <2> QED BY <1>1, <2>1, <2>2
<1>7. ASSUME NEW j \in 1 .. Len(r), b # 0, r[j].kind \in Bound, r[j].session # b
      PROVE  Closes(r, 0, j)
  <2>1. CASE j \in 1 .. Len(w)
    <3>1. Closes(w, 0, j)
      BY <1>1, <1>7, <2>1 DEF Separated
    <3>2. 0 \in 0 .. Len(w) + 1 /\ j \in 0 .. Len(w) + 1
      BY <1>1, <2>1
    <3> QED BY <1>2, <3>1, <3>2
  <2>2. CASE j \in Len(w) + 1 .. Len(r)
    <3>1. r[j].session = v /\ j \in Len(w) + 1 .. Len(r) + 1 /\ 0 \in 0 .. Len(w)
      BY <1>1, <1>7, <2>2
    <3> QED BY <1>3, <1>5, <1>7, <3>1
  <2> QED BY <1>1, <2>1, <2>2
<1>8. ASSUME NEW i \in 1 .. Len(r), r[i].kind \in Data, r[i].session # v
      PROVE  Closes(r, i, Len(r) + 1)
  <2>1. i \in 1 .. Len(w)
    BY <1>1, <1>8 DEF Data, Bound
  <2>2. Closes(w, i, Len(w) + 1)
    BY <1>1, <1>4, <1>8, <2>1
  <2>3. i \in 0 .. Len(w) /\ Len(r) + 1 \in Len(w) + 1 .. Len(r) + 1
    BY <1>1, <2>1
  <2> QED BY <1>3, <2>2, <2>3
<1>9. b # 0 /\ b # v => Closes(r, 0, Len(r) + 1)
  <2>1. 0 \in 0 .. Len(w) /\ Len(r) + 1 \in Len(w) + 1 .. Len(r) + 1
    BY <1>1
  <2> QED BY <1>3, <1>5, <2>1
<1> QED BY <1>6, <1>7, <1>8, <1>9 DEF Separated

\* After a CLOSE any session may follow.
LEMMA SeparatedByClose ==
  ASSUME NEW w \in Seq(CallType), NEW m \in CallType, m.kind = "CLOSE",
         NEW r, r = Append(w, m), NEW b, NEW n, Separated(w, b, n), NEW v
  PROVE  Separated(r, b, v)
<1>1. /\ r \in Seq(CallType) /\ Len(r) = Len(w) + 1 /\ Len(w) \in Nat
      /\ r[Len(w) + 1] = m
      /\ \A i \in 1 .. Len(w) : r[i] = w[i]
  BY AppendFacts
<1>2. \A i, j \in 0 .. Len(w) + 1 : Closes(w, i, j) => Closes(r, i, j)
  BY <1>1 DEF Closes
<1>3. \A i \in 0 .. Len(w) : Closes(r, i, Len(r) + 1)
  BY <1>1 DEF Closes
<1>4. m.kind \notin Bound /\ m.kind \notin Data
  BY DEF Bound, Data
<1>5. ASSUME NEW i \in 1 .. Len(r), NEW j \in 1 .. Len(r),
             i < j, r[i].kind \in Data, r[j].kind \in Bound, r[i].session # r[j].session
      PROVE  Closes(r, i, j)
  <2>1. i \in 1 .. Len(w) /\ j \in 1 .. Len(w)
    BY <1>1, <1>4, <1>5
  <2>2. Closes(w, i, j)
    BY <1>1, <1>5, <2>1 DEF Separated
  <2>3. i \in 0 .. Len(w) + 1 /\ j \in 0 .. Len(w) + 1
    BY <1>1, <2>1
  <2> QED BY <1>2, <2>2, <2>3
<1>6. ASSUME NEW j \in 1 .. Len(r), b # 0, r[j].kind \in Bound, r[j].session # b
      PROVE  Closes(r, 0, j)
  <2>1. j \in 1 .. Len(w)
    BY <1>1, <1>4, <1>6
  <2>2. Closes(w, 0, j)
    BY <1>1, <1>6, <2>1 DEF Separated
  <2>3. 0 \in 0 .. Len(w) + 1 /\ j \in 0 .. Len(w) + 1
    BY <1>1, <2>1
  <2> QED BY <1>2, <2>2, <2>3
<1>7. ASSUME NEW i \in 1 .. Len(r), r[i].kind \in Data
      PROVE  Closes(r, i, Len(r) + 1)
  <2>1. i \in 0 .. Len(w)
    BY <1>1, <1>4, <1>7
  <2> QED BY <1>3, <2>1
<1>8. Closes(r, 0, Len(r) + 1)
  BY <1>1, <1>3
<1> QED BY <1>5, <1>6, <1>7, <1>8 DEF Separated

\* The server handles the first call, m, and then has a text of session c, or
\* none.
LEMMA SeparatedTail ==
  ASSUME NEW w \in Seq(CallType), w # <<>>, NEW m \in CallType, m = Head(w),
         NEW r, r = Tail(w), NEW b, NEW n, Separated(w, b, n), NEW c,
         \/ c = 0
         \/ c = b /\ m.kind # "CLOSE"
         \/ c = m.session /\ m.kind \in Data
  PROVE  Separated(r, c, n)
<1>1. /\ r \in Seq(CallType) /\ Len(w) \in Nat /\ Len(w) >= 1 /\ Len(r) = Len(w) - 1
      /\ m = w[1]
      /\ \A i \in 1 .. Len(r) : r[i] = w[i + 1] /\ i + 1 \in 2 .. Len(w)
      /\ \A i \in 2 .. Len(w) : w[i] = r[i - 1] /\ i - 1 \in 1 .. Len(r)
  BY TailFacts
<1>2. ASSUME NEW i \in 0 .. Len(r), NEW j \in 1 .. Len(r) + 1, Closes(w, i + 1, j + 1)
      PROVE  Closes(r, i, j)
  <2>1. PICK k \in i + 2 .. j : w[k].kind = "CLOSE"
    BY <1>1, <1>2 DEF Closes
  <2>2. k \in 2 .. Len(w) /\ k - 1 \in i + 1 .. j - 1
    BY <1>1, <2>1
  <2> QED BY <1>1, <2>1, <2>2 DEF Closes
<1>3. ASSUME NEW j \in 1 .. Len(r) + 1, Closes(w, 0, j + 1), m.kind # "CLOSE"
      PROVE  Closes(r, 0, j)
  <2>1. PICK k \in 1 .. j : w[k].kind = "CLOSE"
    BY <1>1, <1>3 DEF Closes
  <2>2. k \in 2 .. Len(w) /\ k - 1 \in 1 .. j - 1
    BY <1>1, <1>3, <2>1
  <2> QED BY <1>1, <2>1, <2>2 DEF Closes
<1>4. ASSUME NEW i \in 1 .. Len(r), NEW j \in 1 .. Len(r),
             i < j, r[i].kind \in Data, r[j].kind \in Bound, r[i].session # r[j].session
      PROVE  Closes(r, i, j)
  <2>1. Closes(w, i + 1, j + 1)
    BY <1>1, <1>4 DEF Separated
  <2> QED BY <1>1, <1>2, <2>1
<1>5. ASSUME NEW j \in 1 .. Len(r), c # 0, r[j].kind \in Bound, r[j].session # c
      PROVE  Closes(r, 0, j)
  <2>1. w[j + 1].kind \in Bound /\ w[j + 1].session # c /\ j + 1 \in 1 .. Len(w) /\ 1 \in 1 .. Len(w)
    BY <1>1, <1>5
  <2>2. CASE c = b /\ m.kind # "CLOSE"
    <3>1. Closes(w, 0, j + 1)
      BY <1>5, <2>1, <2>2 DEF Separated
    <3> QED BY <1>1, <1>3, <2>2, <3>1
  <2>3. CASE c = m.session /\ m.kind \in Data
    <3>1. Closes(w, 1, j + 1)
      BY <1>1, <2>1, <2>3 DEF Separated
    <3> QED BY <1>1, <1>2, <3>1
  <2> QED BY <1>5, <2>2, <2>3
<1>6. ASSUME NEW i \in 1 .. Len(r), r[i].kind \in Data, r[i].session # n
      PROVE  Closes(r, i, Len(r) + 1)
  <2>1. Closes(w, i + 1, Len(w) + 1)
    BY <1>1, <1>6 DEF Separated
  <2>2. Len(w) + 1 = (Len(r) + 1) + 1 /\ Len(r) + 1 \in 1 .. Len(r) + 1 /\ i \in 0 .. Len(r)
    BY <1>1
  <2> QED BY <1>2, <2>1, <2>2
<1>7. ASSUME c # 0, c # n
      PROVE  Closes(r, 0, Len(r) + 1)
  <2>1. Len(w) + 1 = (Len(r) + 1) + 1 /\ Len(r) + 1 \in 1 .. Len(r) + 1 /\ 1 \in 1 .. Len(w)
    BY <1>1
  <2>2. CASE c = b /\ m.kind # "CLOSE"
    <3>1. Closes(w, 0, Len(w) + 1)
      BY <1>7, <2>2 DEF Separated
    <3> QED BY <1>3, <2>1, <2>2, <3>1
  <2>3. CASE c = m.session /\ m.kind \in Data
    <3>1. Closes(w, 1, Len(w) + 1)
      BY <1>1, <1>7, <2>1, <2>3 DEF Separated
    <3>2. 0 \in 0 .. Len(r) /\ 0 + 1 = 1
      BY <1>1
    <3> QED BY <1>2, <2>1, <3>1, <3>2
  <2> QED BY <1>7, <2>2, <2>3
<1> QED BY <1>4, <1>5, <1>6, <1>7 DEF Separated

\* The first call relies on the text the buffer has.
LEMMA FirstSeparated ==
  ASSUME NEW w \in Seq(CallType), w # <<>>, NEW b, NEW n, Separated(w, b, n),
         Head(w).kind \in Bound, b # 0
  PROVE  Head(w).session = b
<1>1. Len(w) \in Nat /\ Len(w) >= 1 /\ Head(w) = w[1]
  BY TailFacts
<1>2. w[1].session # b => Closes(w, 0, 1)
  BY <1>1 DEF Separated
<1>3. ~Closes(w, 0, 1)
  BY DEF Closes
<1> QED BY <1>1, <1>2, <1>3

-----------------------------------------------------------------------------
(* What the client does *)

\* The sessions and the counts go up.
Progress ==
  \/ /\ session' = session /\ (isOpen' => isOpen) /\ (sentOpen => sentOpen')
     /\ changeCount <= changeCount' /\ lastAttemptedSync <= lastAttemptedSync'
  \/ session' = session + 1 /\ ~isOpen

\* The answers of s are those of r from position k + 1 on.
Reads(r, s, k) ==
  /\ k \in {0, 1} /\ Len(r) = Len(s) + k
  /\ \A j \in 1 .. Len(s) :
       /\ s[j].kind = r[j + k].kind /\ s[j].session = r[j + k].session
       /\ s[j].version = r[j + k].version /\ s[j].ok = r[j + k].ok

\* The new calls.
Calls == Len(wire) + 1 .. Len(wire')

\* A step of the client, which leaves the server alone.
ClientStep(k) ==
  /\ Typed' /\ Progress /\ UNCHANGED serverVars
  /\ Retried'
  /\ Grows(wire, wire') /\ Reads(replies, replies', k)
  /\ \A i \in Calls : Meant(wire[i])'
  /\ isOpen' /\ ~sentOpen' =>
       /\ lastAttemptedSync' = -1
       /\ \A i \in Calls : wire'[i].session = session' => wire'[i].kind = "ASK"

LEMMA Bounds ==
  /\ MaxSession \in Nat /\ MaxVersion \in Nat /\ MaxVersion > 0 /\ MaxTimeouts \in Nat
  /\ Session \subseteq Nat /\ Version \subseteq Nat /\ 0 \notin Session /\ 0 \notin Version
  /\ 1 \in Version
<1>1. MaxSession \in Nat /\ MaxVersion \in Nat /\ MaxVersion > 0 /\ MaxTimeouts \in Nat
  BY BoundsAssumption
<1> QED BY <1>1 DEF Session, Version

LEMMA MeantStays ==
  ASSUME Typed, Typed', Progress, NEW m \in CallType, NEW x \in CallType, Like(x, m), Meant(m)
  PROVE  Meant(x)'
<1>1. m.session \in Nat /\ session \in Nat /\ session' \in Nat
      /\ changeCount \in Nat /\ changeCount' \in Nat /\ lastAttemptedSync \in Int
      /\ lastAttemptedSync' \in Int /\ m.version \in Nat
  <2>1. m.session \in Nat /\ m.version \in Nat
    BY Bounds DEF CallType
  <2>2. session \in Nat /\ session' \in Nat
    BY Bounds DEF Typed
  <2>3. changeCount \in Nat /\ changeCount' \in Nat
    BY Bounds DEF Typed
  <2>4. lastAttemptedSync \in Int /\ lastAttemptedSync' \in Int
    BY Bounds DEF Typed
  <2> QED BY <2>1, <2>2, <2>3, <2>4
<1>2. CASE session' = session /\ (isOpen' => isOpen) /\ changeCount <= changeCount'
             /\ lastAttemptedSync <= lastAttemptedSync'
  <2>1. m.kind # "CLOSE" /\ m.session = session => m.version <= changeCount'
    BY <1>1, <1>2 DEF Meant
  <2>2. m.kind = "SYNC" /\ m.session = session => m.version <= lastAttemptedSync'
    BY <1>1, <1>2 DEF Meant
  <2> QED BY <1>2, <2>1, <2>2 DEF Meant, Like
<1>3. CASE session' = session + 1 /\ ~isOpen
  <2>1. m.session < session' /\ m.session <= session' /\ m.session # session'
    BY <1>1, <1>3 DEF Meant
  <2> QED BY <2>1 DEF Meant, Like
<1> QED BY <1>2, <1>3 DEF Progress

LEMMA ToldStays ==
  ASSUME Typed, Typed', Progress, NEW m \in ReplyType, NEW x \in ReplyType,
         x.kind = m.kind, x.session = m.session, x.version = m.version, x.ok = m.ok,
         Told(m)
  PROVE  Told(x)'
<1>1. m.session \in Nat /\ session \in Nat /\ session' \in Nat
      /\ changeCount \in Nat /\ changeCount' \in Nat /\ lastAttemptedSync \in Int
      /\ lastAttemptedSync' \in Int /\ m.version \in Nat
  <2>1. m.session \in Nat /\ m.version \in Nat
    BY Bounds DEF ReplyType
  <2>2. session \in Nat /\ session' \in Nat
    BY Bounds DEF Typed
  <2>3. changeCount \in Nat /\ changeCount' \in Nat
    BY Bounds DEF Typed
  <2>4. lastAttemptedSync \in Int /\ lastAttemptedSync' \in Int
    BY Bounds DEF Typed
  <2> QED BY <2>1, <2>2, <2>3, <2>4
<1>2. CASE session' = session /\ (isOpen' => isOpen) /\ changeCount <= changeCount'
             /\ lastAttemptedSync <= lastAttemptedSync'
  <2>1. m.kind # "CLOSE" /\ m.session = session => m.version <= changeCount'
    BY <1>1, <1>2 DEF Told
  <2>2. m.kind = "SYNC" /\ m.session = session => m.version <= lastAttemptedSync'
    BY <1>1, <1>2 DEF Told
  <2> QED BY <1>2, <2>1, <2>2 DEF Told
<1>3. CASE session' = session + 1 /\ ~isOpen
  <2>1. m.session < session' /\ m.session <= session' /\ m.session # session'
    BY <1>1, <1>3 DEF Told
  <2> QED BY <2>1 DEF Told
<1> QED BY <1>2, <1>3 DEF Progress

\* Calls, answers and the buffer keep their meaning.
LEMMA ClientKeeps ==
  ASSUME FilesInv, NEW k, ClientStep(k)
  PROVE  CallsMeant' /\ AnswersTold' /\ Held' /\ Unsent'
<1>1. Typed /\ Typed' /\ Progress /\ buffer' = buffer /\ CallsMeant /\ AnswersTold /\ Held
  BY DEF FilesInv, ClientStep, serverVars
<1>2. /\ Len(wire) \in Nat /\ Len(wire') \in Nat /\ Len(wire) <= Len(wire')
      /\ \A i \in 1 .. Len(wire) : wire[i] \in CallType /\ Like(wire'[i], wire[i])
      /\ \A i \in 1 .. Len(wire') : wire'[i] \in CallType
  <2>1. wire \in Seq(CallType) /\ wire' \in Seq(CallType)
    BY <1>1 DEF Typed
  <2> QED BY <2>1, SeqFacts DEF ClientStep, Grows
<1>3. /\ k \in {0, 1} /\ Len(replies) = Len(replies') + k /\ Len(replies') \in Nat
      /\ \A j \in 1 .. Len(replies') :
           /\ replies'[j] \in ReplyType /\ replies[j + k] \in ReplyType
           /\ j + k \in 1 .. Len(replies)
           /\ replies'[j].kind = replies[j + k].kind
           /\ replies'[j].session = replies[j + k].session
           /\ replies'[j].version = replies[j + k].version
           /\ replies'[j].ok = replies[j + k].ok
  <2>1. replies \in Seq(ReplyType) /\ replies' \in Seq(ReplyType)
    BY <1>1 DEF Typed
  <2>2. k \in {0, 1} /\ Len(replies) = Len(replies') + k /\ Len(replies') \in Nat
    BY <2>1, SeqFacts DEF ClientStep, Reads
  <2>3. \A j \in 1 .. Len(replies') : j + k \in 1 .. Len(replies)
    BY <2>2
  <2> QED BY <2>1, <2>2, <2>3, SeqFacts DEF ClientStep, Reads
<1>4. CallsMeant'
  <2> SUFFICES ASSUME NEW i \in 1 .. Len(wire')
               PROVE  Meant(wire[i])'
    BY DEF CallsMeant
  <2>1. CASE i \in Calls
    BY <2>1 DEF ClientStep
  <2>2. CASE i \in 1 .. Len(wire)
    <3>1. PICK m \in CallType, x \in CallType : m = wire[i] /\ x = wire'[i]
      BY <1>2, <2>2
    <3>2. Like(x, m) /\ Meant(m)
      BY <1>1, <1>2, <2>2, <3>1 DEF CallsMeant
    <3>3. Meant(x)'
      BY <1>1, <3>2, MeantStays
    <3> QED BY <3>1, <3>3
  <2> QED BY <1>2, <2>1, <2>2 DEF Calls
<1>5. AnswersTold'
  <2> SUFFICES ASSUME NEW i \in 1 .. Len(replies')
               PROVE  Told(replies[i])'
    BY DEF AnswersTold
  <2>1. PICK m \in ReplyType, x \in ReplyType : m = replies[i + k] /\ x = replies'[i]
    BY <1>3
  <2>2. x.kind = m.kind /\ x.session = m.session /\ x.version = m.version /\ x.ok = m.ok
    BY <1>3, <2>1
  <2>3. Told(m)
    BY <1>1, <1>3, <2>1 DEF AnswersTold
  <2>4. Told(x)'
    BY <1>1, <2>2, <2>3, ToldStays
  <2> QED BY <2>1, <2>4
<1>6. session \in Nat /\ session' \in Nat /\ changeCount \in Nat /\ changeCount' \in Nat
      /\ session <= session'
  BY <1>1, BoundsAssumption DEF Typed, Version, Progress
<1>7. ASSUME buffer # None
      PROVE  /\ buffer.text = <<buffer.text[1], buffer.version>>
             /\ buffer.text[1] \in 1 .. session /\ buffer.version \in Nat
             /\ buffer.text[1] = session => buffer.version <= changeCount
  <2>1. buffer.version \in Nat
    BY <1>1, <1>7 DEF Typed, Version
  <2> QED BY <1>1, <1>7, <2>1 DEF Held
<1>8. Held'
  <2> SUFFICES ASSUME buffer # None
               PROVE  /\ buffer.text = <<buffer.text[1], buffer.version>>
                      /\ buffer.text[1] \in 1 .. session'
                      /\ buffer.text[1] = session' => buffer.version <= changeCount'
    BY <1>1 DEF Held
  <2>1. buffer.text[1] \in 1 .. session' /\ buffer.text[1] \in Nat
    BY <1>6, <1>7
  <2>2. buffer.text[1] = session' => buffer.version <= changeCount'
    BY <1>1, <1>6, <1>7, <2>1 DEF Progress
  <2> QED BY <1>7, <2>1, <2>2
<1>9. Unsent'
  <2> SUFFICES ASSUME isOpen', ~sentOpen'
               PROVE  /\ lastAttemptedSync' = -1
                      /\ \A i \in 1 .. Len(wire') :
                           wire'[i].session = session' => wire'[i].kind = "ASK"
                      /\ \A i \in 1 .. Len(replies') : replies'[i].session # session'
                      /\ Holder' # session'
    BY DEF Unsent
  <2>1. /\ lastAttemptedSync' = -1
        /\ \A i \in Calls : wire'[i].session = session' => wire'[i].kind = "ASK"
    BY DEF ClientStep
  <2>2. Holder' = Holder /\ (buffer # None => Holder = buffer.text[1]) /\ (buffer = None => Holder = 0)
    BY <1>1 DEF Holder
  <2>3. CASE session' = session + 1
    <3>1. \A i \in 1 .. Len(wire) : wire[i].session # session'
      <4>1. \A i \in 1 .. Len(wire) : wire[i].session \in Nat /\ wire[i].session <= session
        BY <1>1, <1>2, BoundsAssumption DEF CallsMeant, Meant, CallType, Session
      <4> QED BY <1>6, <2>3, <4>1
    <3>2. \A i \in 1 .. Len(replies') : replies'[i].session # session'
      <4>1. \A i \in 1 .. Len(replies') : replies[i + k].session \in Nat /\ replies[i + k].session <= session
        BY <1>1, <1>3, BoundsAssumption DEF AnswersTold, Told, ReplyType, Session
      <4> QED BY <1>3, <1>6, <2>3, <4>1
    <3>3. Holder # session'
      BY <1>6, <1>7, <2>2, <2>3
    <3>4. \A i \in 1 .. Len(wire) : wire'[i].session # session'
      BY <1>2, <3>1 DEF Like
    <3> QED BY <1>2, <2>1, <2>2, <3>2, <3>3, <3>4 DEF Calls
  <2>4. CASE session' = session /\ isOpen /\ ~sentOpen
    <3>1. /\ \A i \in 1 .. Len(wire) : wire[i].session = session => wire[i].kind = "ASK"
          /\ \A i \in 1 .. Len(replies) : replies[i].session # session
          /\ Holder # session
      BY <2>4 DEF FilesInv, Unsent
    <3>2. \A i \in 1 .. Len(wire) : wire'[i].session = session' => wire'[i].kind = "ASK"
      BY <1>2, <2>4, <3>1 DEF Like
    <3>3. \A i \in 1 .. Len(replies') : replies'[i].session # session'
      BY <1>3, <2>4, <3>1
    <3> QED BY <1>2, <2>1, <2>2, <2>4, <3>1, <3>2, <3>3 DEF Calls
  <2> QED BY <1>1, <2>3, <2>4 DEF Progress
<1> QED BY <1>4, <1>5, <1>8, <1>9

\* The request keeps its sessions apart from earlier ones.
LEMMA ClientKeepsAsking ==
  ASSUME FilesInv, NEW k, ClientStep(k), UNCHANGED ask,
         \A i \in Calls : /\ wire'[i].kind # "ASK"
                          /\ wire'[i].kind \in Data => wire'[i].session = session'
  PROVE  Asking' /\ AnswersMatch'
<1>1. /\ Typed /\ Typed' /\ Progress /\ Asking /\ AnswersMatch /\ ask' = ask
      /\ Holder' = Holder /\ session \in Nat /\ session' \in Nat /\ ask.session \in Nat
  BY Bounds DEF FilesInv, ClientStep, serverVars, Holder, Typed, AskType
<1>2. /\ Len(wire) \in Nat /\ Len(wire') \in Nat /\ Len(wire) <= Len(wire')
      /\ \A i \in 1 .. Len(wire) : wire'[i].kind = wire[i].kind /\ wire'[i].session = wire[i].session
  <2>1. wire \in Seq(CallType) /\ wire' \in Seq(CallType)
    BY <1>1 DEF Typed
  <2> QED BY <2>1, SeqFacts DEF ClientStep, Grows, Like
<1>3. session <= session' /\ ask.session <= session /\ ask.session <= session'
  BY <1>1 DEF Progress, Asking
<1>4. \A i \in Calls : wire'[i].kind # "ASK" /\ (wire'[i].kind \in Data => wire'[i].session >= ask.session)
  BY <1>1, <1>3
<1>5. \A i \in 1 .. Len(wire') : i \in 1 .. Len(wire) \/ i \in Calls
  BY <1>2 DEF Calls
<1>6. ASSUME NEW i \in 1 .. Len(wire'), wire'[i].kind = "ASK"
      PROVE  /\ ask.stage = "sent" /\ ask.session = wire'[i].session
             /\ \A j \in 1 .. Len(wire') :
                  /\ wire'[j].kind = "ASK" => j = i
                  /\ j > i /\ wire'[j].kind \in Data => wire'[j].session >= ask.session
  <2>1. i \in 1 .. Len(wire) /\ wire[i].kind = "ASK" /\ wire[i].session = wire'[i].session
    BY <1>2, <1>4, <1>5, <1>6
  <2>2. /\ ask.stage = "sent" /\ ask.session = wire[i].session
        /\ \A j \in 1 .. Len(wire) :
             /\ wire[j].kind = "ASK" => j = i
             /\ j > i /\ wire[j].kind \in Data => wire[j].session >= ask.session
    BY <1>1, <2>1 DEF Asking
  <2> QED BY <1>2, <1>4, <1>5, <2>1, <2>2
<1>7. ASSUME ask.stage \in {"waiting", "reached"}, NEW i \in 1 .. Len(wire'), wire'[i].kind \in Data
      PROVE  wire'[i].session >= ask.session
  BY <1>1, <1>2, <1>4, <1>5, <1>7 DEF Asking
<1>8. ask.stage \in {"waiting", "reached"} => (Holder # 0 => Holder >= ask.session)
  BY <1>1 DEF Asking
<1>9. (ask.stage = "none" => ask = NoAsk) /\ (ask.stage # "answered" => ask.answer = Mixed)
  BY <1>1 DEF Asking
<1>10. Asking'
  BY <1>1, <1>3, <1>6, <1>7, <1>8, <1>9 DEF Asking
<1> QED BY <1>1, <1>10 DEF AnswersMatch

\* Most steps of the client leave the subscription as it is.
SameSubscription == UNCHANGED <<session, isOpen, changeCount, sentOpen>>

\* What is older, or follows, or announces, still does.
LEMMA SameMeaning ==
  ASSUME SameSubscription, NEW m, NEW x,
         x.kind = m.kind, x.session = m.session, x.version = m.version
  PROVE  /\ Older(m) => Older(x)'
         /\ Follows(m) => Follows(x)'
         /\ Announces(m) => Announces(x)'
  BY DEF SameSubscription, Older, Follows, Announces

\* New calls that follow, after an announcement, keep it settling.
LEMMA GrowsBehind ==
  ASSUME SameSubscription, wire \in Seq(CallType), wire' \in Seq(CallType),
         Grows(wire, wire'), \A i \in Calls : Follows(wire[i])',
         NEW p \in 0 .. Len(wire), Behind(p)
  PROVE  Behind(p)' /\ (Resynced(p) => Resynced(p)')
<1>1. /\ Len(wire) \in Nat /\ Len(wire') \in Nat /\ Len(wire) <= Len(wire')
      /\ \A i \in 1 .. Len(wire) : Like(wire'[i], wire[i])
  BY SeqFacts DEF Grows
<1>2. ASSUME NEW j \in p + 1 .. Len(wire')
      PROVE  Follows(wire[j])'
  <2>1. CASE j \in p + 1 .. Len(wire)
    <3>1. Follows(wire[j]) /\ Like(wire'[j], wire[j])
      BY <1>1, <2>1 DEF Behind
    <3>2. PICK m, x : m = wire[j] /\ x = wire'[j]
      OBVIOUS
    <3>3. Follows(m) /\ x.kind = m.kind /\ x.session = m.session /\ x.version = m.version
      BY <3>1, <3>2 DEF Like
    <3>4. Follows(x)'
      BY <3>3, SameMeaning
    <3> QED BY <3>2, <3>4
  <2>2. CASE j \in Calls
    BY <2>2 DEF Follows
  <2> QED BY <1>1, <1>2, <2>1, <2>2 DEF Calls
<1>3. Behind(p)'
  BY <1>2 DEF Behind
<1>4. ASSUME Resynced(p)
      PROVE  Resynced(p)'
  <2>1. PICK j \in p + 1 .. Len(wire) : wire[j].kind = "SYNC"
    BY <1>4 DEF Resynced
  <2>2. j \in p + 1 .. Len(wire') /\ wire'[j].kind = "SYNC"
    BY <1>1, <2>1 DEF Like
  <2> QED BY <2>2 DEF Resynced
<1> QED BY <1>3, <1>4

\* Answers that the client reads, or that nobody awaits any more, stay older.
LEMMA OlderAnswers ==
  ASSUME SameSubscription, replies \in Seq(ReplyType), replies' \in Seq(ReplyType),
         NEW k, Reads(replies, replies', k), NEW q \in 1 .. Len(replies) + 1,
         \A j \in 1 .. q - 1 : Older(replies[j])
  PROVE  \A j \in 1 .. (q - k) - 1 : Older(replies[j])'
<1> SUFFICES ASSUME NEW j \in 1 .. (q - k) - 1
             PROVE  Older(replies[j])'
  OBVIOUS
<1>1. k \in {0, 1} /\ Len(replies) \in Nat /\ Len(replies') \in Nat /\ Len(replies) = Len(replies') + k
  BY SeqFacts DEF Reads
<1>2. j + k \in 1 .. q - 1 /\ j \in 1 .. Len(replies')
  BY <1>1
<1>3. PICK m, x : m = replies[j + k] /\ x = replies'[j]
  OBVIOUS
<1>4. Older(m) /\ x.kind = m.kind /\ x.session = m.session /\ x.version = m.version
  BY <1>2, <1>3 DEF Reads
<1>5. Older(x)'
  BY <1>4, SameMeaning
<1> QED BY <1>3, <1>5

\* Calls marked as no longer awaited stay older, and announce what they did.
LEMMA OlderCalls ==
  ASSUME SameSubscription, wire \in Seq(CallType), wire' \in Seq(CallType),
         Grows(wire, wire'), NEW p \in 1 .. Len(wire), Announces(wire[p]),
         \A j \in 1 .. p - 1 : Older(wire[j])
  PROVE  /\ p \in 1 .. Len(wire') /\ Announces(wire[p])'
         /\ \A j \in 1 .. p - 1 : Older(wire[j])'
<1>1. /\ Len(wire) \in Nat /\ Len(wire') \in Nat /\ Len(wire) <= Len(wire')
      /\ \A i \in 1 .. Len(wire) : Like(wire'[i], wire[i])
  BY SeqFacts DEF Grows
<1>2. Announces(wire[p])'
  <2>1. PICK m, x : m = wire[p] /\ x = wire'[p]
    OBVIOUS
  <2>2. Announces(m) /\ x.kind = m.kind /\ x.session = m.session /\ x.version = m.version
    BY <1>1, <2>1 DEF Like
  <2>3. Announces(x)'
    BY <2>2, SameMeaning
  <2> QED BY <2>1, <2>3
<1>3. ASSUME NEW j \in 1 .. p - 1
      PROVE  Older(wire[j])'
  <2>1. PICK m, x : m = wire[j] /\ x = wire'[j]
    OBVIOUS
  <2>2. Older(m) /\ x.kind = m.kind /\ x.session = m.session /\ x.version = m.version
    BY <1>1, <2>1 DEF Like
  <2>3. Older(x)'
    BY <2>2, SameMeaning
  <2> QED BY <2>1, <2>3
<1> QED BY <1>1, <1>2, <1>3

\* A new SYNC settles the version.
LEMMA ResyncSettles ==
  ASSUME FilesInv, NEW k, ClientStep(k), SameSubscription,
         \A i \in Calls : Follows(wire[i])',
         \E i \in Calls : wire'[i].kind = "SYNC"
  PROVE  Settling'
<1> SUFFICES ASSUME isOpen', sentOpen'
             PROVE  Announced' \/ \E p \in 1 .. Len(wire') : Announcing(p)'
  BY DEF Settling
<1>1. /\ wire \in Seq(CallType) /\ wire' \in Seq(CallType) /\ replies \in Seq(ReplyType)
      /\ replies' \in Seq(ReplyType) /\ Grows(wire, wire') /\ Reads(replies, replies', k)
      /\ isOpen /\ sentOpen
  BY DEF FilesInv, ClientStep, Typed, SameSubscription
<1>2. Len(wire) \in Nat /\ Len(wire') \in Nat /\ Len(replies) \in Nat
  BY <1>1, SeqFacts
<1>3. \A p \in 0 .. Len(wire) : Resynced(p)'
  BY <1>2 DEF Resynced, Calls
<1>4. CASE Announced
  <2>1. 0 \in 0 .. Len(wire) /\ Behind(0)
    BY <1>2, <1>4 DEF Announced
  <2>2. Behind(0)' /\ Resynced(0)'
    BY <1>1, <1>3, <2>1, GrowsBehind
  <2> QED BY <2>2 DEF Announced
<1>5. ASSUME NEW p \in 1 .. Len(wire), Announcing(p)
      PROVE  p \in 1 .. Len(wire') /\ Announcing(p)'
  <2>1. p \in 0 .. Len(wire) /\ Behind(p) /\ Announces(wire[p])
        /\ \A j \in 1 .. p - 1 : Older(wire[j])
    BY <1>2, <1>5 DEF Announcing
  <2>2. Behind(p)' /\ Resynced(p)'
    BY <1>1, <1>3, <2>1, GrowsBehind
  <2>3. /\ p \in 1 .. Len(wire') /\ Announces(wire[p])'
        /\ \A j \in 1 .. p - 1 : Older(wire[j])'
    BY <1>1, <2>1, OlderCalls
  <2>4. \A j \in 1 .. Len(replies') : Older(replies[j])'
    <3> DEFINE q == Len(replies) + 1
    <3>1. q \in 1 .. Len(replies) + 1 /\ \A j \in 1 .. q - 1 : Older(replies[j])
      BY <1>2, <1>5 DEF Announcing
    <3>2. (q - k) - 1 = Len(replies')
      BY <1>1, <1>2, SeqFacts DEF Reads
    <3> HIDE DEF q
    <3>3. \A j \in 1 .. (q - k) - 1 : Older(replies[j])'
      BY <1>1, <3>1, OlderAnswers
    <3> QED BY <3>2, <3>3
  <2> QED BY <2>2, <2>3, <2>4 DEF Announcing
<1> QED BY <1>1, <1>4, <1>5 DEF FilesInv, Settling

\* The client has not yet resynchronised.
Behindhand == isOpen /\ lastAttemptedSync < changeCount

\* The answer to the announcement is awaited as before, unless it was read.
StillAwaited(k) ==
  /\ \A i \in 1 .. Len(wire) :
       Behindhand /\ Announces(wire[i]) /\ wire[i].awaited => wire'[i].awaited
  /\ \A j \in 1 .. Len(replies') :
       Behindhand /\ replies[j + k].kind \in {"OPEN", "EDIT"}
         /\ replies[j + k].session = session /\ replies[j + k].awaited
         => replies'[j].awaited

\* The client stays behindhand, unless it reads the announcement's success; it
\* does not read of its failure.
StillBehindhand(k) ==
  /\ Behindhand => Behindhand' \/ (k = 1 /\ ~Older(replies[1]))
  /\ k = 1 /\ Behindhand =>
       ~(replies[1].kind \in {"OPEN", "EDIT"} /\ replies[1].session = session
           /\ ~replies[1].ok /\ replies[1].awaited)

\* A step of the client that neither loses the answer to the announcement nor
\* attempts to resynchronise.
LEMMA QuietSettles ==
  ASSUME FilesInv, NEW k, ClientStep(k), SameSubscription,
         \A i \in Calls : Follows(wire[i])',
         changeCount \in resyncs => changeCount \in resyncs',
         StillAwaited(k), StillBehindhand(k)
  PROVE  Settling'
<1> SUFFICES ASSUME isOpen', sentOpen'
             PROVE  Announced' \/ \E p \in 1 .. Len(wire') : Announcing(p)'
  BY DEF Settling
<1>1. /\ wire \in Seq(CallType) /\ wire' \in Seq(CallType) /\ replies \in Seq(ReplyType)
      /\ replies' \in Seq(ReplyType) /\ Grows(wire, wire') /\ Reads(replies, replies', k)
      /\ isOpen /\ sentOpen /\ buffer' = buffer /\ lost' = lost
      /\ changeCount' = changeCount /\ session' = session
  BY DEF FilesInv, ClientStep, Typed, SameSubscription, serverVars
<1>2. /\ Len(wire) \in Nat /\ Len(wire') \in Nat /\ Len(replies) \in Nat /\ Len(replies') \in Nat
      /\ k \in {0, 1} /\ Len(replies) = Len(replies') + k
  BY <1>1, SeqFacts DEF Reads
<1>3. CASE Announced
  <2>1. 0 \in 0 .. Len(wire) /\ Behind(0)
    BY <1>2, <1>3 DEF Announced
  <2>2. Behind(0)' /\ (Resynced(0) => Resynced(0)')
    BY <1>1, <2>1, GrowsBehind
  <2>3. InSync => InSync'
    BY <1>1 DEF InSync, Text
  <2>4. ASSUME Rejected
        PROVE  Rejected'
    <3>1. PICK q \in 1 .. Len(replies) :
            /\ replies[q].kind \in {"OPEN", "EDIT"} /\ replies[q].session = session
            /\ ~replies[q].ok /\ replies[q].awaited
            /\ lastAttemptedSync < changeCount
            /\ \A j \in 1 .. q - 1 : Older(replies[j])
      BY <2>4 DEF Rejected
    <3>2. ~(k = 1 /\ q = 1)
      BY <1>1, <3>1 DEF Behindhand, StillBehindhand
    <3>3. q - k \in 1 .. Len(replies') /\ (q - k) + k = q
      BY <1>2, <3>2
    <3>4. Behindhand'
      <4>1. k = 1 => 1 \in 1 .. q - 1
        BY <1>2, <3>2
      <4> QED BY <1>1, <3>1, <4>1 DEF Behindhand, StillBehindhand
    <3>5. \A j \in 1 .. (q - k) - 1 : Older(replies[j])'
      <4>1. q \in 1 .. Len(replies) + 1
        BY <1>2
      <4> QED BY <1>1, <3>1, <4>1, OlderAnswers
    <3>6. /\ replies'[q - k].kind \in {"OPEN", "EDIT"} /\ replies'[q - k].session = session'
          /\ ~replies'[q - k].ok
      BY <1>1, <3>1, <3>3 DEF Reads
    <3>7. replies'[q - k].awaited
      BY <1>1, <3>1, <3>3 DEF Behindhand, StillAwaited
    <3> QED BY <3>3, <3>4, <3>5, <3>6, <3>7 DEF Rejected, Behindhand
  <2> QED BY <1>1, <1>3, <2>2, <2>3, <2>4 DEF Announced
<1>4. ASSUME NEW p \in 1 .. Len(wire), Announcing(p)
      PROVE  p \in 1 .. Len(wire') /\ Announcing(p)'
  <2>1. p \in 0 .. Len(wire) /\ Behind(p) /\ Announces(wire[p])
        /\ \A j \in 1 .. p - 1 : Older(wire[j])
    BY <1>2, <1>4 DEF Announcing
  <2>2. Behind(p)' /\ (Resynced(p) => Resynced(p)')
    BY <1>1, <2>1, GrowsBehind
  <2>3. /\ p \in 1 .. Len(wire') /\ Announces(wire[p])'
        /\ \A j \in 1 .. p - 1 : Older(wire[j])'
    BY <1>1, <2>1, OlderCalls
  <2>4. \A j \in 1 .. Len(replies') : Older(replies[j])'
    <3> DEFINE q == Len(replies) + 1
    <3>1. q \in 1 .. Len(replies) + 1 /\ \A j \in 1 .. q - 1 : Older(replies[j])
      BY <1>2, <1>4 DEF Announcing
    <3>2. (q - k) - 1 = Len(replies')
      BY <1>2
    <3> HIDE DEF q
    <3>3. \A j \in 1 .. (q - k) - 1 : Older(replies[j])'
      BY <1>1, <3>1, OlderAnswers
    <3> QED BY <3>2, <3>3
  <2>5. ASSUME wire[p].awaited, lastAttemptedSync < changeCount
        PROVE  wire'[p].awaited /\ lastAttemptedSync' < changeCount'
    <3>1. k = 1 => 1 \in 1 .. Len(replies)
      BY <1>2
    <3>2. k = 1 => Older(replies[1])
      BY <1>4, <3>1 DEF Announcing
    <3>3. wire'[p].awaited
      BY <1>1, <1>4, <2>1, <2>5 DEF StillAwaited, Behindhand
    <3> QED BY <1>1, <2>5, <3>2, <3>3 DEF Behindhand, StillBehindhand
  <2>6. Resynced(p)' \/ (wire'[p].awaited /\ lastAttemptedSync' < changeCount')
    BY <1>4, <2>2, <2>5 DEF Announcing
  <2> QED BY <2>2, <2>3, <2>4, <2>6 DEF Announcing
<1> QED BY <1>1, <1>3, <1>4 DEF FilesInv, Settling

\* A new version is announced by the last call.
LEMMA AnnouncementSettles ==
  ASSUME FilesInv, Typed', NEW p, p = Len(wire'), p > 0,
         Announces(wire[p])', wire'[p].awaited, Behindhand',
         \A j \in 1 .. p - 1 : Older(wire[j])',
         \A j \in 1 .. Len(replies') : Older(replies[j])'
  PROVE  Settling'
<1>1. wire' \in Seq(CallType)
  BY DEF Typed
<1>2. p \in Nat /\ p \in 1 .. Len(wire')
  BY <1>1, SeqFacts
<1>3. Behind(p)'
  BY <1>2 DEF Behind
<1>4. Announcing(p)'
  BY <1>3 DEF Announcing, Behindhand
<1> QED BY <1>2, <1>4 DEF Settling

\* The client keeps the texts of sessions apart.
LEMMA ClientSeparates ==
  ASSUME FilesInv, NEW k, ClientStep(k), Sender = Sender' \/ Sender = 0,
         \A i \in Calls : wire'[i].kind \in Bound => wire'[i].session = Sender'
  PROVE  Separated(wire, Holder, Sender)'
<1>1. /\ wire \in Seq(CallType) /\ wire' \in Seq(CallType) /\ Grows(wire, wire')
      /\ Separated(wire, Holder, Sender) /\ Holder' = Holder
  BY DEF FilesInv, ClientStep, Typed, serverVars, Holder
<1>2. Separated(wire', Holder, Sender')
  BY <1>1, SeparatedGrows DEF Calls
<1> QED BY <1>1, <1>2

LEMMA WireByCall ==
  ASSUME wire \in Seq(CallType), NEW m \in CallType, wire' = Append(wire, m)
  PROVE  /\ wire' \in Seq(CallType) /\ Grows(wire, wire') /\ Len(wire) \in Nat
         /\ Len(wire') = Len(wire) + 1 /\ wire'[Len(wire')] = m
         /\ \A i \in Calls : wire'[i] = m
<1>1. PICK w, r : w \in Seq(CallType) /\ w = wire /\ r = wire'
  OBVIOUS
<1>2. r = Append(w, m)
  BY <1>1
<1>3. /\ r \in Seq(CallType) /\ Len(r) = Len(w) + 1 /\ Len(w) \in Nat
      /\ r[Len(w) + 1] = m
      /\ \A i \in 1 .. Len(w) : r[i] = w[i]
      /\ \A i \in Len(w) + 1 .. Len(r) : r[i] = m
  BY <1>1, <1>2, AppendFacts
<1>4. Grows(w, r)
  BY <1>3 DEF Grows, Like
<1> QED BY <1>1, <1>3, <1>4 DEF Calls

LEMMA GrowsNot ==
  ASSUME NEW w \in Seq(CallType), NEW r, r = w
  PROVE  r \in Seq(CallType) /\ Grows(w, r) /\ Len(w) + 1 .. Len(r) = {}
<1>1. Len(w) \in Nat
  BY SeqFacts
<1> QED BY <1>1 DEF Grows, Like

LEMMA SameAnswers ==
  ASSUME Typed, UNCHANGED replies
  PROVE  Reads(replies, replies', 0) /\ replies' \in Seq(ReplyType)
<1>1. replies \in Seq(ReplyType) /\ Len(replies) \in Nat
  BY SeqFacts DEF Typed
<1>2. \A j \in 1 .. Len(replies) : j + 0 = j
  BY <1>1
<1> QED BY <1>1, <1>2 DEF Reads

\* A new version, or one that was not announced, is newer than any sent or
\* answered before.
LEMMA NewVersionOlder ==
  ASSUME FilesInv, Typed', Grows(wire, wire'), UNCHANGED replies,
         \/ session' = session + 1
         \/ session' = session /\ changeCount < changeCount'
         \/ isOpen /\ ~sentOpen /\ session' = session
  PROVE  /\ \A j \in 1 .. Len(wire) : Older(wire[j])'
         /\ \A j \in 1 .. Len(replies') : Older(replies[j])'
<1>1. session \in Nat /\ changeCount \in Nat /\ changeCount' \in Nat
  BY Bounds DEF FilesInv, Typed
<1>2. /\ \A j \in 1 .. Len(wire) : wire[j] \in CallType /\ Meant(wire[j])
      /\ \A j \in 1 .. Len(replies) : replies[j] \in ReplyType /\ Told(replies[j])
  BY SeqFacts DEF FilesInv, Typed, CallsMeant, AnswersTold
<1>3. ASSUME NEW j \in 1 .. Len(wire)
      PROVE  Older(wire[j])'
  <2>1. PICK m \in CallType : m = wire[j]
    BY <1>2
  <2>2. m.session \in Nat /\ m.version \in Nat /\ Meant(m)
    BY <1>2, <2>1, Bounds DEF CallType
  <2>3. session' = session + 1 => m.session # session'
    BY <1>1, <2>2 DEF Meant
  <2>4. session' = session /\ changeCount < changeCount'
          => (m.kind # "CLOSE" /\ m.session = session' => m.version < changeCount')
    BY <1>1, <2>2 DEF Meant
  <2>5. isOpen /\ ~sentOpen /\ session' = session /\ m.session = session' => m.kind = "ASK"
    BY <2>1 DEF FilesInv, Unsent
  <2>6. wire'[j].kind = m.kind /\ wire'[j].session = m.session /\ wire'[j].version = m.version
    BY <1>3, <2>1 DEF Grows, Like
  <2> QED BY <2>3, <2>4, <2>5, <2>6 DEF Older
<1>4. ASSUME NEW j \in 1 .. Len(replies)
      PROVE  Older(replies[j])'
  <2>1. PICK m \in ReplyType : m = replies[j]
    BY <1>2
  <2>2. m.session \in Nat /\ m.version \in Nat /\ Told(m)
    BY <1>2, <2>1, Bounds DEF ReplyType
  <2>3. session' = session + 1 => m.session # session'
    BY <1>1, <2>2 DEF Told
  <2>4. session' = session /\ changeCount < changeCount'
          => (m.kind # "CLOSE" /\ m.session = session' => m.version < changeCount')
    BY <1>1, <2>2 DEF Told
  <2>5. isOpen /\ ~sentOpen /\ session' = session => m.session # session'
    BY <2>1 DEF FilesInv, Unsent
  <2> QED BY <2>1, <2>3, <2>4, <2>5 DEF Older
<1> QED BY <1>3, <1>4

\* A step that makes one call.
LEMMA OneCall ==
  ASSUME Typed, NEW m \in CallType, wire' = Append(wire, m), UNCHANGED <<replies, serverVars>>,
         Typed', Retried', Progress, Meant(m)',
         isOpen' /\ ~sentOpen' =>
           lastAttemptedSync' = -1 /\ (m.session = session' => m.kind = "ASK")
  PROVE  /\ ClientStep(0) /\ Grows(wire, wire') /\ \A i \in Calls : wire'[i] = m
         /\ Len(wire) + 1 \in Calls
<1>1. wire \in Seq(CallType)
  BY DEF Typed
<1>2. /\ Grows(wire, wire') /\ Len(wire) \in Nat /\ Len(wire') = Len(wire) + 1
      /\ \A i \in Calls : wire'[i] = m
  BY <1>1, WireByCall
<1>3. \A i \in Calls : Meant(wire[i])'
  <2> SUFFICES ASSUME NEW i \in Calls
               PROVE  Meant(wire[i])'
    OBVIOUS
  <2>1. wire'[i] = m
    BY <1>2
  <2> QED BY <2>1
<1>4. Reads(replies, replies', 0)
  BY SameAnswers
<1>5. Len(wire) + 1 \in Calls
  BY <1>2 DEF Calls
<1> QED BY <1>2, <1>3, <1>4, <1>5 DEF ClientStep

\* A step whose call announces the version.
LEMMA OneAnnouncement ==
  ASSUME FilesInv, Typed', NEW m \in CallType, wire' = Append(wire, m), UNCHANGED replies,
         Announces(m)', m.awaited, Behindhand',
         \/ session' = session + 1
         \/ session' = session /\ changeCount < changeCount'
         \/ isOpen /\ ~sentOpen /\ session' = session
  PROVE  Settling'
<1>1. wire \in Seq(CallType)
  BY DEF FilesInv, Typed
<1>2. /\ Grows(wire, wire') /\ Len(wire) \in Nat /\ Len(wire') = Len(wire) + 1
      /\ wire'[Len(wire')] = m
  BY <1>1, WireByCall
<1>3. PICK p : p = Len(wire')
  OBVIOUS
<1>4. /\ \A j \in 1 .. Len(wire) : Older(wire[j])'
      /\ \A j \in 1 .. Len(replies') : Older(replies[j])'
  BY <1>2, NewVersionOlder
<1>5. p > 0 /\ \A j \in 1 .. p - 1 : Older(wire[j])'
  BY <1>2, <1>3, <1>4
<1>6. wire'[p] = m
  BY <1>2, <1>3
<1>7. Announces(wire[p])' /\ wire'[p].awaited
  BY <1>6
<1> QED BY <1>3, <1>4, <1>5, <1>7, AnnouncementSettles

-----------------------------------------------------------------------------
(* The actions of the client *)

LEMMA OtherSession ==
  ASSUME NEW kind, NEW version, NEW text, NEW s
  PROVE  [Event(kind, version, text) EXCEPT !.session = s]
           = [kind |-> kind, session |-> s, version |-> version, text |-> text,
              awaited |-> TRUE]
<1> DEFINE Fields(q) == [kind : {kind}, session : {q}, version : {version}, text : {text},
                         awaited : {TRUE}]
<1>1. PICK e : e = Event(kind, version, text)
  OBVIOUS
<1>2. e \in Fields(session)
  BY <1>1 DEF Event
<1>3. PICK x : x = [e EXCEPT !.session = s]
  OBVIOUS
<1>4. x \in Fields(s)
  BY <1>2, <1>3
<1>5. x = [kind |-> x.kind, session |-> x.session, version |-> x.version, text |-> x.text,
           awaited |-> x.awaited]
  BY <1>4
<1>6. x.kind = kind /\ x.session = s /\ x.version = version /\ x.text = text /\ x.awaited
  BY <1>4
<1> QED BY <1>1, <1>3, <1>5, <1>6

LEMMA OpenFileKeeps ==
  ASSUME FilesInv, NEW isEmpty \in BOOLEAN, OpenFile(isEmpty)
  PROVE  FilesInv'
<1>1. /\ Typed /\ ~isOpen /\ isOpen' /\ session' = session + 1 /\ changeCount' = 1
      /\ session \in Nat /\ session' \in Session /\ lastAttemptedSync' = -1
      /\ resyncs' = {} /\ sentOpen' = ~isEmpty
      /\ closes' = closes /\ timeouts' = timeouts /\ replies' = replies
      /\ buffer' = buffer /\ lost' = lost /\ ask' = ask
  BY Bounds DEF FilesInv, OpenFile, Typed, Session, serverVars
<1>2. PICK m : m = [kind |-> "OPEN", session |-> session', version |-> 1,
                    text |-> <<session', 1>>, awaited |-> TRUE]
  OBVIOUS
<1>3. wire' = IF isEmpty THEN wire ELSE Append(wire, m)
  <2>1. wire' = IF isEmpty THEN wire
                ELSE Append(wire, [Event("OPEN", 1, <<session + 1, 1>>)
                                     EXCEPT !.session = session + 1])
    BY DEF OpenFile
  <2>2. [Event("OPEN", 1, <<session + 1, 1>>) EXCEPT !.session = session + 1] = m
    BY <1>1, <1>2, OtherSession
  <2> QED BY <2>1, <2>2
<1>4. m \in CallType
  <2>1. <<session', 1>> \in AnyText
    BY <1>1, Bounds DEF AnyText
  <2> QED BY <1>1, <1>2, <2>1 DEF CallType, Kind
<1>5. wire \in Seq(CallType)
  BY <1>1 DEF Typed
<1>6. /\ wire' \in Seq(CallType) /\ Grows(wire, wire')
      /\ \A i \in Calls : wire'[i] = m
      /\ isEmpty => Calls = {}
  <2>1. CASE isEmpty
    BY <1>3, <1>5, <2>1, GrowsNot DEF Calls
  <2>2. CASE ~isEmpty
    BY <1>3, <1>4, <1>5, <2>2, WireByCall
  <2> QED BY <2>1, <2>2
<1>7. Typed'
  <2>1. session' \in 0 .. MaxSession /\ session' > 0 /\ changeCount' \in Version
    BY <1>1, Bounds DEF Session
  <2>2. replies' \in Seq(ReplyType) /\ ask' \in AskType /\ timeouts' \in 0 .. MaxTimeouts
        /\ buffer' \in [version : Version, text : AnyText] \cup {None}
        /\ lost' \in BOOLEAN /\ closes' \subseteq Session
    BY <1>1 DEF Typed
  <2>3. resyncs' \subseteq Version /\ sentOpen' \in BOOLEAN /\ isOpen' \in BOOLEAN
        /\ lastAttemptedSync' \in {-1} \cup Version
    BY <1>1 DEF OpenFile
  <2> QED BY <1>6, <2>1, <2>2, <2>3 DEF Typed
<1>8. Retried'
  <2>1. \A s \in closes : s < session' /\ s <= session'
    <3>1. \A s \in closes : s \in Nat /\ s <= session
      BY <1>1, Bounds DEF FilesInv, Retried, Typed
    <3> QED BY <1>1, <3>1
  <2> QED BY <1>1, <2>1 DEF Retried
<1>9. Meant(m)'
  BY <1>1, <1>2, Bounds DEF Meant, Data
<1>10. ClientStep(0)
  <2>1. Progress
    BY <1>1 DEF Progress
  <2>2. Reads(replies, replies', 0)
    BY <1>1, SameAnswers
  <2>3. \A i \in Calls : Meant(wire[i])'
    <3> SUFFICES ASSUME NEW i \in Calls
                 PROVE  Meant(wire[i])'
      OBVIOUS
    <3>1. wire'[i] = m
      BY <1>6
    <3> QED BY <1>9, <3>1
  <2> QED BY <1>1, <1>6, <1>7, <1>8, <2>1, <2>2, <2>3 DEF ClientStep, serverVars
<1>11. CallsMeant' /\ AnswersTold' /\ Held' /\ Unsent'
  BY <1>10, ClientKeeps
<1>12. \A i \in Calls : wire'[i].kind # "ASK" /\ wire'[i].session = session'
  BY <1>2, <1>6
<1>13. Asking' /\ AnswersMatch'
  BY <1>1, <1>10, <1>12, ClientKeepsAsking
<1>14. Separated(wire, Holder, Sender)'
  <2>1. Sender = 0 /\ Sender' = session'
    BY <1>1 DEF Sender
  <2> QED BY <1>10, <1>12, <2>1, ClientSeparates
<1>15. Settling'
  <2>1. CASE isEmpty
    BY <1>1, <2>1 DEF Settling
  <2>2. CASE ~isEmpty
    <3>1. Announces(m)' /\ m.awaited /\ Behindhand'
      BY <1>1, <1>2 DEF Announces, Behindhand
    <3> QED BY <1>1, <1>3, <1>4, <1>7, <2>2, <3>1, OneAnnouncement
  <2> QED BY <2>1, <2>2
<1> QED BY <1>7, <1>8, <1>11, <1>13, <1>14, <1>15 DEF FilesInv

LEMMA WireByCalls ==
  ASSUME wire \in Seq(CallType), NEW s \in Seq(CallType), wire' = wire \o s
  PROVE  /\ wire' \in Seq(CallType) /\ Grows(wire, wire') /\ Len(wire) \in Nat
         /\ Len(s) \in Nat /\ Len(wire') = Len(wire) + Len(s)
         /\ \A i \in Calls : wire'[i] = s[i - Len(wire)] /\ i - Len(wire) \in 1 .. Len(s)
<1>1. PICK w, r : w \in Seq(CallType) /\ w = wire /\ r = wire'
  OBVIOUS
<1>2. r = w \o s
  BY <1>1
<1>3. /\ r \in Seq(CallType) /\ Len(w) \in Nat /\ Len(s) \in Nat /\ Len(r) = Len(w) + Len(s)
      /\ \A i \in 1 .. Len(w) : r[i] = w[i]
      /\ \A i \in Len(w) + 1 .. Len(r) : r[i] = s[i - Len(w)] /\ i - Len(w) \in 1 .. Len(s)
  BY <1>1, <1>2
<1>4. Grows(w, r)
  BY <1>3 DEF Grows, Like
<1> QED BY <1>1, <1>3, <1>4 DEF Calls

\* The types, where the client has changed the calls and the counts.
LEMMA TypedStays ==
  ASSUME Typed, wire' \in Seq(CallType), UNCHANGED <<session, serverVars, ask>>,
         (isOpen' => isOpen) /\ isOpen' \in BOOLEAN /\ sentOpen' \in BOOLEAN,
         changeCount' \in Version, lastAttemptedSync' \in {-1} \cup Version,
         resyncs' \subseteq Version, closes' \subseteq Session,
         timeouts' \in 0 .. MaxTimeouts, replies' \in Seq(ReplyType)
  PROVE  Typed'
  BY DEF Typed, serverVars

\* The edits of a file that was announced.
LEMMA EditSentKeeps ==
  ASSUME FilesInv, NEW n \in 1 .. 2, Edit(n), sentOpen
  PROVE  FilesInv'
<1>1. /\ Typed /\ isOpen /\ isOpen' = isOpen /\ session' = session /\ sentOpen'
      /\ changeCount' = changeCount + n
      /\ changeCount + n <= MaxVersion /\ lastAttemptedSync' = lastAttemptedSync
      /\ resyncs' = resyncs /\ closes' = closes /\ timeouts' = timeouts /\ replies' = replies
      /\ buffer' = buffer /\ lost' = lost /\ ask' = ask
  BY DEF FilesInv, Edit, retryVars, serverVars
<1>2. /\ session \in Session /\ session \in Nat /\ changeCount \in Nat /\ changeCount >= 1
      /\ lastAttemptedSync \in Int /\ lastAttemptedSync <= changeCount
      /\ MaxVersion \in Nat /\ n \in Nat /\ n >= 1
  <2>1. session \in Session /\ session \in Nat
    BY <1>1, Texts, Bounds DEF Typed
  <2>2. changeCount \in Nat /\ changeCount >= 1 /\ lastAttemptedSync \in Int
    BY <1>1, Bounds DEF Typed, Version
  <2>3. lastAttemptedSync <= changeCount
    BY DEF FilesInv, Retried
  <2> QED BY <2>1, <2>2, <2>3, Bounds
<1>3. PICK s : s = [i \in 1 .. n |-> Event("EDIT", changeCount + i, <<session, changeCount + i>>)]
  OBVIOUS
<1>4. wire' = wire \o s
  BY <1>3 DEF Edit
<1>5. ASSUME NEW i \in 1 .. n
      PROVE  /\ s[i] \in CallType /\ s[i].kind = "EDIT" /\ s[i].session = session
             /\ s[i].version = changeCount + i
             /\ s[i].text = <<session, changeCount + i>> /\ s[i].awaited
             /\ changeCount + i \in Version /\ changeCount + i <= changeCount'
  <2>1. changeCount + i \in Version /\ changeCount + i \in Nat /\ changeCount + i <= changeCount'
    BY <1>1, <1>2 DEF Version
  <2>2. <<session, changeCount + i>> \in AnyText /\ "EDIT" \in Kind
    BY <1>1, <2>1, Texts DEF Kind
  <2>3. PICK v, t : v = changeCount + i /\ t = <<session, changeCount + i>>
    OBVIOUS
  <2>4. s[i] = Event("EDIT", v, t)
    BY <1>3, <2>3
  <2>5. v \in Nat /\ t \in AnyText
    BY <2>1, <2>2, <2>3
  <2>6. /\ Event("EDIT", v, t) \in CallType /\ Event("EDIT", v, t).kind = "EDIT"
        /\ Event("EDIT", v, t).session = session
        /\ Event("EDIT", v, t).version = v
        /\ Event("EDIT", v, t).text = t
        /\ Event("EDIT", v, t).awaited
    BY <1>1, <1>2, <2>2, <2>5, NewCall
  <2> QED BY <2>1, <2>3, <2>4, <2>6
<1>6. s \in Seq(CallType) /\ Len(s) = n
  <2>1. s \in [1 .. n -> CallType]
    BY <1>3, <1>5
  <2> QED BY <1>2, <2>1
<1>7. /\ wire' \in Seq(CallType) /\ Grows(wire, wire') /\ Len(wire) \in Nat
      /\ Len(wire') = Len(wire) + n
      /\ \A i \in Calls : wire'[i] = s[i - Len(wire)] /\ i - Len(wire) \in 1 .. n
  BY <1>1, <1>4, <1>6, WireByCalls DEF Typed
<1>8. Typed'
  <2>1. changeCount' \in Version
    BY <1>1, <1>2 DEF Version
  <2>2. isOpen' \in BOOLEAN /\ sentOpen' \in BOOLEAN /\ replies' \in Seq(ReplyType)
    BY <1>1 DEF Typed, Edit
  <2>3. lastAttemptedSync' \in {-1} \cup Version /\ resyncs' \subseteq Version
        /\ closes' \subseteq Session /\ timeouts' \in 0 .. MaxTimeouts
    BY <1>1 DEF Typed
  <2> QED BY <1>1, <1>7, <2>1, <2>2, <2>3, TypedStays DEF serverVars
<1>9. Retried'
  <2>1. lastAttemptedSync <= changeCount + n
    BY <1>2
  <2> QED BY <1>1, <2>1 DEF FilesInv, Retried
<1>10. ASSUME NEW i \in Calls
       PROVE  Meant(wire[i])' /\ wire'[i].kind = "EDIT" /\ wire'[i].session = session'
  <2>1. PICK m : m = wire'[i]
    OBVIOUS
  <2>2. m.kind = "EDIT" /\ m.session = session' /\ m.version <= changeCount'
        /\ m.version \in Version /\ m.text = <<m.session, m.version>>
    BY <1>1, <1>5, <1>7, <2>1
  <2>3. Meant(m)'
    BY <1>1, <1>2, <2>2 DEF Meant
  <2> QED BY <2>1, <2>2, <2>3
<1>11. ClientStep(0)
  <2>1. Progress
    BY <1>1, <1>2 DEF Progress
  <2>2. Reads(replies, replies', 0)
    BY <1>1, SameAnswers
  <2> QED BY <1>1, <1>7, <1>8, <1>9, <1>10, <2>1, <2>2 DEF ClientStep, serverVars
<1>12. CallsMeant' /\ AnswersTold' /\ Held' /\ Unsent'
  BY <1>11, ClientKeeps
<1>13. Asking' /\ AnswersMatch'
  BY <1>1, <1>10, <1>11, ClientKeepsAsking
<1>14. Separated(wire, Holder, Sender)'
  <2>1. Sender = session /\ Sender' = session'
    BY <1>1 DEF Sender
  <2> QED BY <1>1, <1>10, <1>11, <2>1, ClientSeparates
<1>15. Settling'
  <2>1. PICK p : p = Len(wire')
    OBVIOUS
  <2>2. /\ \A j \in 1 .. Len(wire) : Older(wire[j])'
        /\ \A j \in 1 .. Len(replies') : Older(replies[j])'
    <3>1. session' = session /\ changeCount < changeCount'
      BY <1>1, <1>2
    <3> QED BY <1>1, <1>7, <1>8, <3>1, NewVersionOlder
  <2>3. p > 0 /\ p \in Calls /\ p - Len(wire) = n /\ n \in 1 .. n
    BY <1>2, <1>7, <2>1 DEF Calls
  <2>4. PICK m : m = wire'[p]
    OBVIOUS
  <2>5. m.kind = "EDIT" /\ m.session = session' /\ m.version = changeCount' /\ m.awaited
    BY <1>1, <1>5, <1>7, <2>3, <2>4
  <2>6. Announces(wire[p])' /\ wire'[p].awaited
    BY <2>4, <2>5 DEF Announces
  <2>7. Behindhand'
    BY <1>1, <1>2 DEF Behindhand
  <2>8. ASSUME NEW j \in 1 .. p - 1
        PROVE  Older(wire[j])'
    <3>1. CASE j \in 1 .. Len(wire)
      BY <2>2, <3>1
    <3>2. CASE j \in Calls
      <4>1. j - Len(wire) \in 1 .. n /\ j - Len(wire) < n /\ wire'[j] = s[j - Len(wire)]
        <5>1. j - Len(wire) \in 1 .. n /\ wire'[j] = s[j - Len(wire)]
          BY <1>7, <3>2
        <5>2. p = Len(wire) + n /\ j \in Int /\ j < p
          BY <1>2, <1>7, <2>1, <2>8
        <5> QED BY <1>2, <1>7, <5>1, <5>2
      <4>2. wire'[j].version < changeCount'
        BY <1>1, <1>2, <1>5, <4>1
      <4> QED BY <4>2 DEF Older
    <3> QED BY <1>7, <2>1, <2>8, <3>1, <3>2 DEF Calls
  <2> QED BY <1>8, <2>1, <2>2, <2>3, <2>6, <2>7, <2>8, AnnouncementSettles
<1> QED BY <1>8, <1>9, <1>12, <1>13, <1>14, <1>15 DEF FilesInv

\* The call that announces a file that was not.
LEMMA LateOpenKeeps ==
  ASSUME FilesInv, isOpen, ~sentOpen, changeCount' \in Version, changeCount <= changeCount',
         sentOpen', wire' = Append(wire, Event("OPEN", changeCount', <<session, changeCount'>>)),
         UNCHANGED <<session, isOpen, retryVars, timeouts, replies, serverVars, ask>>
  PROVE  FilesInv'
<1>1. /\ Typed /\ isOpen' = isOpen /\ session' = session
      /\ lastAttemptedSync' = -1 /\ lastAttemptedSync = -1
      /\ resyncs' = resyncs /\ closes' = closes /\ timeouts' = timeouts /\ replies' = replies
      /\ buffer' = buffer /\ lost' = lost /\ ask' = ask
  BY DEF FilesInv, Unsent, retryVars, serverVars
<1>2. PICK m, v, t : /\ v = changeCount' /\ t = <<session, v>>
                     /\ m = Event("OPEN", v, t)
  OBVIOUS
<1>3. session \in Session /\ session \in Nat /\ v \in Version /\ v \in Nat /\ t \in AnyText
      /\ "OPEN" \in Kind
  <2>1. session \in Session /\ v \in Version /\ t \in AnyText
    BY <1>1, <1>2, Texts
  <2> QED BY <2>1, Bounds DEF Kind
<1>4. /\ m \in CallType /\ m.kind = "OPEN" /\ m.session = session /\ m.version = v
      /\ m.text = t /\ m.awaited
  BY <1>1, <1>2, <1>3, NewCall
<1>5. wire' = Append(wire, m)
  BY <1>2
<1>6. Typed'
  <2>1. isOpen' \in BOOLEAN /\ sentOpen' \in BOOLEAN /\ replies' \in Seq(ReplyType)
    BY <1>1 DEF Typed
  <2>2. lastAttemptedSync' \in {-1} \cup Version /\ resyncs' \subseteq Version
        /\ closes' \subseteq Session /\ timeouts' \in 0 .. MaxTimeouts
    BY <1>1 DEF Typed
  <2>3. wire' \in Seq(CallType)
    BY <1>1, <1>4, <1>5, WireByCall DEF Typed
  <2> QED BY <1>1, <2>1, <2>2, <2>3, TypedStays DEF serverVars
<1>7. changeCount \in Nat /\ v \in Nat /\ changeCount <= v /\ v >= 1
  <2>1. v >= 1
    BY <1>3, Bounds DEF Version
  <2> QED BY <1>1, <1>2, <1>3, <2>1, Bounds DEF Typed
<1>8. Retried'
  <2>1. lastAttemptedSync' <= changeCount'
    BY <1>1, <1>2, <1>7
  <2> QED BY <1>1, <2>1 DEF FilesInv, Retried
<1>9. Progress
  BY <1>1 DEF Progress
<1>10. Meant(m)'
  BY <1>1, <1>2, <1>3, <1>4, <1>7 DEF Meant
<1>11. ClientStep(0) /\ \A i \in Calls : wire'[i] = m
  BY <1>1, <1>4, <1>5, <1>6, <1>8, <1>9, <1>10, OneCall
<1>12. CallsMeant' /\ AnswersTold' /\ Held' /\ Unsent'
  BY <1>11, ClientKeeps
<1>13. \A i \in Calls : wire'[i].kind # "ASK" /\ wire'[i].session = session'
  BY <1>1, <1>4, <1>11
<1>14. Asking' /\ AnswersMatch'
  BY <1>1, <1>11, <1>13, ClientKeepsAsking
<1>15. Separated(wire, Holder, Sender)'
  <2>1. Sender = session /\ Sender' = session'
    BY <1>1 DEF Sender
  <2> QED BY <1>1, <1>11, <1>13, <2>1, ClientSeparates
<1>16. Settling'
  <2>1. Announces(m)' /\ m.awaited /\ Behindhand'
    BY <1>1, <1>2, <1>4, <1>7 DEF Announces, Behindhand
  <2> QED BY <1>1, <1>4, <1>5, <1>6, <2>1, OneAnnouncement
<1> QED BY <1>6, <1>8, <1>12, <1>14, <1>15, <1>16 DEF FilesInv

LEMMA EditKeeps ==
  ASSUME FilesInv, NEW n \in 1 .. 2, Edit(n)
  PROVE  FilesInv'
<1>1. CASE sentOpen
  BY <1>1, EditSentKeeps
<1>2. CASE ~sentOpen
  <2>1. /\ isOpen /\ changeCount' = changeCount + n /\ changeCount + n <= MaxVersion
        /\ sentOpen'
        /\ wire' = Append(wire, Event("OPEN", changeCount', <<session, changeCount'>>))
        /\ session' = session
    BY <1>2 DEF Edit
  <2>2. changeCount \in Nat /\ changeCount >= 1 /\ MaxVersion \in Nat
    BY Bounds DEF FilesInv, Typed, Version
  <2>3. changeCount' \in Version /\ changeCount <= changeCount'
    BY <2>1, <2>2 DEF Version
  <2>4. UNCHANGED <<session, isOpen, retryVars, timeouts, replies, serverVars, ask>>
    BY DEF Edit
  <2> QED BY <1>2, <2>1, <2>3, <2>4, LateOpenKeeps
<1> QED BY <1>1, <1>2

LEMMA NotAwaited ==
  ASSUME NEW kind, NEW version, NEW text
  PROVE  [Event(kind, version, text) EXCEPT !.awaited = FALSE]
           = [kind |-> kind, session |-> session, version |-> version, text |-> text,
              awaited |-> FALSE]
<1> DEFINE Fields(q) == [kind : {kind}, session : {session}, version : {version}, text : {text},
                         awaited : {q}]
<1>1. PICK e : e = Event(kind, version, text)
  OBVIOUS
<1>2. e \in Fields(TRUE)
  BY <1>1 DEF Event
<1>3. PICK x : x = [e EXCEPT !.awaited = FALSE]
  OBVIOUS
<1>4. x \in Fields(FALSE)
  BY <1>2, <1>3
<1>5. x = [kind |-> x.kind, session |-> x.session, version |-> x.version, text |-> x.text,
           awaited |-> x.awaited]
  BY <1>4
<1>6. x.kind = kind /\ x.session = session /\ x.version = version /\ x.text = text
      /\ x.awaited = FALSE
  BY <1>4
<1> QED BY <1>1, <1>3, <1>5, <1>6

\* A call that follows the announcement.
LEMMA FollowingKeeps ==
  ASSUME FilesInv, SameSubscription, NEW m \in CallType, wire' = Append(wire, m),
         UNCHANGED <<replies, serverVars, lastAttemptedSync>>, Typed', Retried',
         Meant(m)', Follows(m)', m.kind \in Bound => m.session = session /\ isOpen,
         isOpen /\ ~sentOpen => (m.session = session => m.kind = "ASK"),
         changeCount \in resyncs => changeCount \in resyncs' \/ m.kind = "SYNC"
  PROVE  /\ CallsMeant' /\ AnswersTold' /\ Held' /\ Unsent'
         /\ Separated(wire, Holder, Sender)' /\ Settling'
         /\ ClientStep(0) /\ \A i \in Calls : wire'[i] = m
<1>1. /\ Typed /\ session' = session /\ isOpen' = isOpen /\ changeCount' = changeCount
      /\ sentOpen' = sentOpen /\ replies' = replies
      /\ lastAttemptedSync' = lastAttemptedSync
  BY DEF FilesInv, SameSubscription
<1>2. Progress
  <2>1. changeCount <= changeCount /\ lastAttemptedSync <= lastAttemptedSync
    BY <1>1, Bounds DEF Typed
  <2> QED BY <1>1, <2>1 DEF Progress
<1>3. isOpen' /\ ~sentOpen' =>
        lastAttemptedSync' = -1 /\ (m.session = session' => m.kind = "ASK")
  BY <1>1 DEF FilesInv, Unsent
<1>4. /\ ClientStep(0) /\ Grows(wire, wire') /\ \A i \in Calls : wire'[i] = m
      /\ Len(wire) + 1 \in Calls
  BY <1>1, <1>2, <1>3, OneCall
<1>5. CallsMeant' /\ AnswersTold' /\ Held' /\ Unsent'
  BY <1>4, ClientKeeps
<1>6. Separated(wire, Holder, Sender)'
  <2>1. Sender' = Sender /\ (m.kind \in Bound => m.session = Sender)
    BY <1>1 DEF Sender
  <2> QED BY <1>4, <2>1, ClientSeparates
<1>7. \A i \in Calls : Follows(wire[i])'
  <2> SUFFICES ASSUME NEW i \in Calls
               PROVE  Follows(wire[i])'
    OBVIOUS
  <2>1. wire'[i] = m
    BY <1>4
  <2> QED BY <2>1
<1>8. Settling'
  <2>1. CASE m.kind = "SYNC"
    <3>1. \E i \in Calls : wire'[i].kind = "SYNC"
      BY <1>4, <2>1
    <3> QED BY <1>4, <1>7, <3>1, ResyncSettles
  <2>2. CASE m.kind # "SYNC"
    <3>1. wire \in Seq(CallType) /\ \A i \in 1 .. Len(wire) : wire'[i].awaited = wire[i].awaited
      <4>1. wire \in Seq(CallType)
        BY <1>1 DEF Typed
      <4> QED BY <4>1, AppendFacts
    <3>2. replies \in Seq(ReplyType) /\ \A j \in 1 .. Len(replies') : j + 0 = j
      BY <1>1 DEF Typed
    <3>3. StillAwaited(0)
      BY <1>1, <3>1, <3>2 DEF StillAwaited
    <3>4. StillBehindhand(0)
      BY <1>1 DEF StillBehindhand, Behindhand
    <3> QED BY <1>4, <1>7, <2>2, <3>3, <3>4, QuietSettles
  <2> QED BY <2>1, <2>2
<1> QED BY <1>4, <1>5, <1>6, <1>8

LEMMA SaveKeeps ==
  ASSUME FilesInv, Save
  PROVE  FilesInv'
<1>1. CASE ~sentOpen
  <2>1. /\ isOpen /\ sentOpen' /\ changeCount' = changeCount
        /\ wire' = Append(wire, Event("OPEN", changeCount', <<session, changeCount'>>))
        /\ UNCHANGED <<session, isOpen, retryVars, timeouts, replies, serverVars, ask>>
    BY <1>1 DEF Save, Sent, Text
  <2>2. changeCount' \in Version /\ changeCount <= changeCount'
    BY <2>1, Bounds DEF FilesInv, Typed
  <2> QED BY <1>1, <2>1, <2>2, LateOpenKeeps
<1>2. CASE sentOpen
  <2>1. /\ Typed /\ isOpen /\ sentOpen' /\ changeCount' = changeCount
        /\ UNCHANGED <<session, isOpen, retryVars, timeouts, replies, serverVars, ask>>
    BY <1>2 DEF Save, FilesInv
  <2>2. PICK m : m = Event("SAVE", changeCount, Text)
    OBVIOUS
  <2>3. wire' = Append(wire, m)
    BY <1>2, <2>2 DEF Save, Sent
  <2>4. /\ session \in Session /\ Text \in AnyText /\ changeCount \in Version
        /\ changeCount \in Nat /\ session \in Nat /\ "SAVE" \in Kind
    BY <2>1, Texts, Bounds DEF Typed, Kind
  <2>5. /\ m \in CallType /\ m.kind = "SAVE" /\ m.session = session /\ m.version = changeCount
    BY <2>1, <2>2, <2>4, NewCall
  <2>6. SameSubscription
    BY <1>2, <2>1 DEF SameSubscription, FilesInv, Typed
  <2>7. Typed'
    <3>1. wire' \in Seq(CallType)
      BY <2>1, <2>3, <2>5, WireByCall DEF Typed
    <3>2. sentOpen' \in BOOLEAN /\ isOpen' \in BOOLEAN
      BY <2>1 DEF Save, Typed
    <3>3. /\ changeCount' \in Version /\ lastAttemptedSync' \in {-1} \cup Version
          /\ resyncs' \subseteq Version /\ closes' \subseteq Session
          /\ timeouts' \in 0 .. MaxTimeouts /\ replies' \in Seq(ReplyType)
      BY <2>1 DEF Typed, retryVars
    <3> QED BY <2>1, <3>1, <3>2, <3>3, TypedStays
  <2>8. Retried'
    BY <2>1 DEF FilesInv, Retried, retryVars
  <2>9. Meant(m)' /\ Follows(m)'
    <3>1. m.session <= session' /\ m.version <= changeCount'
      BY <2>1, <2>4, <2>5
    <3> QED BY <2>1, <2>4, <2>5, <3>1 DEF Meant, Follows, Data
  <2>10. m.kind \notin Bound /\ m.kind # "SYNC"
    BY <2>5 DEF Bound, Data
  <2>11. UNCHANGED <<replies, serverVars, lastAttemptedSync>> /\ resyncs' = resyncs /\ ask' = ask
    BY <2>1 DEF retryVars
  <2>12. /\ CallsMeant' /\ AnswersTold' /\ Held' /\ Unsent'
         /\ Separated(wire, Holder, Sender)' /\ Settling'
         /\ ClientStep(0) /\ \A i \in Calls : wire'[i] = m
    BY <1>2, <2>3, <2>5, <2>6, <2>7, <2>8, <2>9, <2>10, <2>11, FollowingKeeps
  <2>13. Asking' /\ AnswersMatch'
    <3>1. \A i \in Calls : wire'[i].kind # "ASK" /\ wire'[i].kind \notin Data
      BY <2>5, <2>12 DEF Data
    <3> QED BY <2>11, <2>12, <3>1, ClientKeepsAsking
  <2> QED BY <2>7, <2>8, <2>12, <2>13 DEF FilesInv
<1> QED BY <1>1, <1>2

LEMMA AskKeeps ==
  ASSUME FilesInv, Ask
  PROVE  FilesInv'
<1>1. /\ Typed /\ isOpen /\ ask = NoAsk /\ Asking
      /\ UNCHANGED <<session, isOpen, changeCount, sentOpen>>
      /\ UNCHANGED <<retryVars, timeouts, replies, serverVars>>
  BY DEF Ask, FilesInv, subscriptionVars
<1>2. PICK m : m = [Event("ASK", changeCount, Mixed) EXCEPT !.awaited = FALSE]
  OBVIOUS
<1>3. wire' = Append(wire, m)
  BY <1>2 DEF Ask, Sent
<1>4. m = [kind |-> "ASK", session |-> session, version |-> changeCount, text |-> Mixed,
           awaited |-> FALSE]
  BY <1>2, NotAwaited
<1>5. /\ session \in Session /\ session \in Nat /\ Mixed \in AnyText /\ changeCount \in Version
      /\ changeCount \in Nat /\ "ASK" \in Kind
  BY <1>1, Texts, Bounds DEF Typed, Kind
<1>6. m \in CallType /\ m.kind = "ASK" /\ m.session = session /\ m.version = changeCount
      /\ ~m.awaited
  BY <1>4, <1>5 DEF CallType
<1>7. ask' = [stage |-> "sent", session |-> session, version |-> changeCount, answer |-> Mixed]
  BY DEF Ask, NoAsk
<1>8. SameSubscription
  BY <1>1 DEF SameSubscription
<1>9. wire \in Seq(CallType) /\ wire' \in Seq(CallType)
  BY <1>1, <1>3, <1>6, WireByCall DEF Typed
<1>10. Typed'
  <2>1. session' \in 0 .. MaxSession /\ (isOpen' => session' > 0) /\ isOpen' \in BOOLEAN
        /\ sentOpen' \in BOOLEAN /\ lost' \in BOOLEAN
    BY <1>1 DEF Typed, serverVars
  <2>2. /\ changeCount' \in Version /\ lastAttemptedSync' \in {-1} \cup Version
        /\ resyncs' \subseteq Version /\ closes' \subseteq Session
        /\ timeouts' \in 0 .. MaxTimeouts /\ replies' \in Seq(ReplyType)
        /\ buffer' \in [version : Version, text : AnyText] \cup {None}
    BY <1>1 DEF Typed, retryVars, serverVars
  <2>3. ask' \in AskType
    BY <1>1, <1>5, <1>7 DEF AskType, Typed
  <2> QED BY <1>9, <2>1, <2>2, <2>3 DEF Typed
<1>11. Retried'
  BY <1>1 DEF FilesInv, Retried, retryVars
<1>12. Meant(m)' /\ Follows(m)'
  <2>1. m.session <= session' /\ m.version <= changeCount'
    BY <1>1, <1>5, <1>6
  <2> QED BY <1>1, <1>5, <1>6, <2>1 DEF Meant, Follows, Data
<1>13. UNCHANGED <<replies, serverVars, lastAttemptedSync>> /\ resyncs' = resyncs
  BY <1>1 DEF retryVars
<1>14. /\ CallsMeant' /\ AnswersTold' /\ Held' /\ Unsent'
       /\ Separated(wire, Holder, Sender)' /\ Settling'
  BY <1>1, <1>3, <1>6, <1>8, <1>10, <1>11, <1>12, <1>13, FollowingKeeps
<1>15. /\ Len(wire) \in Nat /\ Len(wire') = Len(wire) + 1 /\ wire'[Len(wire) + 1] = m
       /\ \A i \in 1 .. Len(wire) : wire'[i] = wire[i]
  BY <1>3, <1>6, <1>9, AppendFacts
<1>16. \A i \in 1 .. Len(wire) : wire[i].kind # "ASK"
  BY <1>1 DEF Asking, NoAsk
<1>17. ASSUME NEW i \in 1 .. Len(wire'), wire'[i].kind = "ASK"
       PROVE  i = Len(wire) + 1 /\ wire'[i].session = session
  BY <1>6, <1>15, <1>16, <1>17
<1>18. ASSUME NEW i \in 1 .. Len(wire'), wire'[i].kind = "ASK"
       PROVE  /\ ask'.stage = "sent" /\ ask'.session = wire'[i].session
              /\ \A j \in 1 .. Len(wire') :
                   /\ wire'[j].kind = "ASK" => j = i
                   /\ j > i /\ wire'[j].kind \in Data => wire'[j].session >= ask'.session
  <2>1. i = Len(wire) + 1 /\ wire'[i].session = session
    BY <1>17, <1>18
  <2>2. \A j \in 1 .. Len(wire') : wire'[j].kind = "ASK" => j = i
    BY <1>17, <2>1
  <2>3. \A j \in 1 .. Len(wire') : ~(j > i)
    BY <1>15, <2>1
  <2> QED BY <1>7, <2>1, <2>2, <2>3
<1>19. Asking' /\ AnswersMatch'
  <2>1. ask'.stage = "sent" /\ ask'.session <= session' /\ ask'.answer = Mixed
    BY <1>1, <1>5, <1>7
  <2>2. Asking'
    BY <1>18, <2>1 DEF Asking
  <2> QED BY <2>1, <2>2 DEF AnswersMatch
<1> QED BY <1>10, <1>11, <1>14, <1>19 DEF FilesInv

LEMMA CloseTimerKeeps ==
  ASSUME FilesInv, CloseTimer
  PROVE  FilesInv'
<1>1. PICK s \in closes :
        /\ closes' = closes \ {s}
        /\ wire' = Append(wire, [Event("CLOSE", 0, Mixed) EXCEPT !.session = s])
        /\ UNCHANGED <<subscriptionVars, lastAttemptedSync, resyncs, timeouts, replies,
                       serverVars, ask>>
  BY DEF CloseTimer, Sent
<1>2. PICK m : m = [Event("CLOSE", 0, Mixed) EXCEPT !.session = s]
  OBVIOUS
<1>3. m = [kind |-> "CLOSE", session |-> s, version |-> 0, text |-> Mixed, awaited |-> TRUE]
  BY <1>2, OtherSession
<1>4. /\ Typed /\ Retried /\ s \in Session /\ Mixed \in AnyText /\ "CLOSE" \in Kind
      /\ wire' = Append(wire, m)
  BY <1>1, <1>2 DEF FilesInv, Typed, AnyText, Kind
<1>5. m \in CallType /\ m.kind = "CLOSE" /\ m.session = s
  BY <1>3, <1>4 DEF CallType
<1>6. SameSubscription /\ isOpen' = isOpen /\ session' = session
  BY <1>1 DEF SameSubscription, subscriptionVars
<1>7. Typed'
  <2>1. wire' \in Seq(CallType)
    BY <1>4, <1>5, WireByCall DEF Typed
  <2>2. /\ changeCount' \in Version /\ lastAttemptedSync' \in {-1} \cup Version
        /\ resyncs' \subseteq Version /\ closes' \subseteq Session
        /\ timeouts' \in 0 .. MaxTimeouts /\ replies' \in Seq(ReplyType)
        /\ isOpen' \in BOOLEAN /\ sentOpen' \in BOOLEAN /\ (isOpen' => isOpen)
    BY <1>1, <1>4 DEF Typed, subscriptionVars
  <2> QED BY <1>1, <1>4, <1>6, <2>1, <2>2, TypedStays DEF subscriptionVars
<1>8. Retried'
  <2>1. lastAttemptedSync' = lastAttemptedSync /\ resyncs' = resyncs /\ changeCount' = changeCount
    BY <1>1 DEF subscriptionVars
  <2>2. closes' \subseteq closes
    BY <1>1
  <2> QED BY <1>4, <1>6, <2>1, <2>2 DEF Retried
<1>9. Meant(m)' /\ Follows(m)'
  <2>1. s <= session /\ (isOpen => s < session)
    BY <1>4 DEF Retried
  <2> QED BY <1>5, <1>6, <2>1 DEF Meant, Follows, Data
<1>10. isOpen => s # session
  <2>1. isOpen => s < session
    BY <1>4 DEF Retried
  <2>2. s \in Nat
    BY <1>4, Bounds
  <2> QED BY <2>1, <2>2
<1>11. m.kind \notin Bound /\ m.kind \notin Data /\ m.kind # "ASK"
  BY <1>5 DEF Bound, Data
<1>12. UNCHANGED <<replies, serverVars, lastAttemptedSync>> /\ resyncs' = resyncs /\ ask' = ask
  BY <1>1
<1>13. isOpen /\ ~sentOpen => (m.session = session => m.kind = "ASK")
  BY <1>5, <1>10
<1>14. /\ CallsMeant' /\ AnswersTold' /\ Held' /\ Unsent'
       /\ Separated(wire, Holder, Sender)' /\ Settling'
       /\ ClientStep(0) /\ \A i \in Calls : wire'[i] = m
  BY <1>4, <1>5, <1>6, <1>7, <1>8, <1>9, <1>11, <1>12, <1>13, FollowingKeeps
<1>15. Asking' /\ AnswersMatch'
  <2>1. \A i \in Calls : wire'[i].kind # "ASK" /\ wire'[i].kind \notin Data
    BY <1>11, <1>14
  <2> QED BY <1>12, <1>14, <2>1, ClientKeepsAsking
<1> QED BY <1>7, <1>8, <1>14, <1>15 DEF FilesInv

LEMMA CloseFileKeeps ==
  ASSUME FilesInv, CloseFile
  PROVE  FilesInv'
<1>1. /\ Typed /\ Retried /\ isOpen /\ isOpen' = FALSE /\ resyncs' = {}
      /\ UNCHANGED <<session, changeCount, sentOpen, lastAttemptedSync, closes, timeouts,
                     replies, serverVars, ask>>
  BY DEF CloseFile, FilesInv
<1>2. PICK m : m = Event("CLOSE", changeCount, Text)
  OBVIOUS
<1>3. wire' = Append(wire, m)
  BY <1>2 DEF CloseFile, Sent
<1>4. /\ session \in Session /\ Text \in AnyText /\ changeCount \in Version
      /\ changeCount \in Nat /\ session \in Nat /\ "CLOSE" \in Kind
  BY <1>1, Texts, Bounds DEF Typed, Kind
<1>5. m \in CallType /\ m.kind = "CLOSE" /\ m.session = session
  BY <1>1, <1>2, <1>4, NewCall
<1>6. wire \in Seq(CallType) /\ wire' \in Seq(CallType)
  BY <1>1, <1>3, <1>5, WireByCall DEF Typed
<1>7. Typed'
  <2>1. /\ changeCount' \in Version /\ lastAttemptedSync' \in {-1} \cup Version
        /\ resyncs' \subseteq Version /\ closes' \subseteq Session
        /\ timeouts' \in 0 .. MaxTimeouts /\ replies' \in Seq(ReplyType)
        /\ isOpen' \in BOOLEAN /\ sentOpen' \in BOOLEAN /\ (isOpen' => isOpen)
    BY <1>1 DEF Typed
  <2> QED BY <1>1, <1>6, <2>1, TypedStays
<1>8. Retried'
  BY <1>1 DEF Retried
<1>9. Meant(m)'
  <2>1. m.session <= session'
    BY <1>1, <1>4, <1>5
  <2> QED BY <1>1, <1>5, <2>1 DEF Meant, Data
<1>10. Progress
  <2>1. changeCount <= changeCount /\ lastAttemptedSync <= lastAttemptedSync
    BY <1>1, Bounds DEF Typed
  <2> QED BY <1>1, <2>1 DEF Progress
<1>11. ClientStep(0) /\ \A i \in Calls : wire'[i] = m
  BY <1>1, <1>3, <1>5, <1>7, <1>8, <1>9, <1>10, OneCall
<1>12. CallsMeant' /\ AnswersTold' /\ Held' /\ Unsent'
  BY <1>11, ClientKeeps
<1>13. Asking' /\ AnswersMatch'
  <2>1. \A i \in Calls : wire'[i].kind # "ASK" /\ wire'[i].kind \notin Data
    BY <1>5, <1>11 DEF Data
  <2> QED BY <1>1, <1>11, <2>1, ClientKeepsAsking
<1>14. Separated(wire, Holder, Sender)'
  <2>1. Separated(wire, Holder, Sender) /\ Holder' = Holder
    BY <1>1 DEF FilesInv, Holder, serverVars
  <2>2. Separated(wire', Holder, Sender')
    BY <1>3, <1>5, <1>6, <2>1, SeparatedByClose
  <2> QED BY <2>1, <2>2
<1>15. Settling'
  BY <1>1 DEF Settling
<1> QED BY <1>7, <1>8, <1>12, <1>13, <1>14, <1>15 DEF FilesInv

-----------------------------------------------------------------------------
(* The retries of the client *)

LEMMA QuietKeeps ==
  ASSUME FilesInv, NEW k, SameSubscription, UNCHANGED <<serverVars, ask>>, Typed', Retried',
         lastAttemptedSync <= lastAttemptedSync', Grows(wire, wire'), Calls = {},
         Reads(replies, replies', k),
         isOpen /\ ~sentOpen => lastAttemptedSync' = -1,
         changeCount \in resyncs => changeCount \in resyncs',
         StillAwaited(k), StillBehindhand(k)
  PROVE  FilesInv'
<1>1. session' = session /\ isOpen' = isOpen /\ changeCount' = changeCount
      /\ sentOpen' = sentOpen
  BY DEF SameSubscription
<1>2. Progress
  <2>1. changeCount <= changeCount
    BY Bounds DEF FilesInv, Typed
  <2> QED BY <1>1, <2>1 DEF Progress
<1>3. ClientStep(k)
  BY <1>1, <1>2 DEF ClientStep
<1>4. CallsMeant' /\ AnswersTold' /\ Held' /\ Unsent'
  BY <1>3, ClientKeeps
<1>5. Asking' /\ AnswersMatch'
  <2>1. \A i \in Calls : wire'[i].kind # "ASK" /\ (wire'[i].kind \in Data => wire'[i].session = session')
    OBVIOUS
  <2> QED BY <1>3, <2>1, ClientKeepsAsking
<1>6. Separated(wire, Holder, Sender)'
  <2>1. Sender' = Sender
    BY <1>1 DEF Sender
  <2>2. \A i \in Calls : wire'[i].kind \in Bound => wire'[i].session = Sender'
    OBVIOUS
  <2> QED BY <1>3, <2>1, <2>2, ClientSeparates
<1>7. Settling'
  <2>1. \A i \in Calls : Follows(wire[i])'
    OBVIOUS
  <2> QED BY <1>3, <2>1, QuietSettles
<1> QED BY <1>4, <1>5, <1>6, <1>7 DEF FilesInv

\* The client sends a SYNC for the editor's version.
LEMMA ResyncKeeps ==
  ASSUME FilesInv, NEW k, SameSubscription, UNCHANGED <<serverVars, ask>>, Typed', Retried',
         isOpen, sentOpen, lastAttemptedSync' = changeCount,
         NEW calls \in Seq(CallType), Grows(wire, calls), Len(calls) = Len(wire),
         wire' = Append(calls, Event("SYNC", changeCount, Text)),
         Reads(replies, replies', k)
  PROVE  FilesInv'
<1>1. /\ Typed /\ session' = session /\ isOpen' = isOpen /\ changeCount' = changeCount
      /\ sentOpen' = sentOpen
  BY DEF SameSubscription, FilesInv
<1>2. PICK m : m = Event("SYNC", changeCount, Text)
  OBVIOUS
<1>3. /\ session \in Session /\ session \in Nat /\ Text \in AnyText
      /\ Text = <<session, changeCount>>
      /\ changeCount \in Version /\ changeCount \in Nat /\ "SYNC" \in Kind
  BY <1>1, Texts, Bounds DEF Typed, Kind
<1>4. m \in CallType /\ m.kind = "SYNC" /\ m.session = session /\ m.version = changeCount
      /\ m.text = <<session, changeCount>>
  <2>1. PICK t \in AnyText, v \in Nat : t = Text /\ v = changeCount
    BY <1>3
  <2>2. m = Event("SYNC", v, t)
    BY <1>2, <2>1
  <2>3. "SYNC" \in Kind /\ session \in Session
    BY <1>3
  <2>4. LET e == Event("SYNC", v, t)
        IN  /\ e \in CallType /\ e.kind = "SYNC" /\ e.session = session /\ e.version = v
            /\ e.text = t
    BY <1>1, <2>3, NewCall
  <2>5. /\ m \in CallType /\ m.kind = "SYNC" /\ m.session = session /\ m.version = v
        /\ m.text = t
    BY <2>2, <2>4
  <2> QED BY <1>3, <2>1, <2>5
<1>5. /\ Len(wire') = Len(calls) + 1 /\ Len(calls) \in Nat /\ wire'[Len(calls) + 1] = m
      /\ \A i \in 1 .. Len(calls) : wire'[i] = calls[i]
  <2>1. PICK r : r = wire'
    OBVIOUS
  <2>2. r = Append(calls, m)
    BY <1>2, <2>1
  <2>3. /\ Len(r) = Len(calls) + 1 /\ Len(calls) \in Nat /\ r[Len(calls) + 1] = m
        /\ \A i \in 1 .. Len(calls) : r[i] = calls[i]
    BY <1>4, <2>2, AppendFacts
  <2> QED BY <2>1, <2>3
<1>6. Grows(wire, wire')
  BY <1>5 DEF Grows
<1>7. /\ \A i \in Calls : wire'[i] = m
      /\ Len(wire) + 1 \in Calls
  BY <1>5 DEF Calls
<1>8. Progress
  <2>1. changeCount <= changeCount' /\ lastAttemptedSync <= lastAttemptedSync'
    BY <1>1, <1>3 DEF FilesInv, Retried
  <2> QED BY <1>1, <2>1 DEF Progress
<1>9. Meant(m)' /\ Follows(m)'
  <2>1. m.session <= session' /\ m.version <= changeCount' /\ m.version <= lastAttemptedSync'
    BY <1>1, <1>3, <1>4
  <2> QED BY <1>1, <1>3, <1>4, <2>1 DEF Meant, Follows, Data
<1>10. ASSUME NEW i \in Calls
       PROVE  Meant(wire[i])' /\ Follows(wire[i])'
  <2>1. wire'[i] = m
    BY <1>7
  <2> QED BY <1>9, <2>1
<1>11. ClientStep(k)
  BY <1>1, <1>6, <1>8, <1>10 DEF ClientStep
<1>12. CallsMeant' /\ AnswersTold' /\ Held' /\ Unsent'
  BY <1>11, ClientKeeps
<1>13. \A i \in Calls : wire'[i].kind = "SYNC" /\ wire'[i].session = session'
  BY <1>1, <1>4, <1>7
<1>14. Asking' /\ AnswersMatch'
  BY <1>11, <1>13, ClientKeepsAsking
<1>15. Separated(wire, Holder, Sender)'
  <2>1. Sender' = Sender /\ Sender' = session'
    BY <1>1 DEF Sender
  <2> QED BY <1>11, <1>13, <2>1, ClientSeparates
<1>16. Settling'
  <2>1. \E i \in Calls : wire'[i].kind = "SYNC"
    BY <1>7, <1>13
  <2> QED BY <1>10, <1>11, <2>1, ResyncSettles
<1> QED BY <1>12, <1>14, <1>15, <1>16 DEF FilesInv

\* Whatever the client does of its own: the types.
LEMMA RetryTyped ==
  ASSUME Typed, SameSubscription, UNCHANGED <<serverVars, ask>>, wire' \in Seq(CallType),
         replies' \in Seq(ReplyType), lastAttemptedSync' \in {-1} \cup Version,
         resyncs' \subseteq Version, closes' \subseteq Session, timeouts' \in 0 .. MaxTimeouts
  PROVE  Typed'
<1>1. isOpen' = isOpen /\ session' = session /\ changeCount' = changeCount
      /\ sentOpen' = sentOpen
  BY DEF SameSubscription
<1>2. isOpen' \in BOOLEAN /\ sentOpen' \in BOOLEAN /\ changeCount' \in Version
      /\ (isOpen' => isOpen)
  BY <1>1 DEF Typed
<1> QED BY <1>1, <1>2, TypedStays

LEMMA ResyncTimerKeeps ==
  ASSUME FilesInv, ResyncTimer
  PROVE  FilesInv'
<1>1. PICK v \in resyncs :
        /\ resyncs' = resyncs \ {v}
        /\ UNCHANGED <<lastAttemptedSync, closes>>
        /\ SendResync(v, wire)
        /\ UNCHANGED <<subscriptionVars, timeouts, replies, serverVars, ask>>
  BY DEF ResyncTimer
<1>2. /\ Typed /\ Retried /\ isOpen /\ v \in Version /\ v <= lastAttemptedSync
      /\ lastAttemptedSync <= changeCount /\ lastAttemptedSync' = lastAttemptedSync
      /\ replies' = replies /\ timeouts' = timeouts
  BY <1>1 DEF FilesInv, Retried, Typed
<1>3. v \in Nat /\ v >= 1 /\ lastAttemptedSync \in Int /\ changeCount \in Int
      /\ lastAttemptedSync \in {-1} \cup Version
  BY <1>2, Bounds DEF Typed, Version
<1>4. sentOpen
  <2>1. lastAttemptedSync # -1
    BY <1>2, <1>3
  <2> QED BY <1>2, <2>1 DEF FilesInv, Unsent
<1>5. SameSubscription /\ UNCHANGED <<serverVars, ask>>
  BY <1>1 DEF SameSubscription, subscriptionVars
<1>6. wire \in Seq(CallType) /\ Reads(replies, replies', 0)
  BY <1>2, SameAnswers DEF Typed
<1>7. Retried'
  <2>1. changeCount' = changeCount /\ isOpen' = isOpen /\ session' = session /\ closes' = closes
        /\ resyncs' \subseteq resyncs
    BY <1>1, <1>5 DEF SameSubscription
  <2> QED BY <1>2, <2>1 DEF Retried
<1>8. /\ lastAttemptedSync' \in {-1} \cup Version /\ resyncs' \subseteq Version
      /\ closes' \subseteq Session /\ timeouts' \in 0 .. MaxTimeouts /\ replies' \in Seq(ReplyType)
  BY <1>1, <1>2 DEF Typed
<1>9. CASE v = lastAttemptedSync /\ v = changeCount
  <2>1. wire' = Append(wire, Event("SYNC", changeCount, Text))
    BY <1>1, <1>2, <1>9 DEF SendResync, SendsResync
  <2>2. Event("SYNC", changeCount, Text) \in CallType
    BY <1>2, Texts, Bounds, NewCall DEF Typed, Kind
  <2>3. Typed'
    <3>1. wire' \in Seq(CallType)
      BY <1>6, <2>1, <2>2
    <3> QED BY <1>2, <1>5, <1>8, <3>1, RetryTyped
  <2>4. Grows(wire, wire)
    BY <1>6, GrowsNot
  <2> QED BY <1>2, <1>4, <1>5, <1>6, <1>7, <1>9, <2>1, <2>3, <2>4, ResyncKeeps
<1>10. CASE ~(v = lastAttemptedSync /\ v = changeCount)
  <2>1. wire' = wire
    BY <1>1, <1>2, <1>10 DEF SendResync, SendsResync
  <2>2. v # changeCount
    BY <1>2, <1>3, <1>10
  <2>3. Grows(wire, wire') /\ Calls = {}
    BY <1>6, <2>1, GrowsNot DEF Calls
  <2>4. Typed'
    BY <1>2, <1>5, <1>6, <1>8, <2>1, RetryTyped
  <2>5. changeCount \in resyncs => changeCount \in resyncs'
    BY <1>1, <2>2
  <2>6. StillAwaited(0)
    <3>1. \A j \in 1 .. Len(replies) : j + 0 = j
      OBVIOUS
    <3> QED BY <1>2, <2>1, <3>1 DEF StillAwaited
  <2>7. StillBehindhand(0)
    BY <1>2, <1>5 DEF StillBehindhand, Behindhand, SameSubscription
  <2>8. lastAttemptedSync <= lastAttemptedSync'
    BY <1>2, <1>3
  <2> QED BY <1>4, <1>5, <1>6, <1>7, <2>3, <2>4, <2>5, <2>6, <2>7, <2>8, QuietKeeps
<1> QED BY <1>9, <1>10

\* A call that can be rejected.
Failing(m) ==
  /\ m.session \in Session /\ m.session <= session /\ m.kind \in Kind \ {"ASK"}
  /\ m.kind # "CLOSE" => m.version \in Version
  /\ m.kind # "CLOSE" /\ m.session = session => m.version <= changeCount
  /\ m.kind = "SYNC" /\ m.session = session => m.version <= lastAttemptedSync
  /\ m.kind = "CLOSE" /\ isOpen => m.session < session
  /\ isOpen /\ ~sentOpen => m.session # session

\* What its rejection does: either no call is made, and none is due for an
\* announcement, or a SYNC is.
Passes(m) ==
  /\ UNCHANGED lastAttemptedSync
  /\ m.kind \in {"OPEN", "EDIT"} /\ m.session = session => ~Behindhand

Resyncs(calls) ==
  /\ isOpen /\ sentOpen /\ lastAttemptedSync' = changeCount
  /\ wire' = Append(calls, Event("SYNC", changeCount, Text))

LEMMA FailsDoes ==
  ASSUME FilesInv, SameSubscription, NEW m, NEW calls, Failing(m), Fails(m, calls)
  PROVE  /\ Retried' /\ resyncs \subseteq resyncs' /\ resyncs' \subseteq Version
         /\ closes' \subseteq Session /\ lastAttemptedSync' \in {-1} \cup Version
         /\ (wire' = calls /\ Passes(m)) \/ Resyncs(calls)
<1>1. /\ Typed /\ Retried /\ isOpen' = isOpen /\ session' = session
      /\ changeCount' = changeCount
  BY DEF FilesInv, SameSubscription
<1>2. lastAttemptedSync \in {-1} \cup Version /\ lastAttemptedSync \in Int /\ changeCount \in Nat
      /\ lastAttemptedSync <= changeCount /\ changeCount \in Version /\ session \in Nat
      /\ resyncs \subseteq Version /\ closes \subseteq Session
  BY <1>1, Bounds DEF Typed, Retried
<1>3. CASE /\ m.kind = "CLOSE" /\ closes' = closes \cup {m.session} /\ wire' = calls
           /\ UNCHANGED <<lastAttemptedSync, resyncs>>
  <2>1. m.session <= session' /\ (isOpen' => m.session < session')
    BY <1>1, <1>3 DEF Failing
  <2>2. Retried'
    BY <1>1, <1>3, <2>1 DEF Retried
  <2>3. Passes(m)
    BY <1>3 DEF Passes
  <2>4. closes' \subseteq Session /\ resyncs' = resyncs /\ lastAttemptedSync' = lastAttemptedSync
    BY <1>2, <1>3 DEF Failing
  <2> QED BY <1>2, <1>3, <2>2, <2>3, <2>4
<1>4. CASE /\ m.kind = "SYNC" /\ wire' = calls
           /\ resyncs' = IF IsCurrent(m) THEN resyncs \cup {m.version} ELSE resyncs
           /\ UNCHANGED <<lastAttemptedSync, closes>>
  <2>1. IsCurrent(m) => isOpen /\ m.version <= lastAttemptedSync /\ m.version \in Version
    BY <1>4 DEF IsCurrent, Failing
  <2>2. Retried'
    BY <1>1, <1>4, <2>1 DEF Retried
  <2>3. Passes(m)
    BY <1>4 DEF Passes
  <2>4. resyncs \subseteq resyncs' /\ resyncs' \subseteq Version
    BY <1>2, <1>4, <2>1
  <2> QED BY <1>2, <1>4, <2>2, <2>3, <2>4
<1>5. CASE /\ m.kind \notin {"CLOSE", "SYNC"}
           /\ IF IsCurrent(m) THEN AttemptResync(calls)
                              ELSE UNCHANGED lastAttemptedSync /\ wire' = calls
           /\ UNCHANGED <<resyncs, closes>>
  <2>1. CASE ~IsCurrent(m)
    <3>1. Retried'
      BY <1>1, <1>5, <2>1 DEF Retried
    <3>2. Passes(m)
      BY <1>5, <2>1 DEF Passes, IsCurrent, Behindhand
    <3> QED BY <1>2, <1>5, <2>1, <3>1, <3>2
  <2>2. CASE IsCurrent(m) /\ ~(changeCount > lastAttemptedSync)
    <3>1. wire' = calls /\ lastAttemptedSync' = lastAttemptedSync
      BY <1>5, <2>2 DEF AttemptResync
    <3>2. Retried'
      BY <1>1, <1>5, <3>1 DEF Retried
    <3>3. Passes(m)
      BY <1>2, <2>2, <3>1 DEF Passes, Behindhand
    <3> QED BY <1>2, <1>5, <3>1, <3>2, <3>3
  <2>3. CASE IsCurrent(m) /\ changeCount > lastAttemptedSync
    <3>1. lastAttemptedSync' = changeCount /\ SendResync(changeCount, calls)
      BY <1>5, <2>3 DEF AttemptResync
    <3>2. wire' = Append(calls, Event("SYNC", changeCount, Text))
      BY <3>1 DEF SendResync, SendsResync
    <3>3. isOpen /\ sentOpen
      BY <2>3 DEF IsCurrent, Failing
    <3>4. Resyncs(calls)
      BY <3>1, <3>2, <3>3 DEF Resyncs
    <3>5. \A v \in resyncs : v <= lastAttemptedSync'
      <4>1. \A v \in resyncs : v <= lastAttemptedSync /\ v \in Nat
        BY <1>1, <1>2, Bounds DEF Retried
      <4> QED BY <1>2, <3>1, <4>1
    <3>6. lastAttemptedSync' <= changeCount'
      BY <1>1, <1>2, <3>1
    <3>7. Retried'
      BY <1>1, <1>5, <3>5, <3>6 DEF Retried
    <3> QED BY <1>2, <1>5, <3>1, <3>4, <3>7
  <2> QED BY <2>1, <2>2, <2>3
<1> QED BY <1>3, <1>4, <1>5 DEF Fails

\* A step with a rejection keeps the invariant.
LEMMA RejectionKeeps ==
  ASSUME FilesInv, NEW k, SameSubscription, UNCHANGED <<serverVars, ask>>,
         NEW m, NEW calls \in Seq(CallType), Grows(wire, calls), Len(calls) = Len(wire),
         Failing(m), Fails(m, calls),
         Reads(replies, replies', k), replies' \in Seq(ReplyType),
         timeouts' \in 0 .. MaxTimeouts,
         wire' = calls /\ Passes(m) => StillAwaited(k) /\ StillBehindhand(k)
  PROVE  FilesInv'
<1>1. /\ Retried' /\ resyncs \subseteq resyncs' /\ resyncs' \subseteq Version
      /\ closes' \subseteq Session /\ lastAttemptedSync' \in {-1} \cup Version
      /\ (wire' = calls /\ Passes(m)) \/ Resyncs(calls)
  BY FailsDoes
<1>2. Typed /\ lastAttemptedSync \in Int
  BY Bounds DEF FilesInv, Typed
<1>3. CASE wire' = calls /\ Passes(m)
  <2>1. Typed'
    BY <1>1, <1>2, <1>3, RetryTyped
  <2>2. lastAttemptedSync' = lastAttemptedSync /\ lastAttemptedSync <= lastAttemptedSync'
    BY <1>2, <1>3 DEF Passes
  <2>3. isOpen /\ ~sentOpen => lastAttemptedSync' = -1
    BY <2>2 DEF FilesInv, Unsent
  <2>4. Grows(wire, wire') /\ Calls = {}
    <3>1. Len(calls) \in Nat
      BY SeqFacts
    <3>2. Len(wire) + 1 .. Len(calls) = {}
      BY <3>1
    <3> QED BY <1>3, <3>2 DEF Calls
  <2>5. StillAwaited(k) /\ StillBehindhand(k)
    BY <1>3
  <2> QED BY <1>1, <2>1, <2>2, <2>3, <2>4, <2>5, QuietKeeps
<1>4. CASE Resyncs(calls)
  <2>1. /\ isOpen /\ sentOpen /\ lastAttemptedSync' = changeCount
        /\ wire' = Append(calls, Event("SYNC", changeCount, Text))
    BY <1>4 DEF Resyncs
  <2>2. Event("SYNC", changeCount, Text) \in CallType
    BY <1>2, <2>1, Texts, Bounds, NewCall DEF Typed, Kind
  <2>3. wire' \in Seq(CallType)
    BY <2>1, <2>2
  <2>4. Typed'
    BY <1>1, <1>2, <2>3, RetryTyped
  <2> QED BY <1>1, <2>1, <2>4, ResyncKeeps
<1> QED BY <1>1, <1>3, <1>4

LEMMA AnswerFails ==
  ASSUME FilesInv, NEW i \in 1 .. Len(replies), NEW m, m = replies[i]
  PROVE  m \in ReplyType /\ Told(m) /\ Failing(m)
<1>1. m \in ReplyType /\ Told(m)
  BY SeqFacts DEF FilesInv, Typed, AnswersTold
<1>2. isOpen /\ ~sentOpen => m.session # session
  BY DEF FilesInv, Unsent
<1> QED BY <1>1, <1>2 DEF ReplyType, Told, Failing

LEMMA CallFails ==
  ASSUME FilesInv, NEW i \in 1 .. Len(wire), NEW m, m = wire[i], m.awaited
  PROVE  m \in CallType /\ Failing(m)
<1>1. m \in CallType /\ Meant(m)
  BY SeqFacts DEF FilesInv, Typed, CallsMeant
<1>2. isOpen /\ ~sentOpen => m.session # session
  BY <1>1 DEF FilesInv, Unsent, Meant
<1> QED BY <1>1, <1>2 DEF CallType, Meant, Failing

\* The answer that is read.
LEMMA ReadsTail ==
  ASSUME Typed, replies # <<>>, replies' = Tail(replies)
  PROVE  /\ Reads(replies, replies', 1) /\ replies' \in Seq(ReplyType)
         /\ Head(replies) = replies[1] /\ 1 \in 1 .. Len(replies)
         /\ \A j \in 1 .. Len(replies') : replies'[j] = replies[j + 1]
<1>1. PICK w, r : w \in Seq(ReplyType) /\ w = replies /\ r = replies'
  BY DEF Typed
<1>2. w # <<>> /\ r = Tail(w)
  BY <1>1
<1>3. /\ r \in Seq(ReplyType) /\ Len(w) \in Nat /\ Len(w) >= 1 /\ Len(r) = Len(w) - 1
      /\ Head(w) = w[1]
      /\ \A i \in 1 .. Len(r) : r[i] = w[i + 1]
  BY <1>1, <1>2, TailFacts
<1>4. Reads(w, r, 1)
  BY <1>3 DEF Reads
<1> QED BY <1>1, <1>3, <1>4

LEMMA HandleReplyKeeps ==
  ASSUME FilesInv, HandleReply
  PROVE  FilesInv'
<1>1. /\ Typed /\ Retried /\ replies # <<>> /\ replies' = Tail(replies)
      /\ UNCHANGED <<subscriptionVars, timeouts, serverVars, ask>>
  BY DEF HandleReply, FilesInv
<1>2. /\ Reads(replies, replies', 1) /\ replies' \in Seq(ReplyType)
      /\ Head(replies) = replies[1] /\ 1 \in 1 .. Len(replies)
      /\ \A j \in 1 .. Len(replies') : replies'[j] = replies[j + 1]
  BY <1>1, ReadsTail
<1>3. PICK m : m = replies[1]
  OBVIOUS
<1>4. m \in ReplyType /\ Told(m) /\ Failing(m)
  BY <1>2, <1>3, AnswerFails
<1>5. \/ ~m.awaited /\ UNCHANGED <<retryVars, wire>>
      \/ m.awaited /\ m.ok /\ Succeeds(m)
      \/ m.awaited /\ ~m.ok /\ Fails(m, wire)
  BY <1>2, <1>3 DEF HandleReply
<1>6. SameSubscription /\ UNCHANGED <<serverVars, ask>> /\ timeouts' \in 0 .. MaxTimeouts
  BY <1>1 DEF SameSubscription, subscriptionVars, Typed
<1>7. wire \in Seq(CallType) /\ Grows(wire, wire) /\ Len(wire) + 1 .. Len(wire) = {}
  BY <1>1, GrowsNot DEF Typed
<1>8. wire' = wire => StillAwaited(1)
  BY <1>2 DEF StillAwaited
<1>9. /\ lastAttemptedSync \in {-1} \cup Version /\ lastAttemptedSync \in Int
      /\ changeCount \in Nat /\ lastAttemptedSync <= changeCount
      /\ resyncs \subseteq Version /\ closes \subseteq Session
      /\ isOpen /\ ~sentOpen => lastAttemptedSync = -1 /\ m.session # session
  <2>1. isOpen /\ ~sentOpen => lastAttemptedSync = -1 /\ m.session # session
    BY <1>2, <1>3 DEF FilesInv, Unsent
  <2> QED BY <1>1, <2>1, Bounds DEF Typed, Retried
<1>10. /\ isOpen' = isOpen /\ session' = session /\ changeCount' = changeCount
  BY <1>6 DEF SameSubscription
<1>11. CASE ~m.awaited /\ UNCHANGED <<retryVars, wire>>
  <2>1. lastAttemptedSync' = lastAttemptedSync /\ resyncs' = resyncs /\ closes' = closes
        /\ wire' = wire
    BY <1>11 DEF retryVars
  <2>2. Retried'
    BY <1>1, <1>10, <2>1 DEF Retried
  <2>3. Typed'
    BY <1>1, <1>2, <1>6, <1>7, <1>9, <2>1, RetryTyped
  <2>4. StillBehindhand(1)
    BY <1>3, <1>10, <1>11, <2>1 DEF StillBehindhand, Behindhand
  <2>5. Grows(wire, wire') /\ Calls = {} /\ StillAwaited(1)
    BY <1>7, <1>8, <2>1 DEF Calls
  <2>6. lastAttemptedSync <= lastAttemptedSync'
    BY <1>9, <2>1
  <2> QED BY <1>2, <1>6, <1>9, <2>1, <2>2, <2>3, <2>4, <2>5, <2>6, QuietKeeps
<1>12. CASE m.awaited /\ m.ok /\ Succeeds(m)
  <2>1. resyncs' = resyncs /\ closes' = closes /\ wire' = wire
    BY <1>12 DEF Succeeds
  <2>2. \/ lastAttemptedSync' = lastAttemptedSync
        \/ /\ lastAttemptedSync' = m.version /\ m.version > lastAttemptedSync
           /\ isOpen /\ m.session = session /\ m.kind # "CLOSE"
    BY <1>12 DEF Succeeds, UpdateServerVersion, IsCurrent
  <2>3. m.kind # "CLOSE" => m.version \in Version /\ m.version \in Nat
    BY <1>4, Bounds DEF Told
  <2>4. m.kind # "CLOSE" /\ m.session = session => m.version <= changeCount
    BY <1>4 DEF Told
  <2>5. /\ lastAttemptedSync' \in {-1} \cup Version /\ lastAttemptedSync <= lastAttemptedSync'
        /\ lastAttemptedSync' <= changeCount /\ lastAttemptedSync' \in Int
    <3>1. CASE lastAttemptedSync' = lastAttemptedSync
      BY <1>9, <3>1
    <3>2. CASE /\ lastAttemptedSync' = m.version /\ m.version > lastAttemptedSync
               /\ isOpen /\ m.session = session /\ m.kind # "CLOSE"
      BY <1>9, <2>3, <2>4, <3>2
    <3> QED BY <2>2, <3>1, <3>2
  <2>6. Retried'
    <3>1. \A v \in resyncs : v <= lastAttemptedSync'
      <4>1. \A v \in resyncs : v <= lastAttemptedSync /\ v \in Nat
        BY <1>1, <1>9, Bounds DEF Retried
      <4> QED BY <1>9, <2>5, <4>1
    <3> QED BY <1>1, <1>10, <2>1, <2>5, <3>1 DEF Retried
  <2>7. Typed'
    BY <1>1, <1>2, <1>6, <1>7, <1>9, <2>1, <2>5, RetryTyped
  <2>8. isOpen /\ ~sentOpen => lastAttemptedSync' = -1
    BY <1>9, <2>2
  <2>9. StillBehindhand(1)
    <3>1. ASSUME Behindhand, ~Behindhand'
          PROVE  ~Older(m)
      <4>1. lastAttemptedSync' = changeCount /\ lastAttemptedSync # changeCount
        BY <1>9, <1>10, <2>5, <3>1 DEF Behindhand
      <4>2. m.version = changeCount /\ m.session = session /\ m.kind # "CLOSE"
        BY <2>2, <4>1
      <4>3. m.kind \in {"OPEN", "EDIT", "SYNC", "SAVE"}
        BY <1>4, <4>2 DEF Told, ReplyType, Kind
      <4> QED BY <1>9, <4>2, <4>3 DEF Older
    <3> QED BY <1>3, <1>12, <3>1 DEF StillBehindhand
  <2>10. Grows(wire, wire') /\ Calls = {} /\ StillAwaited(1)
    BY <1>7, <1>8, <2>1 DEF Calls
  <2> QED BY <1>2, <1>6, <2>1, <2>5, <2>6, <2>7, <2>8, <2>9, <2>10, QuietKeeps
<1>13. CASE m.awaited /\ ~m.ok /\ Fails(m, wire)
  <2>1. ASSUME wire' = wire, Passes(m)
        PROVE  StillAwaited(1) /\ StillBehindhand(1)
    <3>1. lastAttemptedSync' = lastAttemptedSync
      BY <2>1 DEF Passes
    <3>2. StillBehindhand(1)
      BY <1>3, <1>10, <2>1, <3>1 DEF StillBehindhand, Behindhand, Passes
    <3> QED BY <1>8, <2>1, <3>2
  <2>2. Fails(m, wire)
    BY <1>13
  <2> QED BY <1>2, <1>4, <1>6, <1>7, <2>1, <2>2, RejectionKeeps
<1> QED BY <1>5, <1>11, <1>12, <1>13

LEMMA TimesOutKeeps ==
  ASSUME FilesInv, TimesOut
  PROVE  FilesInv'
<1>1. /\ Typed /\ timeouts < MaxTimeouts /\ timeouts' = timeouts + 1
      /\ UNCHANGED <<subscriptionVars, serverVars, ask>>
  BY DEF TimesOut, FilesInv
<1>2. SameSubscription /\ UNCHANGED <<serverVars, ask>> /\ timeouts' \in 0 .. MaxTimeouts
  <2>1. timeouts' \in 0 .. MaxTimeouts
    <3>1. timeouts \in 0 .. MaxTimeouts
      BY <1>1 DEF Typed
    <3> QED BY <1>1, <3>1, Bounds
  <2> QED BY <1>1, <2>1 DEF SameSubscription, subscriptionVars
<1>3. wire \in Seq(CallType) /\ replies \in Seq(ReplyType)
  BY <1>1 DEF Typed
<1>4. isOpen' = isOpen /\ changeCount' = changeCount
  BY <1>2 DEF SameSubscription
<1>5. ASSUME NEW i \in DOMAIN wire, wire[i].awaited,
             Fails(wire[i], [wire EXCEPT ![i].awaited = FALSE]), UNCHANGED replies
      PROVE  FilesInv'
  <2>1. PICK m, calls : m = wire[i] /\ calls = [wire EXCEPT ![i].awaited = FALSE]
    OBVIOUS
  <2>2. i \in 1 .. Len(wire)
    BY <1>3, <1>5
  <2>3. Failing(m)
    BY <1>5, <2>1, <2>2, CallFails
  <2>4. /\ calls \in Seq(CallType) /\ Len(calls) = Len(wire)
        /\ \A j \in 1 .. Len(wire) : Like(calls[j], wire[j]) /\ (j # i => calls[j] = wire[j])
    <3>1. PICK w \in Seq(CallType) : w = wire
      BY <1>3
    <3>2. i \in 1 .. Len(w) /\ calls = Unawaited(w, i)
      BY <2>1, <2>2, <3>1 DEF Unawaited
    <3>3. /\ calls \in Seq(CallType) /\ Len(calls) = Len(w)
          /\ \A j \in 1 .. Len(w) : Like(calls[j], w[j]) /\ (j # i => calls[j] = w[j])
      BY <3>2, MarkCall
    <3> QED BY <3>1, <3>3
  <2>5. Grows(wire, calls)
    <3>1. Len(wire) \in Nat /\ Len(wire) <= Len(calls)
      BY <1>3, <2>4, SeqFacts
    <3> QED BY <2>4, <3>1 DEF Grows
  <2>6. Reads(replies, replies', 0) /\ replies' \in Seq(ReplyType)
    BY <1>1, <1>5, SameAnswers
  <2>7. ASSUME wire' = calls, Passes(m)
        PROVE  StillAwaited(0) /\ StillBehindhand(0)
    <3>1. lastAttemptedSync' = lastAttemptedSync
      BY <2>7 DEF Passes
    <3>2. StillBehindhand(0)
      BY <1>4, <3>1 DEF StillBehindhand, Behindhand
    <3>3. \A j \in 1 .. Len(wire) :
            Behindhand /\ Announces(wire[j]) /\ wire[j].awaited => wire'[j].awaited
      BY <2>1, <2>4, <2>7 DEF Passes, Announces
    <3>4. \A j \in 1 .. Len(replies') : j + 0 = j
      BY <2>6
    <3>5. StillAwaited(0)
      BY <1>5, <3>3, <3>4 DEF StillAwaited
    <3> QED BY <3>2, <3>5
  <2>8. Fails(m, calls)
    BY <1>5, <2>1
  <2> QED BY <1>2, <2>3, <2>4, <2>5, <2>6, <2>7, <2>8, RejectionKeeps
<1>6. ASSUME NEW i \in DOMAIN replies, Fails(replies[i], wire),
             replies' = [replies EXCEPT ![i].awaited = FALSE]
      PROVE  FilesInv'
  <2>1. PICK m : m = replies[i]
    OBVIOUS
  <2>2. i \in 1 .. Len(replies)
    BY <1>3, <1>6
  <2>3. Failing(m)
    BY <2>1, <2>2, AnswerFails
  <2>4. /\ replies' \in Seq(ReplyType) /\ Len(replies') = Len(replies)
        /\ \A j \in 1 .. Len(replies) :
             /\ replies'[j].kind = replies[j].kind /\ replies'[j].session = replies[j].session
             /\ replies'[j].version = replies[j].version /\ replies'[j].ok = replies[j].ok
             /\ j # i => replies'[j] = replies[j]
    <3>1. PICK w, r : w \in Seq(ReplyType) /\ w = replies /\ r = replies'
      BY <1>3
    <3>2. i \in 1 .. Len(w) /\ r = Unawaited(w, i)
      BY <1>6, <2>2, <3>1 DEF Unawaited
    <3>3. /\ r \in Seq(ReplyType) /\ Len(r) = Len(w)
          /\ \A j \in 1 .. Len(w) :
               /\ r[j].kind = w[j].kind /\ r[j].session = w[j].session
               /\ r[j].version = w[j].version /\ r[j].ok = w[j].ok
               /\ j # i => r[j] = w[j]
      BY <3>1, <3>2, MarkReply
    <3> QED BY <3>1, <3>3
  <2>5. Len(replies) \in Nat /\ \A j \in 1 .. Len(replies) : j + 0 = j
    BY <1>3, SeqFacts
  <2>6. Reads(replies, replies', 0)
    BY <2>4, <2>5 DEF Reads
  <2>7. ASSUME wire' = wire, Passes(m)
        PROVE  StillAwaited(0) /\ StillBehindhand(0)
    <3>1. lastAttemptedSync' = lastAttemptedSync
      BY <2>7 DEF Passes
    <3>2. StillBehindhand(0)
      BY <1>4, <3>1 DEF StillBehindhand, Behindhand
    <3>3. \A j \in 1 .. Len(replies') :
            Behindhand /\ replies[j].kind \in {"OPEN", "EDIT"}
              /\ replies[j].session = session /\ replies[j].awaited => replies'[j].awaited
      BY <2>1, <2>4, <2>7 DEF Passes
    <3>4. StillAwaited(0)
      BY <2>4, <2>5, <2>7, <3>3 DEF StillAwaited
    <3> QED BY <3>2, <3>4
  <2>8. Fails(m, wire) /\ Grows(wire, wire)
    BY <1>3, <1>6, <2>1, GrowsNot
  <2> QED BY <1>2, <1>3, <2>3, <2>4, <2>6, <2>7, <2>8, RejectionKeeps
<1> QED BY <1>5, <1>6 DEF TimesOut

-----------------------------------------------------------------------------
(* What the server does *)

\* The server takes call m.
Takes(m) ==
  /\ m \in CallType /\ Meant(m) /\ wire # <<>> /\ m = wire[1] /\ m = Head(wire)
  /\ wire' = Tail(wire)
  /\ UNCHANGED <<subscriptionVars, retryVars, timeouts>>

\* And does one of these.
Writes(m) ==
  /\ m.kind \in Data /\ Update(m.version, m.text) /\ Reply(m, TRUE)
  /\ lost' \in {FALSE, lost}
Refuses(m) == m.kind \in {"OPEN", "EDIT"} /\ Rejects(m)
Leaves(m) ==
  /\ m.kind = "SAVE" \/ (m.kind = "SYNC" /\ buffer # None /\ m.version < buffer.version)
  /\ Reply(m, TRUE) /\ UNCHANGED <<serverVars, ask>>
Drops(m) == m.kind = "CLOSE" /\ HandleClose(m)
Notes(m) == m.kind = "ASK" /\ HandleAsk(m)

Does(m) == Writes(m) \/ Refuses(m) \/ Leaves(m) \/ Drops(m) \/ Notes(m)

\* No edit is applied to a text it was not made for: the buffer has a text of
\* the session of the edit, and its version tells the text.
LEMMA HandleEventDoes ==
  ASSUME FilesInv, HandleEvent
  PROVE  \E m : Takes(m) /\ Does(m)
<1>1. PICK m : m = Head(wire)
  OBVIOUS
<1>2. /\ wire # <<>> /\ wire' = Tail(wire)
      /\ UNCHANGED <<subscriptionVars, retryVars, timeouts>>
      /\ \/ m.kind = "OPEN" /\ HandleOpen(m)
         \/ m.kind = "CLOSE" /\ HandleClose(m)
         \/ m.kind = "EDIT" /\ HandleEdit(m)
         \/ m.kind = "SAVE" /\ HandleSave(m)
         \/ m.kind = "SYNC" /\ HandleSync(m)
         \/ m.kind = "ASK" /\ HandleAsk(m)
  BY <1>1 DEF HandleEvent
<1>3. wire \in Seq(CallType) /\ Separated(wire, Holder, Sender) /\ Held
  BY DEF FilesInv, Typed
<1>4. m = wire[1] /\ m \in CallType /\ Meant(m)
  BY <1>1, <1>2, <1>3, TailFacts DEF FilesInv, CallsMeant
<1>5. Takes(m)
  BY <1>1, <1>2, <1>4 DEF Takes
<1> SUFFICES Does(m)
  BY <1>5
<1>6. CASE m.kind = "OPEN" /\ HandleOpen(m)
  BY <1>6 DEF HandleOpen, OpenBuffer, Does, Writes, Refuses, Data
<1>7. CASE m.kind = "EDIT" /\ HandleEdit(m)
  <2>1. ASSUME buffer # None, buffer.version = m.version - 1
        PROVE  buffer.text = <<m.session, m.version - 1>>
    <3>1. Holder = buffer.text[1] /\ Holder # 0
      <4>1. buffer.text[1] \in 1 .. session /\ session \in Nat
        BY <1>3, <2>1, Bounds DEF Held, FilesInv, Typed
      <4> QED BY <2>1, <4>1 DEF Holder
    <3>2. m.session = Holder
      BY <1>1, <1>2, <1>3, <1>7, <3>1, FirstSeparated DEF Bound, Data
    <3>3. buffer.text = <<buffer.text[1], buffer.version>>
      BY <1>3, <2>1 DEF Held
    <3> QED BY <2>1, <3>1, <3>2, <3>3
  <2>2. CASE /\ buffer # None /\ buffer.version = m.version - 1
             /\ Update(m.version, IF buffer.text = <<m.session, m.version - 1>>
                                    THEN m.text ELSE Mixed)
             /\ Reply(m, TRUE) /\ UNCHANGED lost
    <3>1. Update(m.version, m.text)
      BY <2>1, <2>2
    <3> QED BY <1>7, <2>2, <3>1 DEF Does, Writes, Data
  <2>3. CASE Rejects(m)
    BY <1>7, <2>3 DEF Does, Refuses
  <2> QED BY <1>7, <2>2, <2>3 DEF HandleEdit
<1>8. CASE m.kind = "SAVE" /\ HandleSave(m)
  BY <1>8 DEF HandleSave, Does, Leaves
<1>9. CASE m.kind = "SYNC" /\ HandleSync(m)
  BY <1>9 DEF HandleSync, OpenBuffer, SyncBuffer, Does, Writes, Leaves, Data
<1>10. CASE m.kind = "CLOSE" /\ HandleClose(m)
  BY <1>10 DEF Does, Drops
<1>11. CASE m.kind = "ASK" /\ HandleAsk(m)
  BY <1>11 DEF Does, Notes
<1> QED BY <1>2, <1>6, <1>7, <1>8, <1>9, <1>10, <1>11

LEMMA TakesTail ==
  ASSUME Typed, NEW m, Takes(m)
  PROVE  /\ wire \in Seq(CallType) /\ wire' \in Seq(CallType) /\ Len(wire) \in Nat
         /\ Len(wire) >= 1 /\ Len(wire') = Len(wire) - 1
         /\ \A i \in 1 .. Len(wire') : wire'[i] = wire[i + 1] /\ i + 1 \in 2 .. Len(wire)
         /\ \A i \in 2 .. Len(wire) : wire[i] = wire'[i - 1] /\ i - 1 \in 1 .. Len(wire')
         /\ session' = session /\ isOpen' = isOpen /\ changeCount' = changeCount
         /\ sentOpen' = sentOpen /\ lastAttemptedSync' = lastAttemptedSync
         /\ resyncs' = resyncs /\ closes' = closes /\ timeouts' = timeouts
<1>1. PICK w, r : w \in Seq(CallType) /\ w = wire /\ r = wire'
  BY DEF Typed
<1>2. w # <<>> /\ r = Tail(w)
  BY <1>1 DEF Takes
<1>3. /\ r \in Seq(CallType) /\ Len(w) \in Nat /\ Len(w) >= 1 /\ Len(r) = Len(w) - 1
      /\ \A i \in 1 .. Len(r) : r[i] = w[i + 1] /\ i + 1 \in 2 .. Len(w)
      /\ \A i \in 2 .. Len(w) : w[i] = r[i - 1] /\ i - 1 \in 1 .. Len(r)
  BY <1>1, <1>2, TailFacts
<1> QED BY <1>1, <1>3 DEF Takes, subscriptionVars, retryVars

\* What an answer to m says.
Replies(m, ok) ==
  /\ Len(replies) \in Nat /\ Len(replies') = Len(replies) + 1
  /\ \A i \in 1 .. Len(replies) : replies'[i] = replies[i]
  /\ replies'[Len(replies) + 1].kind = m.kind
  /\ replies'[Len(replies) + 1].session = m.session
  /\ replies'[Len(replies) + 1].version = m.version
  /\ replies'[Len(replies) + 1].ok = ok
  /\ replies'[Len(replies) + 1].awaited = m.awaited

LEMMA ReplyDoes ==
  ASSUME Typed, NEW m \in CallType, NEW ok \in BOOLEAN, Reply(m, ok)
  PROVE  replies' \in Seq(ReplyType) /\ Replies(m, ok)
<1>1. PICK e : e = [kind |-> m.kind, session |-> m.session, version |-> m.version,
                    ok |-> ok, awaited |-> m.awaited]
  OBVIOUS
<1>2. e \in ReplyType
  BY <1>1 DEF CallType, ReplyType
<1>3. PICK w, r : w \in Seq(ReplyType) /\ w = replies /\ r = replies'
  BY DEF Typed
<1>4. r = Append(w, e)
  BY <1>1, <1>3 DEF Reply
<1>5. /\ r \in Seq(ReplyType) /\ Len(r) = Len(w) + 1 /\ Len(w) \in Nat
      /\ r[Len(w) + 1] = e
      /\ \A i \in 1 .. Len(w) : r[i] = w[i]
  BY <1>3, <1>2, <1>4, AppendFacts
<1> QED BY <1>1, <1>3, <1>5 DEF Replies

\* The answers afterwards: one more, or the same after an ASK.
LEMMA DoesReply ==
  ASSUME Typed, NEW m \in CallType, Does(m)
  PROVE  /\ replies' \in Seq(ReplyType)
         /\ \/ m.kind = "ASK" /\ replies' = replies
            \/ m.kind # "ASK" /\ Replies(m, TRUE)
            \/ m.kind \in {"OPEN", "EDIT"} /\ Replies(m, FALSE)
<1>1. Writes(m) \/ Leaves(m) \/ Drops(m) => m.kind # "ASK" /\ Reply(m, TRUE)
  BY DEF Writes, Leaves, Drops, HandleClose, Data
<1>2. Refuses(m) => m.kind \in {"OPEN", "EDIT"} /\ Reply(m, FALSE)
  BY DEF Refuses, Rejects
<1>3. Notes(m) => m.kind = "ASK" /\ replies' = replies
  BY DEF Notes, HandleAsk
<1>4. replies \in Seq(ReplyType)
  BY DEF Typed
<1> QED BY <1>1, <1>2, <1>3, <1>4, ReplyDoes DEF Does

\* The buffer and the session of its text afterwards.
LEMMA DoesBuffer ==
  ASSUME Typed, Held, NEW m, Takes(m), Does(m)
  PROVE  /\ Held' /\ buffer' \in [version : Version, text : AnyText] \cup {None}
         /\ \/ Holder' = 0
            \/ Holder' = Holder /\ m.kind # "CLOSE"
            \/ Holder' = m.session /\ m.kind \in Data
<1>1. /\ session' = session /\ changeCount' = changeCount /\ m \in CallType /\ Meant(m)
      /\ session \in Nat /\ m.session \in Nat /\ m.session > 0
  <2>1. session' = session /\ changeCount' = changeCount
    BY TakesTail
  <2>2. m.session \in Session /\ m \in CallType /\ Meant(m)
    BY DEF Takes, CallType
  <2> QED BY <2>1, <2>2, Bounds DEF Typed, Session
<1>2. CASE Writes(m)
  <2>1. m.text = <<m.session, m.version>> /\ m.version \in Version /\ m.session <= session
        /\ (m.session = session => m.version <= changeCount)
    BY <1>1, <1>2 DEF Writes, Meant, Data
  <2>2. PICK b : b = [version |-> m.version, text |-> m.text]
    OBVIOUS
  <2>3. buffer' = b
    BY <1>2, <2>2 DEF Writes, Update
  <2>4. b \in [version : Version, text : AnyText]
    BY <1>1, <2>1, <2>2 DEF CallType
  <2>5. b.text = m.text /\ b.version = m.version /\ m.text[1] = m.session
    BY <2>1, <2>2
  <2>6. b # None
    BY <2>4, MixedIsNone
  <2>7. Held'
    BY <1>1, <2>1, <2>3, <2>5 DEF Held
  <2>8. Holder' = m.session
    BY <2>3, <2>5, <2>6 DEF Holder
  <2> QED BY <1>2, <2>3, <2>4, <2>7, <2>8 DEF Writes
<1>3. CASE buffer' = buffer /\ m.kind # "CLOSE"
  BY <1>1, <1>3 DEF Held, Holder, Typed
<1>4. CASE buffer' = None
  BY <1>4 DEF Held, Holder
<1>5. Refuses(m) \/ Leaves(m) \/ Notes(m) => buffer' = buffer /\ m.kind # "CLOSE"
  BY DEF Refuses, Leaves, Notes, Rejects, HandleAsk, serverVars
<1>6. Drops(m) => buffer' = None
  BY DEF Drops, HandleClose
<1> QED BY <1>2, <1>3, <1>4, <1>5, <1>6 DEF Does

LEMMA Restaged ==
  ASSUME NEW a \in AskType, NEW s \in {"none", "sent", "waiting", "reached", "answered"},
         NEW x, x = [a EXCEPT !.stage = s]
  PROVE  /\ x \in AskType /\ x.stage = s /\ x.session = a.session /\ x.version = a.version
         /\ x.answer = a.answer
  BY DEF AskType

\* The request afterwards.
LEMMA DoesAsk ==
  ASSUME Typed, NEW m, Does(m)
  PROVE  /\ ask' \in AskType /\ ask'.session = ask.session /\ ask'.version = ask.version
         /\ ask'.answer = ask.answer
         /\ \/ ask' = ask /\ m.kind # "ASK"
            \/ m.kind # "ASK" /\ ask.stage = "waiting" /\ ask'.stage \in {"reached", "answered"}
            \/ m.kind = "ASK" /\ ask'.stage \in {"waiting", "reached", "answered"}
<1>1. PICK a \in AskType : a = ask
  BY DEF Typed
<1>2. PICK x : x = ask'
  OBVIOUS
<1>3. CASE x = a /\ m.kind # "ASK"
  BY <1>1, <1>2, <1>3
<1>4. ASSUME NEW s \in {"waiting", "reached", "answered"}, x = [a EXCEPT !.stage = s],
             \/ m.kind # "ASK" /\ a.stage = "waiting" /\ s # "waiting"
             \/ m.kind = "ASK"
      PROVE  /\ ask' \in AskType /\ ask'.session = ask.session /\ ask'.version = ask.version
             /\ ask'.answer = ask.answer
             /\ \/ m.kind # "ASK" /\ ask.stage = "waiting" /\ ask'.stage \in {"reached", "answered"}
                \/ m.kind = "ASK" /\ ask'.stage \in {"waiting", "reached", "answered"}
  <2>1. /\ x \in AskType /\ x.stage = s /\ x.session = a.session /\ x.version = a.version
        /\ x.answer = a.answer
    BY <1>4, Restaged
  <2> QED BY <1>1, <1>2, <1>4, <2>1
<1>5. CASE Writes(m)
  <2>1. m.kind # "ASK"
    BY <1>5 DEF Writes, Data
  <2>2. x = IF a.stage = "waiting" /\ a.version <= m.version
              THEN [a EXCEPT !.stage = IF a.version = m.version THEN "reached" ELSE "answered"]
              ELSE a
    BY <1>1, <1>2, <1>5 DEF Writes, Update, CheckRequests
  <2>3. CASE a.stage = "waiting" /\ a.version <= m.version
    <3>1. PICK s \in {"reached", "answered"} :
            s = IF a.version = m.version THEN "reached" ELSE "answered"
      OBVIOUS
    <3>2. x = [a EXCEPT !.stage = s]
      BY <2>2, <2>3, <3>1
    <3>3. s \in {"waiting", "reached", "answered"} /\ s # "waiting"
      OBVIOUS
    <3> QED BY <1>4, <2>1, <2>3, <3>2, <3>3
  <2>4. CASE ~(a.stage = "waiting" /\ a.version <= m.version)
    BY <1>3, <2>1, <2>2, <2>4
  <2> QED BY <2>3, <2>4
<1>6. CASE Notes(m)
  <2>1. m.kind = "ASK"
    BY <1>6 DEF Notes
  <2>2. PICK s \in {"waiting", "reached", "answered"} :
          s = IF buffer.version = m.version THEN "reached"
              ELSE IF buffer.version > m.version THEN "answered" ELSE "waiting"
    OBVIOUS
  <2>3. x = [a EXCEPT !.stage = s]
    BY <1>1, <1>2, <1>6, <2>2 DEF Notes, HandleAsk
  <2> QED BY <1>4, <2>1, <2>3
<1>7. Refuses(m) \/ Leaves(m) \/ Drops(m) => x = a /\ m.kind # "ASK"
  BY <1>1, <1>2 DEF Refuses, Rejects, Leaves, Drops, HandleClose
<1> QED BY <1>3, <1>5, <1>6, <1>7 DEF Does

LEMMA DoesKeepsAsking ==
  ASSUME FilesInv, NEW m, Takes(m), Does(m)
  PROVE  Asking' /\ AnswersMatch'
<1>1. /\ Typed /\ Asking /\ AnswersMatch /\ Held /\ session' = session
      /\ m = wire[1] /\ m = Head(wire) /\ wire # <<>>
      /\ Separated(wire, Holder, Sender)
  BY TakesTail DEF FilesInv, Takes
<1>2. /\ wire \in Seq(CallType) /\ Len(wire) \in Nat
      /\ Len(wire) >= 1 /\ Len(wire') = Len(wire) - 1
      /\ \A i \in 1 .. Len(wire') : wire'[i] = wire[i + 1] /\ i + 1 \in 2 .. Len(wire)
  BY <1>1, TakesTail
<1>3. /\ ask'.session = ask.session /\ ask'.version = ask.version /\ ask'.answer = ask.answer
      /\ \/ ask' = ask /\ m.kind # "ASK"
         \/ m.kind # "ASK" /\ ask.stage = "waiting" /\ ask'.stage \in {"reached", "answered"}
         \/ m.kind = "ASK" /\ ask'.stage \in {"waiting", "reached", "answered"}
  BY <1>1, DoesAsk
<1>4. \/ Holder' = 0
      \/ Holder' = Holder /\ m.kind # "CLOSE"
      \/ Holder' = m.session /\ m.kind \in Data
  BY <1>1, DoesBuffer
<1>5. 1 \in 1 .. Len(wire) /\ \A i \in 1 .. Len(wire') : i + 1 \in 1 .. Len(wire) /\ i + 1 > 1
  BY <1>2
<1>6. m.kind = "ASK" =>
        /\ ask.stage = "sent" /\ ask.session = m.session
        /\ \A j \in 1 .. Len(wire) :
             /\ wire[j].kind = "ASK" => j = 1
             /\ j > 1 /\ wire[j].kind \in Data => wire[j].session >= ask.session
  BY <1>1, <1>5 DEF Asking
<1>7. ASSUME NEW i \in 1 .. Len(wire'), wire'[i].kind = "ASK"
      PROVE  /\ ask'.stage = "sent" /\ ask'.session = wire'[i].session
             /\ \A j \in 1 .. Len(wire') :
                  /\ wire'[j].kind = "ASK" => j = i
                  /\ j > i /\ wire'[j].kind \in Data => wire'[j].session >= ask'.session
  <2>1. i + 1 \in 1 .. Len(wire) /\ wire[i + 1].kind = "ASK" /\ wire'[i] = wire[i + 1]
    BY <1>2, <1>5, <1>7
  <2>2. /\ ask.stage = "sent" /\ ask.session = wire[i + 1].session
        /\ \A j \in 1 .. Len(wire) :
             /\ wire[j].kind = "ASK" => j = i + 1
             /\ j > i + 1 /\ wire[j].kind \in Data => wire[j].session >= ask.session
    BY <1>1, <2>1 DEF Asking
  <2>3. 1 # i + 1
    BY <1>7
  <2>4. m.kind # "ASK"
    BY <1>1, <1>5, <2>2, <2>3
  <2>5. ask' = ask
    BY <1>3, <2>2, <2>4
  <2>6. ASSUME NEW j \in 1 .. Len(wire')
        PROVE  /\ wire'[j].kind = "ASK" => j = i
               /\ j > i /\ wire'[j].kind \in Data => wire'[j].session >= ask.session
    <3>1. wire'[j] = wire[j + 1] /\ j + 1 \in 1 .. Len(wire)
      BY <1>2, <1>5
    <3>2. wire[j + 1].kind = "ASK" => j + 1 = i + 1
      BY <2>2, <3>1
    <3>3. j + 1 > i + 1 /\ wire[j + 1].kind \in Data => wire[j + 1].session >= ask.session
      BY <2>2, <3>1
    <3> QED BY <3>1, <3>2, <3>3
  <2> QED BY <2>1, <2>2, <2>5, <2>6
<1>8. ASSUME ask'.stage \in {"waiting", "reached"}
      PROVE  /\ Holder' # 0 => Holder' >= ask.session
             /\ \A i \in 1 .. Len(wire') : wire'[i].kind \in Data => wire'[i].session >= ask.session
  <2>1. CASE ask.stage \in {"waiting", "reached"} /\ m.kind # "ASK"
    <3>1. /\ Holder # 0 => Holder >= ask.session
          /\ \A i \in 1 .. Len(wire) : wire[i].kind \in Data => wire[i].session >= ask.session
      BY <1>1, <2>1 DEF Asking
    <3>2. m.kind \in Data => m.session >= ask.session
      BY <1>1, <1>5, <3>1
    <3> QED BY <1>2, <1>4, <1>5, <3>1, <3>2
  <2>2. CASE m.kind = "ASK"
    <3>1. m.kind \in Bound /\ m.kind \notin Data
      BY <2>2 DEF Bound, Data
    <3>2. Holder # 0 => Holder = m.session
      BY <1>1, <1>2, <3>1, FirstSeparated
    <3>3. ask.session \in Nat
      BY <1>1, Bounds DEF Typed, AskType
    <3>4. Holder' # 0 => Holder' = ask.session
      BY <1>4, <1>6, <2>2, <3>1, <3>2
    <3> QED BY <1>2, <1>5, <1>6, <2>2, <3>3, <3>4
  <2> QED BY <1>3, <1>8, <2>1, <2>2
<1>9. ask'.stage = "none" => ask' = NoAsk
  BY <1>1, <1>3 DEF Asking
<1>10. ask'.stage # "answered" => ask'.answer = Mixed
  BY <1>1, <1>3, <1>6 DEF Asking
<1>11. ask'.session <= session'
  BY <1>1, <1>3 DEF Asking
<1>12. Asking'
  BY <1>3, <1>7, <1>8, <1>9, <1>10, <1>11 DEF Asking
<1> QED BY <1>1, <1>3, <1>12 DEF AnswersMatch

LEMMA DoesKeeps ==
  ASSUME FilesInv, NEW m, Takes(m), Does(m)
  PROVE  /\ Typed' /\ CallsMeant' /\ AnswersTold' /\ Held' /\ Retried' /\ Unsent'
         /\ Separated(wire, Holder, Sender)'
<1>1. /\ Typed /\ CallsMeant /\ AnswersTold /\ Held /\ Retried
      /\ m = wire[1] /\ m = Head(wire) /\ wire # <<>> /\ m \in CallType /\ Meant(m)
      /\ Separated(wire, Holder, Sender)
  BY DEF FilesInv, Takes
<1>2. /\ wire \in Seq(CallType) /\ wire' \in Seq(CallType) /\ Len(wire) \in Nat
      /\ Len(wire) >= 1 /\ Len(wire') = Len(wire) - 1
      /\ \A i \in 1 .. Len(wire') : wire'[i] = wire[i + 1] /\ i + 1 \in 2 .. Len(wire)
      /\ session' = session /\ isOpen' = isOpen /\ changeCount' = changeCount
      /\ sentOpen' = sentOpen /\ lastAttemptedSync' = lastAttemptedSync
      /\ resyncs' = resyncs /\ closes' = closes /\ timeouts' = timeouts
  BY <1>1, TakesTail
<1>3. \A i \in 1 .. Len(wire') : i + 1 \in 1 .. Len(wire)
  BY <1>2
<1>4. /\ Held' /\ buffer' \in [version : Version, text : AnyText] \cup {None}
      /\ \/ Holder' = 0
         \/ Holder' = Holder /\ m.kind # "CLOSE"
         \/ Holder' = m.session /\ m.kind \in Data
  BY <1>1, DoesBuffer
<1>5. /\ replies' \in Seq(ReplyType)
      /\ \/ m.kind = "ASK" /\ replies' = replies
         \/ m.kind # "ASK" /\ Replies(m, TRUE)
         \/ m.kind \in {"OPEN", "EDIT"} /\ Replies(m, FALSE)
  BY <1>1, DoesReply
<1>6. ask' \in AskType
  BY <1>1, DoesAsk
<1>7. lost' \in BOOLEAN
  <2>1. Writes(m) \/ Refuses(m) \/ Leaves(m) \/ Notes(m) => lost' \in BOOLEAN
    BY <1>1 DEF Writes, Refuses, Rejects, Leaves, Notes, HandleAsk, serverVars, Typed
  <2>2. Drops(m) => lost' \in BOOLEAN
    BY <1>1 DEF Drops, HandleClose, Typed
  <2> QED BY <2>1, <2>2 DEF Does
<1>8. Typed'
  <2>1. /\ session' \in 0 .. MaxSession /\ (isOpen' => session' > 0)
        /\ isOpen' \in BOOLEAN /\ sentOpen' \in BOOLEAN /\ changeCount' \in Version
        /\ lastAttemptedSync' \in {-1} \cup Version
        /\ resyncs' \subseteq Version /\ closes' \subseteq Session
        /\ timeouts' \in 0 .. MaxTimeouts
    BY <1>1, <1>2 DEF Typed
  <2> QED BY <1>2, <1>4, <1>5, <1>6, <1>7, <2>1 DEF Typed
<1>9. Retried'
  BY <1>1, <1>2 DEF Retried
<1>10. CallsMeant'
  <2> SUFFICES ASSUME NEW i \in 1 .. Len(wire')
               PROVE  Meant(wire[i])'
    BY DEF CallsMeant
  <2>1. PICK x : x = wire'[i]
    OBVIOUS
  <2>2. Meant(x)
    BY <1>1, <1>2, <1>3, <2>1 DEF CallsMeant
  <2>3. Meant(x)'
    BY <1>2, <2>2 DEF Meant
  <2> QED BY <2>1, <2>3
<1>11. AnswersTold'
  <2>1. CASE replies' = replies
    <3>1. \A x : Told(x) => Told(x)'
      BY <1>2 DEF Told
    <3> SUFFICES ASSUME NEW i \in 1 .. Len(replies')
                 PROVE  Told(replies[i])'
      BY DEF AnswersTold
    <3>2. PICK x : x = replies'[i]
      OBVIOUS
    <3>3. Told(x)
      BY <1>1, <2>1, <3>2 DEF AnswersTold
    <3>4. Told(x)'
      BY <3>1, <3>3
    <3> QED BY <3>2, <3>4
  <2>2. ASSUME NEW ok \in BOOLEAN, Replies(m, ok), m.kind # "ASK", ok \/ m.kind \in {"OPEN", "EDIT"}
        PROVE  AnswersTold'
    <3> SUFFICES ASSUME NEW i \in 1 .. Len(replies')
                 PROVE  Told(replies[i])'
      BY DEF AnswersTold
    <3>1. PICK x : x = replies'[i]
      OBVIOUS
    <3>2. CASE i \in 1 .. Len(replies)
      <4>1. Told(x)
        BY <1>1, <2>2, <3>1, <3>2 DEF AnswersTold, Replies
      <4>2. Told(x)'
        BY <1>2, <4>1 DEF Told
      <4> QED BY <3>1, <4>2
    <3>3. CASE i = Len(replies) + 1
      <4>1. x.kind = m.kind /\ x.session = m.session /\ x.version = m.version /\ x.ok = ok
        BY <2>2, <3>1, <3>3 DEF Replies
      <4>2. Told(x)'
        BY <1>1, <1>2, <2>2, <4>1 DEF Told, Meant
      <4> QED BY <3>1, <4>2
    <3> QED BY <2>2, <3>2, <3>3 DEF Replies
  <2> QED BY <1>5, <2>1, <2>2
<1>12. Unsent'
  <2> SUFFICES ASSUME isOpen, ~sentOpen
               PROVE  /\ lastAttemptedSync = -1
                      /\ \A i \in 1 .. Len(wire') :
                           wire'[i].session = session => wire'[i].kind = "ASK"
                      /\ \A i \in 1 .. Len(replies') : replies'[i].session # session
                      /\ Holder' # session
    BY <1>2 DEF Unsent
  <2>1. /\ lastAttemptedSync = -1
        /\ \A i \in 1 .. Len(wire) : wire[i].session = session => wire[i].kind = "ASK"
        /\ \A i \in 1 .. Len(replies) : replies[i].session # session
        /\ Holder # session
    BY DEF FilesInv, Unsent
  <2>2. 1 \in 1 .. Len(wire)
    BY <1>2
  <2>3. m.kind # "ASK" => m.session # session
    BY <1>1, <2>1, <2>2
  <2>4. session # 0
    BY <1>1 DEF Typed
  <2>5. Holder' # session
    BY <1>4, <2>1, <2>3, <2>4 DEF Data
  <2>6. \A i \in 1 .. Len(wire') : wire'[i].session = session => wire'[i].kind = "ASK"
    BY <1>2, <1>3, <2>1
  <2>7. \A i \in 1 .. Len(replies') : replies'[i].session # session
    <3>1. CASE replies' = replies
      BY <2>1, <3>1
    <3>2. ASSUME NEW ok, Replies(m, ok), m.kind # "ASK"
          PROVE  \A i \in 1 .. Len(replies') : replies'[i].session # session
      BY <2>1, <2>3, <3>2 DEF Replies
    <3> QED BY <1>5, <3>1, <3>2
  <2> QED BY <2>1, <2>5, <2>6, <2>7
<1>13. Separated(wire, Holder, Sender)'
  <2>1. Sender' = Sender
    BY <1>2 DEF Sender
  <2>2. PICK w, r, b, c, n :
          w \in Seq(CallType) /\ w = wire /\ r = wire' /\ b = Holder /\ c = Holder' /\ n = Sender
    BY <1>2
  <2>3. w # <<>> /\ r = Tail(w) /\ m = Head(w) /\ Separated(w, b, n)
    BY <1>1, <2>2 DEF Takes
  <2>4. c = 0 \/ (c = b /\ m.kind # "CLOSE") \/ (c = m.session /\ m.kind \in Data)
    BY <1>4, <2>2
  <2>5. Separated(r, c, n)
    BY <1>1, <2>2, <2>3, <2>4, SeparatedTail
  <2> QED BY <2>1, <2>2, <2>5
<1> QED BY <1>4, <1>8, <1>9, <1>10, <1>11, <1>12, <1>13

\* What is still on its way keeps settling the version.
LEMMA TakenBehind ==
  ASSUME Typed, NEW m, Takes(m), NEW p \in 1 .. Len(wire), Behind(p)
  PROVE  /\ Behind(p - 1)' /\ (Resynced(p) => Resynced(p - 1)')
<1>1. /\ Len(wire) \in Nat /\ Len(wire') = Len(wire) - 1
      /\ \A i \in 1 .. Len(wire') : wire'[i] = wire[i + 1]
      /\ \A i \in 2 .. Len(wire) : wire[i] = wire'[i - 1]
      /\ session' = session /\ changeCount' = changeCount
  BY TakesTail
<1>2. ASSUME NEW j \in (p - 1) + 1 .. Len(wire')
      PROVE  Follows(wire[j])'
  <2>1. wire'[j] = wire[j + 1] /\ j + 1 \in p + 1 .. Len(wire)
    BY <1>1
  <2>2. PICK x : x = wire'[j]
    OBVIOUS
  <2>3. Follows(x)
    BY <2>1, <2>2 DEF Behind
  <2>4. Follows(x)'
    BY <1>1, <2>3 DEF Follows
  <2> QED BY <2>2, <2>4
<1>3. ASSUME Resynced(p)
      PROVE  Resynced(p - 1)'
  <2>1. PICK j \in p + 1 .. Len(wire) : wire[j].kind = "SYNC"
    BY <1>3 DEF Resynced
  <2>2. j - 1 \in (p - 1) + 1 .. Len(wire') /\ wire'[j - 1].kind = "SYNC"
    BY <1>1, <2>1
  <2> QED BY <2>2 DEF Resynced
<1> QED BY <1>2, <1>3 DEF Behind

\* A call before the announcement leaves it where it is.
LEMMA TakenBefore ==
  ASSUME FilesInv, NEW m, Takes(m), Does(m), NEW p \in 2 .. Len(wire), Announcing(p)
  PROVE  p - 1 \in 1 .. Len(wire') /\ Announcing(p - 1)'
<1>1. /\ Typed /\ m = wire[1] /\ m \in CallType
  BY DEF FilesInv, Takes
<1>2. /\ Len(wire) \in Nat /\ Len(wire') = Len(wire) - 1
      /\ \A i \in 1 .. Len(wire') : wire'[i] = wire[i + 1]
      /\ \A i \in 2 .. Len(wire) : wire[i] = wire'[i - 1] /\ i - 1 \in 1 .. Len(wire')
      /\ session' = session /\ changeCount' = changeCount
      /\ lastAttemptedSync' = lastAttemptedSync
  BY <1>1, TakesTail
<1>3. p \in 1 .. Len(wire) /\ p - 1 \in 1 .. Len(wire') /\ wire'[p - 1] = wire[p]
  BY <1>2
<1>4. \A x : (Older(x) => Older(x)') /\ (Announces(x) => Announces(x)')
  BY <1>2 DEF Older, Announces
<1>5. Announces(wire[p - 1])'
  <2>1. PICK x : x = wire'[p - 1]
    OBVIOUS
  <2>2. Announces(x)
    BY <1>3, <2>1 DEF Announcing
  <2>3. Announces(x)'
    BY <1>4, <2>2
  <2> QED BY <2>1, <2>3
<1>6. Behind(p - 1)' /\ (Resynced(p) => Resynced(p - 1)')
  <2>1. Behind(p)
    BY DEF Announcing
  <2> QED BY <1>1, <1>3, <2>1, TakenBehind
<1>7. ASSUME NEW j \in 1 .. (p - 1) - 1
      PROVE  Older(wire[j])'
  <2>1. p \in Int /\ j \in Int /\ 1 <= j /\ j <= p - 2 /\ p <= Len(wire)
    BY <1>2
  <2>2. j \in 1 .. Len(wire') /\ j + 1 \in 1 .. p - 1
    BY <1>2, <2>1
  <2>3. PICK x : x = wire'[j]
    OBVIOUS
  <2>4. x = wire[j + 1]
    BY <1>2, <2>2, <2>3
  <2>5. Older(x)
    BY <2>2, <2>4 DEF Announcing
  <2>6. Older(x)'
    BY <1>4, <2>5
  <2> QED BY <2>3, <2>6
<1>8. Older(m)
  <2>1. 1 \in 1 .. p - 1
    OBVIOUS
  <2> QED BY <1>1, <2>1 DEF Announcing
<1>9. ASSUME NEW j \in 1 .. Len(replies')
      PROVE  Older(replies[j])'
  <2>1. PICK x : x = replies'[j]
    OBVIOUS
  <2>2. \A i \in 1 .. Len(replies) : Older(replies[i])
    BY DEF Announcing
  <2>3. CASE replies' = replies
    BY <1>4, <2>1, <2>2, <2>3
  <2>4. ASSUME NEW ok, Replies(m, ok)
        PROVE  Older(x)
    <3>1. CASE j \in 1 .. Len(replies)
      BY <2>1, <2>2, <2>4, <3>1 DEF Replies
    <3>2. CASE j = Len(replies) + 1
      <4>1. x.kind = m.kind /\ x.session = m.session /\ x.version = m.version
        BY <2>1, <2>4, <3>2 DEF Replies
      <4> QED BY <1>8, <4>1 DEF Older
    <3> QED BY <2>4, <3>1, <3>2 DEF Replies
  <2>5. Older(x)
    BY <1>1, <2>1, <2>2, <2>4, DoesReply
  <2>6. Older(x)'
    BY <1>4, <2>5
  <2> QED BY <2>1, <2>6
<1>10. Resynced(p - 1)' \/ (wire'[p - 1].awaited /\ lastAttemptedSync' < changeCount')
  BY <1>2, <1>3, <1>6 DEF Announcing
<1> QED BY <1>3, <1>5, <1>6, <1>7, <1>9, <1>10 DEF Announcing

\* The announcement is taken, or a SYNC of the version: the buffer has the
\* editor's text, or the client will learn of the rejection.
LEMMA WritesSyncs ==
  ASSUME Typed, NEW m, Takes(m), Writes(m), m.session = session, m.version = changeCount
  PROVE  InSync'
<1>1. session' = session /\ changeCount' = changeCount
  BY TakesTail
<1>2. m.text = <<session, changeCount>>
  BY DEF Takes, Meant, Writes
<1> QED BY <1>1, <1>2 DEF Writes, Update, InSync, Text

LEMMA AnnouncementTaken ==
  ASSUME FilesInv, NEW m, Takes(m), Does(m), Announcing(1)
  PROVE  Announced'
<1>1. /\ Typed /\ m = wire[1] /\ m \in CallType /\ wire # <<>> /\ 1 \in 1 .. Len(wire)
  BY TakesTail DEF FilesInv, Takes
<1>2. /\ session' = session /\ changeCount' = changeCount
      /\ lastAttemptedSync' = lastAttemptedSync
  BY <1>1, TakesTail
<1>3. Behind(0)' /\ (Resynced(1) => Resynced(0)')
  <2>1. Behind(1) /\ 1 - 1 = 0
    BY DEF Announcing
  <2>2. Behind(1 - 1)' /\ (Resynced(1) => Resynced(1 - 1)')
    BY <1>1, <2>1, TakenBehind
  <2> QED BY <2>1, <2>2
<1>4. m.kind \in {"OPEN", "EDIT"} /\ m.session = session /\ m.version = changeCount
  BY <1>1 DEF Announcing, Announces
<1>5. CASE Resynced(1)
  BY <1>3, <1>5 DEF Announced
<1>6. CASE m.awaited /\ lastAttemptedSync < changeCount
  <2>1. CASE Writes(m)
    BY <1>1, <1>3, <1>4, <2>1, WritesSyncs DEF Announced
  <2>2. CASE Refuses(m)
    <3>1. Replies(m, FALSE)
      BY <1>1, <2>2, ReplyDoes DEF Refuses, Rejects
    <3>2. PICK q : q = Len(replies) + 1
      OBVIOUS
    <3>3. /\ q \in 1 .. Len(replies') /\ replies'[q].kind = m.kind
          /\ replies'[q].session = m.session /\ replies'[q].ok = FALSE
          /\ replies'[q].awaited = m.awaited
          /\ \A j \in 1 .. q - 1 : j \in 1 .. Len(replies) /\ replies'[j] = replies[j]
      BY <3>1, <3>2 DEF Replies
    <3>4. ASSUME NEW j \in 1 .. q - 1
          PROVE  Older(replies[j])'
      <4>1. PICK x : x = replies'[j]
        OBVIOUS
      <4>2. Older(x)
        BY <3>3, <4>1 DEF Announcing
      <4>3. Older(x)'
        BY <1>2, <4>2 DEF Older
      <4> QED BY <4>1, <4>3
    <3>5. Rejected'
      BY <1>2, <1>4, <1>6, <3>3, <3>4 DEF Rejected
    <3> QED BY <1>3, <3>5 DEF Announced
  <2>3. ~Leaves(m) /\ ~Drops(m) /\ ~Notes(m)
    BY <1>4 DEF Leaves, Drops, Notes
  <2> QED BY <2>1, <2>2, <2>3 DEF Does
<1> QED BY <1>1, <1>5, <1>6 DEF Announcing

\* A call after the announcement.
LEMMA AnnouncedTaken ==
  ASSUME FilesInv, NEW m, Takes(m), Does(m), isOpen, Announced
  PROVE  Announced'
<1>1. /\ Typed /\ Held /\ m = wire[1] /\ m = Head(wire) /\ m \in CallType /\ Meant(m)
      /\ wire # <<>> /\ 1 \in 1 .. Len(wire) /\ Separated(wire, Holder, Sender)
      /\ session \in Nat /\ session > 0
  BY TakesTail, Bounds DEF FilesInv, Takes, Typed
<1>2. /\ session' = session /\ changeCount' = changeCount /\ resyncs' = resyncs
      /\ lastAttemptedSync' = lastAttemptedSync /\ wire \in Seq(CallType)
      /\ Len(wire) \in Nat /\ Len(wire') = Len(wire) - 1
      /\ \A i \in 2 .. Len(wire) : wire[i] = wire'[i - 1] /\ i - 1 \in 1 .. Len(wire')
  BY <1>1, TakesTail
<1>3. Behind(0) /\ Follows(m)
  BY <1>1 DEF Announced, Behind
<1>4. Behind(0)'
  <2>1. Behind(1) /\ 1 - 1 = 0
    BY <1>2, <1>3 DEF Behind
  <2>2. Behind(1 - 1)'
    BY <1>1, <2>1, TakenBehind
  <2> QED BY <2>1, <2>2
<1>5. \/ m.kind \in {"CLOSE", "ASK"}
      \/ m.kind \in {"SYNC", "SAVE"} /\ m.session = session /\ m.version = changeCount
  BY <1>3 DEF Follows
<1>6. ~Refuses(m)
  BY <1>5 DEF Refuses
<1>7. CASE InSync
  <2>1. CASE Writes(m)
    <3>1. m.session = session /\ m.version = changeCount
      BY <1>5, <2>1 DEF Writes, Data
    <3> QED BY <1>1, <1>4, <2>1, <3>1, WritesSyncs DEF Announced
  <2>2. CASE Leaves(m) \/ Notes(m)
    <3>1. buffer' = buffer /\ lost' = lost
      BY <2>2 DEF Leaves, Notes, HandleAsk, serverVars
    <3>2. InSync'
      BY <1>2, <1>7, <3>1 DEF InSync, Text
    <3> QED BY <1>4, <3>2 DEF Announced
  <2>3. CASE Drops(m)
    <3>1. buffer' = None /\ lost' = IF buffer = None THEN lost ELSE buffer.text[1] # m.session
      BY <2>3 DEF Drops, HandleClose
    <3>2. m.session < session /\ m.session \in Nat
      BY <1>1, <2>3, Bounds DEF Meant, Drops, CallType
    <3>3. lost'
      <4>1. CASE buffer = None /\ lost
        BY <3>1, <4>1
      <4>2. CASE buffer = [version |-> changeCount, text |-> Text] /\ buffer # None
        <5>1. buffer.text[1] = session
          BY <4>2 DEF Text
        <5>2. buffer.text[1] # m.session
          BY <1>1, <3>2, <5>1
        <5>3. lost' = (buffer.text[1] # m.session)
          BY <3>1, <4>2
        <5> QED BY <5>2, <5>3
      <4>3. [version |-> changeCount, text |-> Text] # None
        <5>1. PICK b : b = [version |-> changeCount, text |-> Text]
          OBVIOUS
        <5>2. b.version # None.version
          BY <1>1, <5>1, Bounds, MixedIsNone DEF Typed
        <5> QED BY <5>1, <5>2
      <4> QED BY <1>7, <4>1, <4>2, <4>3 DEF InSync
    <3> QED BY <1>4, <3>1, <3>3 DEF Announced, InSync
  <2> QED BY <1>6, <2>1, <2>2, <2>3 DEF Does
<1>8. CASE Resynced(0)
  <2>1. PICK j \in 1 .. Len(wire) : wire[j].kind = "SYNC"
    BY <1>2, <1>8 DEF Resynced
  <2>2. CASE j >= 2
    <3>1. j - 1 \in 1 .. Len(wire') /\ wire'[j - 1].kind = "SYNC"
      BY <1>2, <2>1, <2>2
    <3>2. Resynced(0)'
      BY <3>1 DEF Resynced
    <3> QED BY <1>4, <3>2 DEF Announced
  <2>3. CASE j = 1
    <3>1. m.kind = "SYNC" /\ m.session = session /\ m.version = changeCount
      BY <1>1, <1>5, <2>1, <2>3
    <3>2. ASSUME buffer # None, m.version < buffer.version
          PROVE  FALSE
      <4>1. /\ buffer.text[1] \in 1 .. session
            /\ buffer.text[1] = session => buffer.version <= changeCount
        BY <1>1, <3>2 DEF Held
      <4>2. Holder = buffer.text[1] /\ Holder # 0
        BY <1>1, <3>2, <4>1 DEF Holder
      <4>3. m.session = Holder
        BY <1>1, <1>2, <3>1, <4>2, FirstSeparated DEF Bound, Data
      <4>4. buffer.version <= changeCount /\ changeCount \in Nat /\ buffer.version \in Nat
        BY <1>1, <3>1, <3>2, <4>1, <4>2, <4>3, Bounds DEF Typed
      <4> QED BY <3>1, <3>2, <4>4
    <3>3. Writes(m)
      BY <1>6, <3>1, <3>2 DEF Does, Leaves, Drops, Notes
    <3> QED BY <1>1, <1>4, <3>1, <3>3, WritesSyncs DEF Announced
  <2> QED BY <2>1, <2>2, <2>3
<1>9. CASE changeCount \in resyncs
  BY <1>2, <1>4, <1>9 DEF Announced
<1>10. CASE Rejected
  <2>1. PICK q \in 1 .. Len(replies) :
          /\ replies[q].kind \in {"OPEN", "EDIT"} /\ replies[q].session = session
          /\ ~replies[q].ok /\ replies[q].awaited
          /\ lastAttemptedSync < changeCount
          /\ \A j \in 1 .. q - 1 : Older(replies[j])
    BY <1>10 DEF Rejected
  <2>2. q \in 1 .. Len(replies') /\ \A j \in 1 .. Len(replies) : replies'[j] = replies[j]
    <3>1. CASE replies' = replies
      BY <2>1, <3>1
    <3>2. ASSUME NEW ok, Replies(m, ok)
          PROVE  q \in 1 .. Len(replies') /\ \A j \in 1 .. Len(replies) : replies'[j] = replies[j]
      BY <2>1, <3>2 DEF Replies
    <3> QED BY <1>1, <3>1, <3>2, DoesReply
  <2>3. ASSUME NEW j \in 1 .. q - 1
        PROVE  Older(replies[j])'
    <3>1. PICK x : x = replies'[j]
      OBVIOUS
    <3>2. Older(x)
      <4>1. j \in 1 .. Len(replies)
        BY <2>1
      <4> QED BY <2>1, <2>2, <3>1, <4>1
    <3>3. Older(x)'
      BY <1>2, <3>2 DEF Older
    <3> QED BY <3>1, <3>3
  <2>4. Rejected'
    BY <1>2, <2>1, <2>2, <2>3 DEF Rejected
  <2> QED BY <1>4, <2>4 DEF Announced
<1> QED BY <1>7, <1>8, <1>9, <1>10 DEF Announced

LEMMA HandleEventKeeps ==
  ASSUME FilesInv, HandleEvent
  PROVE  FilesInv'
<1>1. PICK m : Takes(m) /\ Does(m)
  BY HandleEventDoes
<1>2. /\ Typed' /\ CallsMeant' /\ AnswersTold' /\ Held' /\ Retried' /\ Unsent'
      /\ Separated(wire, Holder, Sender)'
  BY <1>1, DoesKeeps
<1>3. Asking' /\ AnswersMatch'
  BY <1>1, DoesKeepsAsking
<1>4. Settling'
  <2> SUFFICES ASSUME isOpen', sentOpen'
               PROVE  Announced' \/ \E p \in 1 .. Len(wire') : Announcing(p)'
    BY DEF Settling
  <2>1. isOpen /\ sentOpen /\ Len(wire) \in Nat
    BY <1>1, TakesTail DEF FilesInv
  <2>2. CASE Announced
    BY <1>1, <2>1, <2>2, AnnouncedTaken
  <2>3. ASSUME NEW p \in 1 .. Len(wire), Announcing(p)
        PROVE  Announced' \/ \E i \in 1 .. Len(wire') : Announcing(i)'
    <3>1. CASE p = 1
      BY <1>1, <2>3, <3>1, AnnouncementTaken
    <3>2. CASE p \in 2 .. Len(wire)
      <4>1. p - 1 \in 1 .. Len(wire') /\ Announcing(p - 1)'
        BY <1>1, <2>3, <3>2, TakenBefore
      <4> QED BY <4>1
    <3> QED BY <2>1, <3>1, <3>2
  <2> QED BY <2>1, <2>2, <2>3 DEF FilesInv, Settling
<1> QED BY <1>2, <1>3, <1>4 DEF FilesInv

\* The answer to the request.
LEMMA AnswerKeeps ==
  ASSUME FilesInv, Answer
  PROVE  FilesInv'
<1>1. /\ Typed /\ Held /\ Asking /\ ask.stage = "reached"
      /\ ask' = [ask EXCEPT !.stage = "answered", !.answer = BufferFor(ask.version)]
      /\ UNCHANGED <<subscriptionVars, retryVars, timeouts, wire, replies, serverVars>>
  BY DEF Answer, FilesInv
<1>2. PICK a, t : a \in AskType /\ a = ask /\ t = BufferFor(ask.version)
  BY <1>1 DEF Typed
<1>3. t = IF buffer.version = a.version THEN buffer.text ELSE Mixed
  BY <1>2 DEF BufferFor
<1>4. t \in AnyText
  <2>1. buffer.text \in AnyText /\ Mixed \in AnyText
    BY <1>1 DEF Typed, None, AnyText
  <2> QED BY <1>3, <2>1
<1>5. PICK x : x = [a EXCEPT !.stage = "answered", !.answer = t]
  OBVIOUS
<1>6. /\ x \in AskType /\ x.stage = "answered" /\ x.session = a.session
      /\ x.version = a.version /\ x.answer = t
  BY <1>2, <1>4, <1>5 DEF AskType
<1>7. ask' = x
  BY <1>1, <1>2, <1>5
<1>8. /\ session' = session /\ isOpen' = isOpen /\ changeCount' = changeCount
      /\ sentOpen' = sentOpen /\ lastAttemptedSync' = lastAttemptedSync
      /\ resyncs' = resyncs /\ closes' = closes /\ timeouts' = timeouts
      /\ wire' = wire /\ replies' = replies /\ buffer' = buffer /\ lost' = lost
  BY <1>1 DEF subscriptionVars, retryVars, serverVars
<1>9. Typed'
  BY <1>1, <1>6, <1>7, <1>8 DEF Typed
<1>10. CallsMeant' /\ AnswersTold'
  BY <1>8 DEF FilesInv, CallsMeant, AnswersTold, Meant, Told
<1>11. Held' /\ Retried' /\ Unsent'
  BY <1>8 DEF FilesInv, Held, Retried, Unsent, Holder
<1>12. Separated(wire, Holder, Sender)'
  BY <1>8 DEF FilesInv, Holder, Sender
<1>13. Settling'
  BY <1>8 DEF FilesInv, Settling, Announced, Announcing, Announces, Behind, Follows, Older,
       Resynced, InSync, Rejected, Text
<1>14. \A i \in 1 .. Len(wire) : wire[i].kind # "ASK"
  BY <1>1 DEF Asking
<1>15. Asking'
  <2>1. ask'.session <= session' /\ ask'.stage = "answered"
    BY <1>1, <1>2, <1>6, <1>7, <1>8 DEF Asking
  <2>2. \A i \in 1 .. Len(wire') : wire'[i].kind # "ASK"
    BY <1>8, <1>14
  <2> QED BY <2>1, <2>2 DEF Asking
<1>16. AnswersMatch'
  <2> SUFFICES ASSUME t # Mixed
               PROVE  t[2] = a.version /\ t[1] >= a.session
    BY <1>6, <1>7 DEF AnswersMatch
  <2>1. t = buffer.text /\ buffer.version = a.version
    BY <1>3
  <2>2. buffer # None
    BY <2>1, MixedIsNone
  <2>3. buffer.text = <<buffer.text[1], buffer.version>> /\ buffer.text[1] \in 1 .. session
    BY <1>1, <2>2 DEF Held
  <2>4. Holder = buffer.text[1] /\ Holder # 0
    <3>1. session \in Nat
      BY <1>1, Bounds DEF Typed
    <3> QED BY <2>2, <2>3, <3>1 DEF Holder
  <2>5. Holder >= a.session
    BY <1>1, <1>2, <2>4 DEF Asking
  <2>6. t[2] = buffer.version
    BY <2>1, <2>3
  <2> QED BY <2>1, <2>4, <2>5, <2>6
<1> QED BY <1>9, <1>10, <1>11, <1>12, <1>13, <1>15, <1>16 DEF FilesInv

LEMMA StutterKeeps ==
  ASSUME FilesInv, UNCHANGED vars
  PROVE  FilesInv'
<1>1. /\ session' = session /\ isOpen' = isOpen /\ changeCount' = changeCount
      /\ sentOpen' = sentOpen /\ lastAttemptedSync' = lastAttemptedSync
      /\ resyncs' = resyncs /\ closes' = closes /\ timeouts' = timeouts
      /\ wire' = wire /\ replies' = replies /\ buffer' = buffer /\ lost' = lost /\ ask' = ask
  BY DEF vars, subscriptionVars, retryVars, serverVars
<1>2. Typed' /\ CallsMeant' /\ AnswersTold'
  BY <1>1 DEF FilesInv, Typed, CallsMeant, AnswersTold, Meant, Told
<1>3. Held' /\ Retried' /\ Unsent'
  BY <1>1 DEF FilesInv, Held, Retried, Unsent, Holder
<1>4. Separated(wire, Holder, Sender)'
  BY <1>1 DEF FilesInv, Holder, Sender
<1>5. Settling'
  BY <1>1 DEF FilesInv, Settling, Announced, Announcing, Announces, Behind, Follows, Older,
       Resynced, InSync, Rejected, Text
<1>6. Asking' /\ AnswersMatch'
  BY <1>1 DEF FilesInv, Asking, AnswersMatch, Holder
<1> QED BY <1>2, <1>3, <1>4, <1>5, <1>6 DEF FilesInv

-----------------------------------------------------------------------------
(* The theorems *)

LEMMA InitFiles ==
  Init => FilesInv
<1> SUFFICES ASSUME Init
             PROVE  FilesInv
  OBVIOUS
<1>1. /\ session = 0 /\ isOpen = FALSE /\ changeCount = 1 /\ sentOpen = FALSE
      /\ lastAttemptedSync = -1 /\ resyncs = {} /\ closes = {} /\ timeouts = 0
      /\ wire = <<>> /\ replies = <<>> /\ buffer = None /\ lost = FALSE /\ ask = NoAsk
  BY DEF Init
<1>2. NoAsk \in AskType
  BY Bounds DEF NoAsk, AskType, AnyText
<1>3. wire \in Seq(CallType) /\ replies \in Seq(ReplyType) /\ Len(wire) = 0 /\ Len(replies) = 0
  BY <1>1
<1>4. Typed
  <2>1. 0 \in 0 .. MaxSession /\ 0 \in 0 .. MaxTimeouts /\ 1 \in Version
    BY Bounds
  <2> QED BY <1>1, <1>2, <1>3, <2>1 DEF Typed
<1>5. CallsMeant /\ AnswersTold /\ Held /\ Unsent /\ Settling
  BY <1>1, <1>3 DEF CallsMeant, AnswersTold, Held, Unsent, Settling
<1>6. Retried
  BY <1>1 DEF Retried
<1>7. Separated(wire, Holder, Sender)
  BY <1>1, <1>3 DEF Separated, Holder, Sender
<1>8. Asking /\ AnswersMatch
  <2>1. ask.stage = "none" /\ ask.session = 0 /\ ask.answer = Mixed
    BY <1>1 DEF NoAsk
  <2> QED BY <1>1, <1>3, <2>1 DEF Asking, AnswersMatch
<1> QED BY <1>4, <1>5, <1>6, <1>7, <1>8 DEF FilesInv

\* Whatever is edited, closed, retried, timed out or rejected: calls tell what
\* the editor had, those of two sessions have a CLOSE between them, and a
\* version that was announced is on its way, in the buffer, or will be sent
\* again (BufferSubscription with FileCache).
THEOREM FilesInvariant == Spec => []FilesInv
<1>1. FilesInv /\ [Next]_vars => FilesInv'
  <2> SUFFICES ASSUME FilesInv, [Next]_vars
               PROVE  FilesInv'
    OBVIOUS
  <2>1. CASE \E isEmpty \in BOOLEAN : OpenFile(isEmpty)
    BY <2>1, OpenFileKeeps
  <2>2. CASE \E n \in 1 .. 2 : Edit(n)
    BY <2>2, EditKeeps
  <2>3. CASE Save
    BY <2>3, SaveKeeps
  <2>4. CASE CloseFile
    BY <2>4, CloseFileKeeps
  <2>5. CASE Ask
    BY <2>5, AskKeeps
  <2>6. CASE HandleReply
    BY <2>6, HandleReplyKeeps
  <2>7. CASE TimesOut
    BY <2>7, TimesOutKeeps
  <2>8. CASE ResyncTimer
    BY <2>8, ResyncTimerKeeps
  <2>9. CASE CloseTimer
    BY <2>9, CloseTimerKeeps
  <2>10. CASE HandleEvent
    BY <2>10, HandleEventKeeps
  <2>11. CASE Answer
    BY <2>11, AnswerKeeps
  <2>12. CASE UNCHANGED vars
    BY <2>12, StutterKeeps
  <2> QED BY <2>1, <2>2, <2>3, <2>4, <2>5, <2>6, <2>7, <2>8, <2>9, <2>10, <2>11, <2>12 DEF Next
<1> QED BY <1>1, InitFiles, PTL DEF Spec

\* The variables have their types, and the version of the server's buffer tells
\* its text: no edit is applied to a text it was not made for.
THEOREM VersionsMeanTexts == Spec => []VersionMeansText
<1>1. FilesInv => VersionMeansText
  <2> SUFFICES ASSUME FilesInv
               PROVE  VersionMeansText
    OBVIOUS
  <2>1. TypeOK
    <3>1. ask.stage \in {"none", "sent", "waiting", "reached", "answered"}
      BY DEF FilesInv, Typed, AskType
    <3>2. changeCount \in 1 .. MaxVersion
      BY DEF FilesInv, Typed, Version
    <3> QED BY <3>1, <3>2 DEF FilesInv, Typed, TypeOK, CallType, ReplyType
  <2>2. ASSUME buffer # None
        PROVE  buffer.text[2] = buffer.version
    BY <2>2 DEF FilesInv, Held
  <2> QED BY <2>1, <2>2 DEF VersionMeansText
<1> QED BY <1>1, FilesInvariant, PTL

\* A language service is given the text its caller saw, or none
\* (getBufferAtVersion checks the version again after it has waited).
THEOREM AnswersAlwaysMatch == Spec => []AnswersMatch
<1>1. FilesInv => AnswersMatch
  BY DEF FilesInv
<1> QED BY <1>1, FilesInvariant, PTL

\* With nothing in flight and no timer running, the server has the text of the
\* editor, unless a late CLOSE of an earlier session took it.
THEOREM InSyncWhenAtRest == Spec => []InSyncAtRest
<1>1. FilesInv => InSyncAtRest
  <2> SUFFICES ASSUME FilesInv, AtRest
               PROVE  IF isOpen /\ sentOpen
                        THEN \/ buffer = [version |-> changeCount, text |-> Text]
                             \/ buffer = None /\ lost
                        ELSE buffer = None
    BY DEF InSyncAtRest
  <2>1. Len(wire) = 0 /\ Len(replies) = 0 /\ resyncs = {}
    BY DEF AtRest
  <2>2. CASE isOpen /\ sentOpen
    <3>1. Announced
      BY <2>1, <2>2 DEF FilesInv, Settling
    <3>2. ~Resynced(0) /\ ~Rejected
      BY <2>1 DEF Resynced, Rejected
    <3> QED BY <2>1, <2>2, <3>1, <3>2 DEF Announced, InSync
  <2>3. CASE ~(isOpen /\ sentOpen)
    <3>1. Holder # 0 => Holder = Sender
      <4>1. ~Closes(wire, 0, Len(wire) + 1)
        BY <2>1 DEF Closes
      <4> QED BY <4>1 DEF FilesInv, Separated
    <3>2. Sender = 0 \/ Holder # Sender
      BY <2>3 DEF FilesInv, Unsent, Sender, Typed
    <3>3. buffer # None => Holder # 0
      <4>1. session \in Nat
        BY Bounds DEF FilesInv, Typed
      <4> QED BY <4>1 DEF FilesInv, Held, Holder
    <3>4. buffer = None
      BY <3>1, <3>2, <3>3
    <3> QED BY <2>3, <3>4
  <2> QED BY <2>2, <2>3
<1> QED BY <1>1, FilesInvariant, PTL

=============================================================================
