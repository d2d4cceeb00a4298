-------------------------- MODULE Serial485Proofs --------------------------
(***************************************************************************)
(* Proofs about Serial485, for any clients, devices, attempts and queue    *)
(* length.  The inductive invariant has two layers: types, what the worker *)
(* holds and where every request is (Inv1); who owns the bus (Inv2).       *)
(***************************************************************************)
EXTENDS Serial485, SequenceTheorems, TLAPS

Busy == {"claimed", "write", "await"}

\* The worker holds a request exactly while it is not between two requests, it
\* waits for a response only to a data request, and never begins more attempts
\* than the request has.
WorkerHolds ==
    /\ worker \in Busy <=> active # None
    /\ worker \in {"write", "await"} => req[active] \in DataKinds
    /\ worker = "claimed" => attempt < Attempts

KeyKnown == \A c \in Clients : req[c] \in DataKinds => key[c] # None

Unanswered(c) == req[c] # "none" /\ outcome[c] = "none"

\* RequestAccounted in a form an induction can use: each queued request and
\* the active one is unanswered, no request is queued twice or both queued and
\* active, and every unanswered request is in one of those places.
Accounted ==
    /\ \A i \in 1..Len(queue) : Unanswered(queue[i]) /\ queue[i] # active
    /\ \A i, j \in 1..Len(queue) : queue[i] = queue[j] => i = j
    /\ active # None => Unanswered(active)
    /\ \A c \in Clients : outcome[c] # "none" => req[c] # "none"
    /\ \A c \in Clients : Unanswered(c) => active = c \/ \E i \in 1..Len(queue) : queue[i] = c

Inv1 == TypeOK /\ WorkerHolds /\ KeyKnown /\ Accounted

-----------------------------------------------------------------------------
(* Removing a request from the middle of the queue.                        *)

\* RemoveAt(s, i) closes the gap that the i-th element leaves.
LEMMA RemoveAtProperties ==
    ASSUME NEW S, NEW s \in Seq(S), NEW i \in 1..Len(s)
    PROVE  /\ RemoveAt(s, i) \in Seq(S)
           /\ Len(RemoveAt(s, i)) = Len(s) - 1
           /\ \A j \in 1..(Len(s) - 1) :
                RemoveAt(s, i)[j] = IF j < i THEN s[j] ELSE s[j + 1]
<1> DEFINE front == SubSeq(s, 1, i - 1)
           back == SubSeq(s, i + 1, Len(s))
<1>1. /\ front \in Seq(S) /\ Len(front) = i - 1
      /\ \A j \in 1..(i - 1) : front[j] = s[j]
  <2>1. \A j \in 1..(i - 1) : s[j] \in S
    BY ElementOfSeq
  <2>. QED BY <2>1, SubSeqProperties, LenProperties
<1>2. /\ back \in Seq(S) /\ Len(back) = Len(s) - i
      /\ \A j \in 1..(Len(s) - i) : back[j] = s[i + j]
  <2>1. \A j \in (i + 1)..Len(s) : s[j] \in S
    BY ElementOfSeq
  <2>2. Len(s) \in Nat
    BY LenProperties
  <2>3. /\ back \in Seq(S)
        /\ Len(back) = IF i + 1 <= Len(s) THEN Len(s) - (i + 1) + 1 ELSE 0
        /\ \A j \in 1 .. Len(s) - (i + 1) + 1 : back[j] = s[(i + 1) + j - 1]
    BY <2>1, <2>2, SubSeqProperties
  <2>. QED BY <2>2, <2>3
<1>. HIDE DEF front, back
<1>3. /\ front \o back \in Seq(S)
      /\ Len(front \o back) = Len(front) + Len(back)
      /\ \A j \in 1 .. Len(front) + Len(back) :
           (front \o back)[j] = IF j <= Len(front) THEN front[j] ELSE back[j - Len(front)]
  <2>1. front \in Seq(S) /\ back \in Seq(S)
    BY <1>1, <1>2
  <2>. QED BY <2>1, ConcatProperties, Zenon
<1>4. RemoveAt(s, i) = front \o back
  BY DEF RemoveAt, front, back
<1>5. Len(s) \in Nat
  BY LenProperties
<1>6. ASSUME NEW j \in 1..(Len(s) - 1)
      PROVE  (front \o back)[j] = IF j < i THEN s[j] ELSE s[j + 1]
  <2>1. CASE j < i
    BY <2>1, <1>1, <1>2, <1>3, <1>5
  <2>2. CASE ~(j < i)
    <3>1. (front \o back)[j] = back[j - (i - 1)]
      BY <2>2, <1>1, <1>2, <1>3, <1>5
    <3>2. j - (i - 1) \in 1..(Len(s) - i) /\ i + (j - (i - 1)) = j + 1
      BY <2>2, <1>5
    <3>. QED BY <2>2, <3>1, <3>2, <1>2
  <2>. QED BY <2>1, <2>2
<1>7. Len(front) + Len(back) = Len(s) - 1
  BY <1>1, <1>2, <1>5
<1>. QED BY <1>3, <1>4, <1>6, <1>7

-----------------------------------------------------------------------------
(* Layer 1: types, what the worker holds, and where every request is.      *)

LEMMA NothingQueued == <<>> \in Seq(Frames) /\ <<>> \in Seq(Clients) /\ Len(<<>>) = 0
OBVIOUS

LEMMA NoneIsNoRequest == None \notin Clients /\ None \notin Requests
BY ConstantsAssumption

LEMMA Inv1Init == Init => Inv1
<1>. SUFFICES ASSUME Init PROVE Inv1
  OBVIOUS
<1>1. TypeOK
  <2>1. 0 \in 0..Attempts /\ MaxOps \in Nat
    BY ConstantsAssumption
  <2>. QED BY <2>1, NothingQueued DEF Init, TypeOK, SessionKinds
<1>2. WorkerHolds /\ KeyKnown
  BY DEF Init, WorkerHolds, KeyKnown, Busy, DataKinds
<1>3. Accounted
  BY NothingQueued DEF Init, Accounted, Unanswered
<1>. QED BY <1>1, <1>2, <1>3 DEF Inv1

\* The common end of the worker's actions: the active request completes.
LEMMA CompleteStep ==
    ASSUME Inv1, worker \in Busy,
           NEW how \in {"ok", "frame", "silent", "error"},
           NEW frame \in Frames \cup {None},
           Complete(how, frame)
    PROVE  /\ outcome' \in [Clients -> {"none", "ok", "frame", "silent", "error"}]
           /\ reply' \in [Clients -> Frames \cup {None}]
           /\ active' = None /\ worker' = "idle"
           /\ UNCHANGED <<isShutdown, joining, announced, stop, attempt, queue, txSeq,
                          req, key, inSession, ops>>
           /\ WorkerHolds' /\ KeyKnown' /\ Accounted'
<1>1. /\ active \in Clients /\ active' = None /\ worker' = "idle"
      /\ UNCHANGED <<isShutdown, joining, announced, stop, attempt, queue, txSeq,
                     req, key, inSession, ops>>
  BY DEF Complete, Inv1, TypeOK, WorkerHolds
<1>2. /\ outcome' = [outcome EXCEPT ![active] = how]
      /\ outcome \in [Clients -> {"none", "ok", "frame", "silent", "error"}]
      /\ reply' = [reply EXCEPT ![active] = frame]
      /\ reply \in [Clients -> Frames \cup {None}]
  BY DEF Complete, Inv1, TypeOK
<1>3. WorkerHolds' /\ KeyKnown'
  BY <1>1 DEF Inv1, WorkerHolds, KeyKnown, Busy
<1>4. Accounted'
  <2>1. \A i \in 1..Len(queue) : queue[i] \in Clients /\ queue[i] # None
    BY ElementOfSeq, NoneIsNoRequest DEF Inv1, TypeOK
  <2>2. \A c \in Clients : outcome'[c] = IF c = active THEN how ELSE outcome[c]
    BY <1>2
  <2>3. /\ \A i \in 1..Len(queue') : Unanswered(queue[i])' /\ queue'[i] # active'
        /\ \A i, j \in 1..Len(queue') : queue'[i] = queue'[j] => i = j
    BY <1>1, <2>1, <2>2 DEF Inv1, Accounted, Unanswered
  <2>4. \A c \in Clients : outcome'[c] # "none" => req'[c] # "none"
    BY <1>1, <2>2, NoneIsNoRequest DEF Inv1, Accounted, Unanswered
  <2>5. \A c \in Clients : Unanswered(c)' => \E i \in 1..Len(queue') : queue'[i] = c
    BY <1>1, <2>2 DEF Inv1, Accounted, Unanswered
  <2>. QED BY <1>1, <2>3, <2>4, <2>5 DEF Accounted
<1>. QED BY <1>1, <1>2, <1>3, <1>4

\* The common part of all submissions.
LEMMA SubmitStep ==
    ASSUME Inv1, NEW c \in Clients, NEW kind \in {"plain", "begin", "data", "end"},
           Submit(c, kind), key' \in [Clients -> Requests \cup {None}],
           inSession' \in [Clients -> BOOLEAN], ops' \in [Clients -> Nat],
           \A d \in Clients \ {c} : key'[d] = key[d],
           kind \in DataKinds => key'[c] # None
    PROVE  Inv1'
<1>1. /\ queue \in Seq(Clients) /\ queue' = Append(queue, c)
      /\ req' = [req EXCEPT ![c] = kind] /\ req[c] = "none"
      /\ req \in [Clients -> {"none", "plain"} \cup SessionKinds]
      /\ UNCHANGED <<active, outcome, attempt>>
  BY DEF Submit, Inv1, TypeOK
<1>2. /\ queue' \in Seq(Clients) /\ Len(queue') = Len(queue) + 1 /\ Len(queue) \in Nat
      /\ \A i \in 1..Len(queue) : queue'[i] = queue[i]
      /\ queue'[Len(queue) + 1] = c
  BY <1>1, AppendProperties, LenProperties
<1>3. req' \in [Clients -> {"none", "plain"} \cup SessionKinds]
  BY <1>1 DEF SessionKinds
<1>4. worker' \in {"down", "idle", "claimed", "write", "await"} /\ stop' \in BOOLEAN
  BY DEF Submit, EnsureWorker, Inv1, TypeOK
<1>5. TypeOK'
  BY <1>2, <1>3, <1>4 DEF Submit, Inv1, TypeOK, linkVars, wireVars
<1>6. active # c
  BY <1>1, NoneIsNoRequest DEF Inv1, Accounted, Unanswered
<1>7. WorkerHolds'
  <2>1. worker' = worker \/ (worker = "down" /\ worker' = "idle")
    BY DEF Submit, EnsureWorker
  <2>2. active # None => active \in Clients /\ req'[active] = req[active]
    BY <1>1, <1>6 DEF Inv1, TypeOK
  <2>. QED BY <1>1, <2>1, <2>2 DEF Inv1, WorkerHolds, Busy
<1>8. KeyKnown'
  BY <1>1 DEF Inv1, KeyKnown
<1>9. Accounted'
  <2>1. \A i \in 1..Len(queue) : queue[i] \in Clients /\ queue[i] # c
    BY <1>1, ElementOfSeq DEF Inv1, Accounted, Unanswered
  <2>2. \A d \in Clients \ {c} : Unanswered(d)' <=> Unanswered(d)
    BY <1>1 DEF Unanswered
  <2>3. Unanswered(c)'
    BY <1>1 DEF Unanswered, Inv1, Accounted
  <2>4. \A i \in 1..Len(queue') : i \in 1..Len(queue) \/ i = Len(queue) + 1
    BY <1>2
  <2>5. \A i \in 1..Len(queue') : Unanswered(queue[i])' /\ queue'[i] # active'
    BY <1>1, <1>2, <1>6, <2>1, <2>2, <2>3, <2>4 DEF Inv1, Accounted, Unanswered
  <2>6. \A i, j \in 1..Len(queue') : queue'[i] = queue'[j] => i = j
    BY <1>1, <1>2, <2>1, <2>4 DEF Inv1, Accounted
  <2>7. active' # None => Unanswered(active)'
    BY <1>1, <1>6 DEF Inv1, TypeOK, Accounted, Unanswered
  <2>8. \A d \in Clients : outcome'[d] # "none" => req'[d] # "none"
    BY <1>1 DEF Inv1, Accounted
  <2>9. ASSUME NEW d \in Clients, Unanswered(d)'
        PROVE  active' = d \/ \E i \in 1..Len(queue') : queue'[i] = d
    <3>1. CASE d = c
      BY <3>1, <1>2
    <3>2. CASE d # c
      <4>1. active = d \/ \E i \in 1..Len(queue) : queue[i] = d
        BY <2>2, <2>9, <3>2 DEF Inv1, Accounted
      <4>. QED BY <1>1, <1>2, <4>1
    <3>. QED BY <3>1, <3>2
  <2>. QED BY <2>5, <2>6, <2>7, <2>8, <2>9 DEF Accounted
<1>. QED BY <1>5, <1>7, <1>8, <1>9 DEF Inv1

LEMMA Inv1Step == Inv1 /\ [Next]_vars => Inv1'
<1>. SUFFICES ASSUME Inv1, [Next]_vars PROVE Inv1'
  OBVIOUS
<1>. DEFINE Quiet == UNCHANGED <<queue, active, req, key, outcome, reply, inSession, ops>>
<1>quiet. ASSUME Quiet PROVE Accounted' /\ KeyKnown'
  BY <1>quiet DEF Inv1, Accounted, Unanswered, KeyKnown
<1>. USE DEF Inv1
<1>1. CASE HandleConnect
  <2>1. TypeOK'
    BY <1>1, NothingQueued DEF TypeOK, HandleConnect, EnsureWorker, OpenPort, clientVars
  <2>2. WorkerHolds' /\ Quiet
    BY <1>1 DEF WorkerHolds, Busy, HandleConnect, EnsureWorker, clientVars
  <2>. QED BY <2>1, <2>2, <1>quiet
<1>2. CASE EmitReady
  <2>1. TypeOK'
    BY <1>2 DEF TypeOK, EmitReady, clientVars, threadVars, wireVars
  <2>2. WorkerHolds' /\ Quiet
    BY <1>2 DEF WorkerHolds, EmitReady, clientVars, threadVars
  <2>. QED BY <2>1, <2>2, <1>quiet
<1>3. CASE HandleDisconnect
  <2>1. TypeOK'
    BY <1>3, NothingQueued DEF TypeOK, HandleDisconnect, ClosePort, clientVars, threadVars
  <2>2. WorkerHolds' /\ Quiet
    BY <1>3 DEF WorkerHolds, HandleDisconnect, clientVars, threadVars
  <2>. QED BY <2>1, <2>2, <1>quiet
<1>4. CASE HandleShutdown
  <2>1. joining' \in BOOLEAN /\ stop' \in BOOLEAN
    BY <1>4, Zenon DEF HandleShutdown
  <2>2. TypeOK'
    BY <1>4, <2>1, NothingQueued DEF TypeOK, HandleShutdown, ClosePort, clientVars
  <2>3. WorkerHolds' /\ Quiet
    BY <1>4 DEF WorkerHolds, HandleShutdown, clientVars
  <2>. QED BY <2>2, <2>3, <1>quiet
<1>5. CASE JoinDone
  <2>1. active' = active
    BY <1>5 DEF JoinDone, WorkerHolds, Busy
  <2>2. TypeOK'
    BY <1>5, <2>1 DEF TypeOK, JoinDone, clientVars, linkVars, wireVars
  <2>3. WorkerHolds' /\ Quiet
    BY <1>5, <2>1 DEF WorkerHolds, JoinDone, clientVars
  <2>. QED BY <2>2, <2>3, <1>quiet
<1>6. CASE WorkerPick
  <2>1. PICK i \in 1..Len(queue) : active' = queue[i] /\ queue' = RemoveAt(queue, i)
    BY <1>6 DEF WorkerPick
  <2>2. /\ queue \in Seq(Clients) /\ Len(queue) \in Nat
        /\ \A j \in 1..Len(queue) : queue[j] \in Clients
    BY ElementOfSeq, LenProperties DEF TypeOK
  <2>3. /\ queue' \in Seq(Clients) /\ Len(queue') = Len(queue) - 1
        /\ \A j \in 1..(Len(queue) - 1) :
             queue'[j] = IF j < i THEN queue[j] ELSE queue[j + 1]
    BY <2>1, <2>2, RemoveAtProperties
  <2>4. /\ worker = "idle" /\ worker' = "claimed" /\ attempt' = 0 /\ active = None
        /\ active' \in Clients
        /\ UNCHANGED <<isShutdown, joining, linkVars, stop, session, wireVars, clientVars>>
    BY <1>6, <2>1, <2>2 DEF WorkerPick, WorkerHolds, Busy
  <2>5. TypeOK'
    BY <2>3, <2>4, ConstantsAssumption DEF TypeOK, linkVars, wireVars, clientVars
  <2>6. WorkerHolds' /\ KeyKnown'
    BY <2>4, NoneIsNoRequest, ConstantsAssumption DEF WorkerHolds, KeyKnown, Busy, clientVars
  <2>7. Accounted'
    <3>. USE <2>4 DEF clientVars, Unanswered
    <3>1. \A j \in 1..Len(queue') :
             \E k \in 1..Len(queue) : k # i /\ queue'[j] = queue[k] /\ k = IF j < i THEN j ELSE j + 1
      BY <2>2, <2>3
    <3>2. \A k \in 1..Len(queue) : k # i => \E j \in 1..Len(queue') : queue'[j] = queue[k]
      <4>1. ASSUME NEW k \in 1..Len(queue), k < i
            PROVE  k \in 1..Len(queue') /\ queue'[k] = queue[k]
        BY <4>1, <2>2, <2>3
      <4>2. ASSUME NEW k \in 1..Len(queue), k > i
            PROVE  k - 1 \in 1..Len(queue') /\ queue'[k - 1] = queue[k]
        BY <4>2, <2>2, <2>3
      <4>. QED BY <4>1, <4>2, <2>2
    <3>3. \A j \in 1..Len(queue') : Unanswered(queue[j])' /\ queue'[j] # active'
      BY <2>1, <3>1 DEF Accounted
    <3>4. \A j, k \in 1..Len(queue') : queue'[j] = queue'[k] => j = k
      BY <2>2, <2>3, <3>1 DEF Accounted
    <3>5. active' # None => Unanswered(active)'
      BY <2>1 DEF Accounted
    <3>6. \A c \in Clients : outcome'[c] # "none" => req'[c] # "none"
      BY DEF Accounted
    <3>7. ASSUME NEW c \in Clients, Unanswered(c)'
          PROVE  active' = c \/ \E j \in 1..Len(queue') : queue'[j] = c
      <4>1. PICK k \in 1..Len(queue) : queue[k] = c
        BY <3>7, NoneIsNoRequest DEF Accounted
      <4>. QED BY <2>1, <3>2, <4>1
    <3>. QED BY <3>3, <3>4, <3>5, <3>6, <3>7 DEF Accounted
  <2>. QED BY <2>5, <2>6, <2>7
<1>7. CASE WorkerDrain
  <2>1. /\ queue' = <<>> /\ active = None
        /\ outcome' = [c \in Clients |-> IF Contains(queue, c) THEN "error" ELSE outcome[c]]
        /\ UNCHANGED <<isShutdown, joining, linkVars, threadVars, session, wireVars,
                       req, key, inSession, reply, ops>>
    BY <1>7 DEF WorkerDrain, WorkerHolds, Busy
  <2>2. TypeOK'
    BY <2>1, NothingQueued DEF TypeOK, linkVars, threadVars, wireVars
  <2>3. WorkerHolds' /\ KeyKnown'
    BY <2>1 DEF WorkerHolds, KeyKnown, threadVars
  <2>4. \A c \in Clients : Contains(queue, c) => req[c] # "none"
    BY DEF Contains, Accounted, Unanswered
  <2>5. \A c \in Clients : Unanswered(c) => Contains(queue, c)
    BY <2>1, NoneIsNoRequest DEF Contains, Accounted
  <2>6. Accounted'
    BY <2>1, <2>4, <2>5, NothingQueued DEF Accounted, Unanswered, threadVars
  <2>. QED BY <2>2, <2>3, <2>6
<1>8. CASE WorkerExit
  <2>1. TypeOK'
    BY <1>8 DEF TypeOK, WorkerExit, clientVars, linkVars, wireVars
  <2>2. WorkerHolds' /\ Quiet
    BY <1>8 DEF WorkerHolds, Busy, WorkerExit, clientVars
  <2>. QED BY <2>1, <2>2, <1>quiet
<1>complete. ASSUME worker \in Busy, NEW how \in {"ok", "frame", "silent", "error"},
                NEW frame \in Frames \cup {None}, Complete(how, frame),
                port' \in {"open", "closed"}, reader' \in BOOLEAN, readyTimer' \in BOOLEAN,
                session' \in Clients \cup {None}, rxFrames' \in Seq(Frames), bus' \subseteq Frames
         PROVE  Inv1'
  BY <1>complete, CompleteStep DEF TypeOK
<1>9. CASE SessionBegin
  <2>1. PICK how \in {"ok", "error"} : Complete(how, None)
    BY <1>9 DEF SessionBegin
  <2>. QED BY <1>9, <2>1, <1>complete DEF SessionBegin, Busy, TypeOK, WorkerHolds
<1>10. CASE SessionEnd
  <2>1. PICK how \in {"ok", "error"} : Complete(how, None)
    BY <1>10 DEF SessionEnd
  <2>. QED BY <1>10, <2>1, <1>complete DEF SessionEnd, Busy, TypeOK
<1>11. CASE BeginAttempt
  <2>1. attempt' \in 0..Attempts /\ txSeq' \in Nat /\ rxFrames' \in Seq(Frames)
    BY <1>11, NothingQueued, ConstantsAssumption DEF BeginAttempt, ClearPending, TypeOK, WorkerHolds
  <2>2. port' \in {"open", "closed"} /\ reader' \in BOOLEAN /\ readyTimer' \in BOOLEAN
    BY <1>11 DEF BeginAttempt, OpenPort, TypeOK
  <2>3. TypeOK'
    BY <1>11, <2>1, <2>2 DEF BeginAttempt, TypeOK, clientVars
  <2>4. WorkerHolds' /\ Quiet
    BY <1>11 DEF BeginAttempt, WorkerHolds, Busy, clientVars
  <2>. QED BY <2>3, <2>4, <1>quiet
<1>12. CASE ConnectFails
  BY <1>12, <1>complete DEF ConnectFails, Busy, TypeOK
<1>13. CASE WriteFrame
  <2>1. key[active] \in Requests
    BY <1>13 DEF WriteFrame, TypeOK, WorkerHolds, KeyKnown, Busy
  <2>2. key[active] \in Keys
    BY <2>1, ConstantsAssumption
  <2>3. key[active].func \in Funcs /\ key[active].addr \in Addrs \cup {Broadcast}
    BY <2>2 DEF Keys
  <2>4. bus' \subseteq Frames
    BY <1>13, <2>3 DEF WriteFrame, Frames, TypeOK
  <2>5. TypeOK'
    BY <1>13, <2>4 DEF WriteFrame, TypeOK, linkVars, clientVars
  <2>6. WorkerHolds' /\ Quiet
    BY <1>13 DEF WriteFrame, WorkerHolds, Busy, clientVars
  <2>. QED BY <2>5, <2>6, <1>quiet
<1>14. CASE WriteFails
  BY <1>14, <1>complete, NothingQueued DEF WriteFails, ClosePort, Busy, TypeOK
<1>15. CASE AwaitStopped
  BY <1>15, <1>complete DEF AwaitStopped, Busy, TypeOK
<1>16. CASE AwaitMatch
  <2>1. Head(rxFrames) \in Frames /\ Tail(rxFrames) \in Seq(Frames)
    BY <1>16, HeadTailProperties DEF AwaitMatch, TypeOK
  <2>. QED BY <1>16, <2>1, <1>complete DEF AwaitMatch, Busy, TypeOK
<1>17. CASE AwaitUnmatched
  <2>1. Tail(rxFrames) \in Seq(Frames)
    BY <1>17, HeadTailProperties DEF AwaitUnmatched, TypeOK
  <2>2. TypeOK'
    BY <1>17, <2>1 DEF AwaitUnmatched, TypeOK, linkVars, threadVars, clientVars
  <2>3. WorkerHolds' /\ Quiet
    BY <1>17 DEF AwaitUnmatched, WorkerHolds, threadVars, clientVars
  <2>. QED BY <2>2, <2>3, <1>quiet
<1>18. CASE AwaitRetry
  <2>1. TypeOK'
    BY <1>18 DEF AwaitRetry, TypeOK, linkVars, wireVars, clientVars
  <2>2. WorkerHolds' /\ Quiet
    BY <1>18 DEF AwaitRetry, TimedOut, WorkerHolds, Busy, clientVars
  <2>. QED BY <2>1, <2>2, <1>quiet
<1>19. CASE AwaitGivesUp
  BY <1>19, <1>complete DEF AwaitGivesUp, TimedOut, Busy, TypeOK
<1>20. CASE Receive
  <2>1. PICK f \in bus : /\ rxFrames' = Enqueue(rxFrames, [f EXCEPT !.at = txSeq])
                         /\ bus' = bus \ {f}
    BY <1>20 DEF Receive
  <2>2. f \in Frames /\ txSeq \in Nat
    BY <2>1 DEF TypeOK
  <2>3. [f EXCEPT !.at = txSeq] \in Frames
    BY <2>2 DEF Frames
  <2>4. rxFrames' \in Seq(Frames)
    <3>1. Len(rxFrames) >= MaxQueued => rxFrames # <<>>
      BY ConstantsAssumption, NothingQueued
    <3>. QED BY <2>1, <2>3, <3>1, HeadTailProperties, AppendProperties DEF Enqueue, TypeOK
  <2>5. TypeOK'
    BY <1>20, <2>1, <2>4 DEF Receive, TypeOK, linkVars, threadVars, clientVars
  <2>6. WorkerHolds' /\ Quiet
    BY <1>20 DEF Receive, WorkerHolds, threadVars, clientVars
  <2>. QED BY <2>5, <2>6, <1>quiet
<1>21. CASE Lose
  <2>1. TypeOK'
    BY <1>21 DEF Lose, TypeOK, linkVars, threadVars, clientVars
  <2>2. WorkerHolds' /\ Quiet
    BY <1>21 DEF Lose, WorkerHolds, threadVars, clientVars
  <2>. QED BY <2>1, <2>2, <1>quiet
<1>22. CASE ReaderFails
  <2>1. TypeOK'
    BY <1>22 DEF ReaderFails, TypeOK, threadVars, wireVars, clientVars
  <2>2. WorkerHolds' /\ Quiet
    BY <1>22 DEF ReaderFails, WorkerHolds, threadVars, clientVars
  <2>. QED BY <2>1, <2>2, <1>quiet
<1>23. ASSUME NEW c \in Clients, ClientStep(c) PROVE Inv1'
  <2>1. ASSUME NEW k \in Requests, SubmitData(c, k) PROVE Inv1'
    <3>1. Submit(c, IF inSession[c] THEN "data" ELSE "plain")
      BY <2>1 DEF SubmitData
    <3>2. /\ key' \in [Clients -> Requests \cup {None}] /\ key'[c] # None
          /\ inSession' \in [Clients -> BOOLEAN] /\ ops' \in [Clients -> Nat]
          /\ \A d \in Clients \ {c} : key'[d] = key[d]
      BY <2>1, NoneIsNoRequest DEF SubmitData, TypeOK
    <3>3. PICK kind \in {"plain", "begin", "data", "end"} : Submit(c, kind)
      BY <3>1
    <3>. QED BY <3>2, <3>3, SubmitStep DEF DataKinds
  <2>2. CASE SubmitBegin(c)
    <3>1. Submit(c, "begin")
      BY <2>2 DEF SubmitBegin
    <3>2. /\ key' \in [Clients -> Requests \cup {None}]
          /\ inSession' \in [Clients -> BOOLEAN] /\ ops' \in [Clients -> Nat]
          /\ \A d \in Clients \ {c} : key'[d] = key[d]
      BY <2>2 DEF SubmitBegin, TypeOK
    <3>. QED BY <3>1, <3>2, SubmitStep DEF DataKinds
  <2>3. CASE SubmitEnd(c)
    <3>1. Submit(c, "end")
      BY <2>3 DEF SubmitEnd
    <3>2. /\ key' \in [Clients -> Requests \cup {None}]
          /\ inSession' \in [Clients -> BOOLEAN] /\ ops' \in [Clients -> Nat]
          /\ \A d \in Clients \ {c} : key'[d] = key[d]
      BY <2>3 DEF SubmitEnd, TypeOK
    <3>. QED BY <3>1, <3>2, SubmitStep DEF DataKinds
  <2>4. CASE LeaveSession(c)
    <3>1. TypeOK'
      BY <2>4 DEF LeaveSession, TypeOK, linkVars, threadVars, wireVars
    <3>2. WorkerHolds' /\ KeyKnown' /\ Accounted'
      BY <2>4 DEF LeaveSession, WorkerHolds, KeyKnown, Accounted, Unanswered, threadVars
    <3>. QED BY <3>1, <3>2
  <2>5. CASE Return(c)
    <3>1. PICK b \in BOOLEAN : inSession' = [inSession EXCEPT ![c] = b]
      BY <2>5, Zenon DEF Return
    <3>2. /\ outcome[c] # "none" /\ outcome' = [outcome EXCEPT ![c] = "none"]
          /\ reply' = [reply EXCEPT ![c] = None] /\ req' = [req EXCEPT ![c] = "none"]
          /\ UNCHANGED <<isShutdown, joining, linkVars, threadVars, queue, session,
                         wireVars, key, ops>>
      BY <2>5 DEF Return
    <3>3. TypeOK'
      BY <3>1, <3>2 DEF TypeOK, linkVars, threadVars, wireVars
    <3>4. active # c
      BY <3>2, NoneIsNoRequest DEF Accounted, Unanswered
    <3>5. WorkerHolds' /\ KeyKnown'
      BY <3>2, <3>4 DEF WorkerHolds, KeyKnown, Busy, TypeOK, threadVars, DataKinds
    <3>6. Accounted'
      BY <3>2, <3>4, ElementOfSeq DEF Accounted, Unanswered, TypeOK, threadVars
    <3>. QED BY <3>3, <3>5, <3>6
  <2>. QED BY <1>23, <2>1, <2>2, <2>3, <2>4, <2>5 DEF ClientStep
<1>24. CASE UNCHANGED vars
  <2>1. TypeOK' /\ WorkerHolds' /\ Quiet
    BY <1>24 DEF vars, TypeOK, WorkerHolds, linkVars, threadVars, wireVars, clientVars
  <2>. QED BY <2>1, <1>quiet
<1>. HIDE DEF Inv1
<1>. QED
  BY <1>1, <1>2, <1>3, <1>4, <1>5, <1>6, <1>7, <1>8, <1>9, <1>10, <1>11, <1>12,
     <1>13, <1>14, <1>15, <1>16, <1>17, <1>18, <1>19, <1>20, <1>21, <1>22, <1>23, <1>24
  DEF Next, WorkerStep, ReactorStep, WireStep

LEMMA Inv1Always == Spec => []Inv1
BY Inv1Init, Inv1Step, PTL DEF Spec

\* The types of the transport's state hold in every reachable state.
THEOREM TypeCorrect == Spec => []TypeOK
<1>1. Inv1 => TypeOK
  BY DEF Inv1
<1>. QED BY Inv1Always, <1>1, PTL

\* No request is ever lost or doubled between a client, the queue and the
\* worker, for any number of clients.
THEOREM RequestsAccounted == Spec => []RequestAccounted
<1>1. Inv1 => RequestAccounted
  <2>. SUFFICES ASSUME Inv1, NEW c \in Clients
                PROVE  LET places == {i \in 1..Len(queue) : queue[i] = c}
                       IN  IF Waiting(c)
                           THEN \/ \E i \in places :
                                      places = {i} /\ active # c /\ outcome[c] = "none"
                                \/ places = {} /\ active = c /\ outcome[c] = "none"
                                \/ places = {} /\ active # c /\ outcome[c] # "none"
                           ELSE places = {} /\ active # c /\ outcome[c] = "none"
    BY DEF RequestAccounted
  <2>. DEFINE places == {i \in 1..Len(queue) : queue[i] = c}
  <2>1. \A i \in places : places = {i} /\ active # c /\ Unanswered(c)
    BY DEF Inv1, Accounted
  <2>2. active = c => Unanswered(c) /\ places = {}
    BY NoneIsNoRequest DEF Inv1, Accounted
  <2>3. Unanswered(c) => active = c \/ places # {}
    BY DEF Inv1, Accounted
  <2>4. outcome[c] # "none" => req[c] # "none"
    BY DEF Inv1, Accounted
  <2>. QED BY <2>1, <2>2, <2>3, <2>4 DEF Waiting, Unanswered
<1>. QED BY Inv1Always, <1>1, PTL

-----------------------------------------------------------------------------
(* Layer 2: who owns the bus.                                              *)

\* Until a shutdown the worker is never told to stop, and the owner of the
\* session is found from each client's own view: inside its with block it is
\* the owner; entering, it is the owner exactly when its request succeeded;
\* leaving, it is the owner exactly until its request completed.
SessionViews ==
    \A c \in Clients :
        /\ inSession[c] => session = c /\ req[c] \notin {"begin", "end", "plain"}
        /\ req[c] = "data" => inSession[c]
        /\ req[c] = "begin" => (session = c <=> outcome[c] = "ok")
        /\ req[c] = "end" => (session = c <=> outcome[c] = "none")
        /\ session = c => inSession[c] \/ req[c] \in {"begin", "end"}

Inv2 ==
    /\ stop \/ joining => isShutdown
    /\ SessionExclusive
    /\ ~isShutdown => SessionViews

LEMMA Inv2Init == Init => Inv2
BY NoneIsNoRequest DEF Init, Inv2, SessionExclusive, SessionViews

LEMMA Inv2Step == Inv1 /\ Inv1' /\ Inv2 /\ [Next]_vars => Inv2'
<1>. SUFFICES ASSUME Inv1, Inv1', Inv2, [Next]_vars PROVE Inv2'
  OBVIOUS
<1>. DEFINE Same == UNCHANGED <<session, active, req, outcome, inSession, stop>>
<1>same. ASSUME Same, isShutdown => isShutdown', joining' => isShutdown',
                worker' \in Busy => worker \in Busy
         PROVE  Inv2'
  BY <1>same DEF Inv2, SessionExclusive, SessionViews, Busy
<1>. USE DEF Busy, threadVars, clientVars, linkVars, wireVars
<1>1. CASE HandleConnect
  BY <1>1, NoneIsNoRequest DEF HandleConnect, EnsureWorker, Inv1, WorkerHolds, Inv2,
     SessionExclusive, SessionViews
<1>2. CASE EmitReady \/ HandleDisconnect \/ Receive \/ Lose \/ ReaderFails
            \/ AwaitUnmatched \/ AwaitRetry \/ WorkerExit \/ WriteFrame
  BY <1>2, <1>same DEF EmitReady, HandleDisconnect, Receive, Lose, ReaderFails, AwaitUnmatched,
     AwaitRetry, TimedOut, WorkerExit, WriteFrame, Inv2
<1>3. CASE BeginAttempt
  BY <1>3, <1>same DEF BeginAttempt, Inv2
<1>4. CASE HandleShutdown
  BY <1>4 DEF HandleShutdown, Inv2, SessionExclusive
<1>5. CASE JoinDone
  BY <1>5 DEF JoinDone, Inv2, SessionExclusive, Inv1, WorkerHolds
<1>6. CASE WorkerPick
  <2>1. PICK i \in 1..Len(queue) : IsNext(i) /\ active' = queue[i]
    BY <1>6 DEF WorkerPick
  <2>2. session = None \/ (session = active' /\ req[active'] \in SessionKinds)
    BY <2>1 DEF IsNext, Eligible
  <2>. QED BY <1>6, <2>2 DEF WorkerPick, Inv2, SessionExclusive, SessionViews
<1>7. CASE WorkerDrain
  BY <1>7 DEF WorkerDrain, Inv2, SessionExclusive
<1>complete. ASSUME worker \in Busy, NEW how, NEW frame, Complete(how, frame),
                    how # "none", session' = session,
                    req[active] \in DataKinds
             PROVE  Inv2'
  <2>1. /\ active' = None /\ worker' = "idle" /\ active \in Clients
        /\ \A c \in Clients : outcome'[c] = IF c = active THEN how ELSE outcome[c]
        /\ UNCHANGED <<isShutdown, joining, stop, req, inSession, session>>
    BY <1>complete DEF Complete, Inv1, TypeOK, WorkerHolds
  <2>. QED BY <1>complete, <2>1 DEF Inv2, SessionExclusive, SessionViews, DataKinds
<1>8. CASE ConnectFails \/ WriteFails \/ AwaitStopped
  <2>1. Complete("error", None) /\ session' = session /\ worker \in Busy
    BY <1>8 DEF ConnectFails, WriteFails, AwaitStopped
  <2>2. req[active] \in DataKinds
    BY <1>8 DEF ConnectFails, WriteFails, AwaitStopped, Inv1, WorkerHolds
  <2>. QED BY <2>1, <2>2, <1>complete
<1>9. CASE AwaitMatch \/ AwaitGivesUp
  <2>1. /\ Complete("frame", Head(rxFrames)) \/ Complete("silent", None)
        /\ session' = session /\ worker \in Busy
    BY <1>9 DEF AwaitMatch, AwaitGivesUp, TimedOut
  <2>2. req[active] \in DataKinds
    BY <1>9 DEF AwaitMatch, AwaitGivesUp, TimedOut, Inv1, WorkerHolds
  <2>. QED BY <2>1, <2>2, <1>complete
<1>10. CASE SessionBegin
  <2>1. PICK how \in {"ok", "error"} :
            Complete(how, None) /\ (how = "ok" <=> session = None)
    BY <1>10 DEF SessionBegin
  <2>2. /\ active' = None /\ worker' = "idle" /\ active \in Clients
        /\ \A c \in Clients : outcome'[c] = IF c = active THEN how ELSE outcome[c]
        /\ UNCHANGED <<isShutdown, joining, stop, req, inSession>>
        /\ req[active] = "begin" /\ outcome[active] = "none"
        /\ session' = IF session = None THEN active ELSE session
    BY <1>10, <2>1 DEF SessionBegin, Complete, Inv1, TypeOK, WorkerHolds, Accounted, Unanswered
  <2>. QED BY <2>1, <2>2, NoneIsNoRequest DEF Inv2, SessionExclusive, SessionViews
<1>11. CASE SessionEnd
  <2>1. PICK how \in {"ok", "error"} :
            Complete(how, None) /\ (how = "ok" <=> session = active)
    BY <1>11 DEF SessionEnd
  <2>2. /\ active' = None /\ worker' = "idle" /\ active \in Clients
        /\ \A c \in Clients : outcome'[c] = IF c = active THEN how ELSE outcome[c]
        /\ UNCHANGED <<isShutdown, joining, stop, req, inSession>>
        /\ req[active] = "end" /\ outcome[active] = "none"
        /\ session' = IF session = active THEN None ELSE session
    BY <1>11, <2>1 DEF SessionEnd, Complete, Inv1, TypeOK, WorkerHolds, Accounted, Unanswered
  <2>. QED BY <2>1, <2>2, NoneIsNoRequest DEF Inv2, SessionExclusive, SessionViews
<1>12. ASSUME NEW c \in Clients, ClientStep(c) PROVE Inv2'
  <2>submit. ASSUME NEW kind, Submit(c, kind),
                    \A d \in Clients \ {c} : inSession'[d] = inSession[d]
             PROVE  /\ ~isShutdown /\ ~isShutdown' /\ ~joining /\ ~joining' /\ ~stop'
                    /\ req[c] = "none" /\ req'[c] = kind /\ outcome'[c] = "none"
                    /\ \A d \in Clients \ {c} : req'[d] = req[d]
                    /\ UNCHANGED <<session, active, outcome>>
                    /\ SessionExclusive'
    <3>1. /\ ~isShutdown /\ ~isShutdown' /\ ~joining /\ ~joining' /\ ~stop'
          /\ req[c] = "none" /\ req'[c] = kind
          /\ \A d \in Clients \ {c} : req'[d] = req[d]
          /\ UNCHANGED <<session, active, outcome>>
      BY <2>submit DEF Submit, EnsureWorker, Inv1, TypeOK, Inv2
    <3>2. outcome[c] = "none" /\ active # c
      BY <3>1, NoneIsNoRequest DEF Inv1, Accounted, Unanswered
    <3>3. worker' \in Busy => worker \in Busy
      BY <2>submit DEF Submit, EnsureWorker
    <3>4. worker' \in Busy => active \in Clients \ {c}
      BY <3>2, <3>3 DEF Inv1, WorkerHolds, TypeOK
    <3>5. SessionExclusive'
      BY <3>1, <3>3, <3>4 DEF Inv2, SessionExclusive
    <3>. QED BY <3>1, <3>2, <3>5
  <2>1. ASSUME NEW k \in Requests, SubmitData(c, k) PROVE Inv2'
    <3>1. PICK kind : Submit(c, kind) /\ kind = IF inSession[c] THEN "data" ELSE "plain"
      BY <2>1 DEF SubmitData
    <3>2. inSession' = inSession
      BY <2>1 DEF SubmitData
    <3>. QED BY <3>1, <3>2, <2>submit DEF Inv2, SessionViews
  <2>2. CASE SubmitBegin(c)
    <3>1. Submit(c, "begin") /\ ~inSession[c] /\ inSession' = inSession
      BY <2>2 DEF SubmitBegin
    <3>. QED BY <3>1, <2>submit DEF Inv2, SessionViews
  <2>3. CASE SubmitEnd(c)
    <3>1. /\ Submit(c, "end") /\ inSession[c] /\ ~inSession'[c]
          /\ \A d \in Clients \ {c} : inSession'[d] = inSession[d]
      BY <2>3 DEF SubmitEnd, Inv1, TypeOK
    <3>. QED BY <3>1, <2>submit DEF Inv2, SessionViews
  <2>4. CASE LeaveSession(c)
    BY <2>4 DEF LeaveSession, Inv2, SessionExclusive
  <2>5. CASE Return(c)
    <3>1. /\ outcome[c] # "none" /\ active # c
          /\ \A d \in Clients : /\ req'[d] = IF d = c THEN "none" ELSE req[d]
                                /\ outcome'[d] = IF d = c THEN "none" ELSE outcome[d]
          /\ UNCHANGED <<isShutdown, joining, worker, stop, session, active>>
      BY <2>5, NoneIsNoRequest DEF Return, Inv1, TypeOK, Accounted, Unanswered
    <3>2. PICK b \in BOOLEAN :
              /\ b <=> inSession[c] \/ (req[c] = "begin" /\ outcome[c] = "ok")
              /\ inSession' = [inSession EXCEPT ![c] = b]
      BY <2>5, Zenon DEF Return, Inv1, TypeOK
    <3>3. \A d \in Clients : inSession'[d] = IF d = c THEN b ELSE inSession[d]
      BY <3>2 DEF Inv1, TypeOK
    <3>4. SessionExclusive'
      BY <3>1 DEF Inv2, SessionExclusive, Inv1, WorkerHolds, TypeOK
    <3>. QED BY <3>1, <3>2, <3>3, <3>4 DEF Inv2, SessionViews
  <2>. QED BY <1>12, <2>1, <2>2, <2>3, <2>4, <2>5 DEF ClientStep
<1>13. CASE UNCHANGED vars
  BY <1>13, <1>same DEF vars, Inv2
<1>. QED
  BY <1>1, <1>2, <1>3, <1>4, <1>5, <1>6, <1>7, <1>8, <1>9, <1>10, <1>11, <1>12, <1>13
  DEF Next, WorkerStep, ReactorStep, WireStep

LEMMA Inv2Always == Spec => []Inv2
BY Inv1Always, Inv2Init, Inv2Step, PTL DEF Spec

\* Inside one client's session the worker transmits for nobody else, for any
\* number of clients and any interleaving with connects and shutdowns.
THEOREM SessionsExclusive == Spec => []SessionExclusive
<1>1. Inv2 => SessionExclusive
  BY DEF Inv2
<1>. QED BY Inv2Always, <1>1, PTL

\* Until a shutdown, each client's view of its session is the worker's.
THEOREM SessionsAgree == Spec => []SessionAgreement
<1>1. Inv1 /\ Inv2 => SessionAgreement
  BY DEF Inv1, TypeOK, Inv2, SessionViews, SessionAgreement
<1>. QED BY Inv1Always, Inv2Always, <1>1, PTL

-----------------------------------------------------------------------------
(* The transport implements BusService.                                    *)

LEMMA ServiceInit == Init => Service!Init
BY DEF Init, Service!Init, phase, Waiting

LEMMA ServiceStep == Inv1 /\ Inv2 /\ [Next]_vars => [Service!Next]_Service!vars
<1>. SUFFICES ASSUME Inv1, Inv2, [Next]_vars PROVE [Service!Next]_Service!vars
  OBVIOUS
<1>. DEFINE Stutter == UNCHANGED <<req, outcome, active, session>>
<1>stutter. ASSUME Stutter PROVE UNCHANGED Service!vars
  BY <1>stutter DEF Service!vars, phase, Waiting
<1>. USE DEF threadVars, clientVars, linkVars, wireVars, Busy
<1>1. CASE HandleConnect \/ EmitReady \/ HandleDisconnect \/ HandleShutdown \/ WorkerExit
            \/ BeginAttempt \/ WriteFrame
  <2>1. Stutter
    BY <1>1 DEF HandleConnect, EmitReady, HandleDisconnect, HandleShutdown, WorkerExit,
       BeginAttempt, WriteFrame
  <2>. QED BY <2>1, <1>stutter
<1>2. CASE AwaitUnmatched \/ AwaitRetry \/ WireStep
  <2>1. Stutter
    BY <1>2 DEF AwaitUnmatched, AwaitRetry, WireStep, Receive, Lose, ReaderFails
  <2>. QED BY <2>1, <1>stutter
<1>3. CASE JoinDone
  <2>1. CASE worker = "down"
    <3>1. active = None /\ active' = None /\ session' = None /\ UNCHANGED <<req, outcome>>
      BY <1>3, <2>1 DEF JoinDone, Inv1, WorkerHolds
    <3>2. Service!ForgetSession
      BY <3>1 DEF Service!ForgetSession, phase, Waiting
    <3>. QED BY <3>2 DEF Service!Next
  <2>2. CASE worker # "down"
    <3>1. Stutter
      BY <1>3, <2>2 DEF JoinDone
    <3>. QED BY <3>1, <1>stutter
  <2>. QED BY <2>1, <2>2
<1>4. CASE WorkerPick
  <2>1. PICK i \in 1..Len(queue) : IsNext(i) /\ active' = queue[i]
    BY <1>4 DEF WorkerPick
  <2>2. active' \in Clients /\ session \in {None, active'} /\ Unanswered(active')
    BY <2>1, ElementOfSeq DEF IsNext, Eligible, Inv1, TypeOK, Accounted
  <2>3. active = None /\ UNCHANGED <<req, outcome, session>>
    BY <1>4 DEF WorkerPick, Inv1, WorkerHolds
  <2>4. Service!Serve(active')
    BY <2>2, <2>3 DEF Service!Serve, phase, Waiting, Unanswered
  <2>. QED BY <2>2, <2>4 DEF Service!Next
<1>5. CASE WorkerDrain
  <2>1. /\ active = None /\ UNCHANGED <<req, active, session>>
        /\ outcome' = [c \in Clients |-> IF Contains(queue, c) THEN "error" ELSE outcome[c]]
    BY <1>5 DEF WorkerDrain, Inv1, WorkerHolds
  <2>2. \A c \in Clients : Contains(queue, c) <=> Unanswered(c)
    BY <2>1, NoneIsNoRequest DEF Contains, Inv1, Accounted
  <2>3. phase' = [c \in Clients |-> IF phase[c] = "asked" THEN "answered" ELSE phase[c]]
    BY <2>1, <2>2 DEF phase, Waiting, Unanswered
  <2>4. Service!RefuseAll
    BY <2>1, <2>3 DEF Service!RefuseAll
  <2>. QED BY <2>4 DEF Service!Next
<1>complete. ASSUME worker \in Busy, NEW how \in {"ok", "frame", "silent", "error"}, NEW frame,
                    Complete(how, frame), session' \in {session, None, active}
             PROVE  [Service!Next]_Service!vars
  <2>1. /\ active \in Clients /\ Unanswered(active) /\ active' = None /\ req' = req
        /\ outcome' = [outcome EXCEPT ![active] = how] /\ outcome \in [Clients -> {"none", "ok", "frame", "silent", "error"}]
    BY <1>complete DEF Complete, Inv1, TypeOK, WorkerHolds, Accounted
  <2>2. phase' = [phase EXCEPT ![active] = "answered"]
    BY <2>1 DEF phase, Waiting, Unanswered
  <2>3. Service!Finish(active)
    BY <1>complete, <2>1, <2>2 DEF Service!Finish
  <2>. QED BY <2>1, <2>3 DEF Service!Next
<1>6. CASE SessionBegin \/ SessionEnd
  <2>1. /\ worker \in Busy /\ session' \in {session, None, active}
        /\ Complete("ok", None) \/ Complete("error", None)
    BY <1>6 DEF SessionBegin, SessionEnd
  <2>. QED BY <2>1, <1>complete
<1>7. CASE ConnectFails \/ WriteFails \/ AwaitStopped \/ AwaitMatch \/ AwaitGivesUp
  <2>1. /\ worker \in Busy /\ session' = session
        /\ \/ Complete("error", None) \/ Complete("silent", None)
           \/ Complete("frame", Head(rxFrames))
    BY <1>7 DEF ConnectFails, WriteFails, AwaitStopped, AwaitMatch, AwaitGivesUp, TimedOut
  <2>. QED BY <2>1, <1>complete
<1>8. ASSUME NEW c \in Clients, ClientStep(c) PROVE [Service!Next]_Service!vars
  <2>submit. ASSUME NEW kind \in {"plain", "begin", "data", "end"}, Submit(c, kind)
             PROVE  [Service!Next]_Service!vars
    <3>1. /\ req[c] = "none" /\ req' = [req EXCEPT ![c] = kind]
          /\ req \in [Clients -> {"none", "plain"} \cup SessionKinds]
          /\ UNCHANGED <<active, session, outcome>> /\ outcome[c] = "none"
      BY <2>submit DEF Submit, Inv1, TypeOK, Accounted
    <3>2. phase[c] = "idle" /\ phase' = [phase EXCEPT ![c] = "asked"]
      BY <3>1 DEF phase, Waiting
    <3>3. Service!Ask(c)
      BY <3>1, <3>2 DEF Service!Ask
    <3>. QED BY <3>3 DEF Service!Next
  <2>1. ASSUME NEW k \in Requests, SubmitData(c, k) PROVE [Service!Next]_Service!vars
    BY <2>1, <2>submit DEF SubmitData
  <2>2. CASE SubmitBegin(c) \/ SubmitEnd(c)
    BY <2>2, <2>submit DEF SubmitBegin, SubmitEnd
  <2>3. CASE LeaveSession(c)
    <3>1. Stutter
      BY <2>3 DEF LeaveSession
    <3>. QED BY <3>1, <1>stutter
  <2>4. CASE Return(c)
    <3>1. /\ outcome[c] # "none" /\ req[c] # "none"
          /\ req' = [req EXCEPT ![c] = "none"] /\ outcome' = [outcome EXCEPT ![c] = "none"]
          /\ req \in [Clients -> {"none", "plain"} \cup SessionKinds]
          /\ outcome \in [Clients -> {"none", "ok", "frame", "silent", "error"}]
          /\ UNCHANGED <<active, session>>
      BY <2>4 DEF Return, Inv1, TypeOK, Accounted
    <3>2. phase[c] = "answered" /\ phase' = [phase EXCEPT ![c] = "idle"]
      BY <3>1 DEF phase, Waiting
    <3>3. Service!Return(c)
      BY <3>1, <3>2 DEF Service!Return
    <3>. QED BY <3>3 DEF Service!Next
  <2>. QED BY <1>8, <2>1, <2>2, <2>3, <2>4 DEF ClientStep
<1>9. CASE UNCHANGED vars
  BY <1>9, <1>stutter DEF vars
<1>. QED
  BY <1>1, <1>2, <1>3, <1>4, <1>5, <1>6, <1>7, <1>8, <1>9 DEF Next, WorkerStep, ReactorStep

\* The threads, the queue and the port implement a bus that serves one request
\* at a time and keeps sessions apart.
THEOREM ServiceImplemented == Spec => ImplementsService
BY Inv1Always, Inv2Always, ServiceInit, ServiceStep, PTL
DEF Spec, ImplementsService, Service!Spec
-----------------------------------------------------------------------------
(* Whose answer a client is given.                                         *)

\* Every frame that waits was received since the last attempt began.
Fresh == \A i \in 1..Len(rxFrames) : rxFrames[i].at = txSeq

\* What a step delivers.
Delivery ==
    \A c \in Clients : outcome[c] = "none" /\ outcome'[c] = "frame" =>
        reply'[c].at = txSeq /\ Matches(key[c], reply'[c])

LEMMA FreshInit == Init => Fresh
BY NothingQueued DEF Init, Fresh

\* The oldest frame goes, at the head or because the queue is full.
LEMMA OldestGoes ==
    ASSUME TypeOK, Fresh, rxFrames # <<>>
    PROVE  /\ Tail(rxFrames) \in Seq(Frames) /\ Head(rxFrames) \in Frames
           /\ Head(rxFrames).at = txSeq
           /\ \A i \in 1..Len(Tail(rxFrames)) : Tail(rxFrames)[i].at = txSeq
<1>1. rxFrames \in Seq(Frames) /\ Len(rxFrames) > 0
  BY EmptySeq DEF TypeOK
<1>2. /\ Tail(rxFrames) \in Seq(Frames) /\ Head(rxFrames) = rxFrames[1]
      /\ Len(Tail(rxFrames)) = Len(rxFrames) - 1
      /\ \A i \in 1..Len(Tail(rxFrames)) : Tail(rxFrames)[i] = rxFrames[i + 1]
  BY <1>1, HeadTailProperties
<1>3. rxFrames[1] \in Frames /\ rxFrames[1].at = txSeq
  BY <1>1, ElementOfSeq DEF Fresh
<1>4. \A i \in 1..Len(Tail(rxFrames)) : Tail(rxFrames)[i].at = txSeq
  BY <1>1, <1>2 DEF Fresh
<1>. QED BY <1>2, <1>3, <1>4

LEMMA ReceivedFresh ==
    ASSUME TypeOK, Fresh, Receive
    PROVE  Fresh'
<1>. DEFINE kept == IF Len(rxFrames) >= MaxQueued THEN Tail(rxFrames) ELSE rxFrames
<1>1. PICK f \in bus : rxFrames' = Append(kept, [f EXCEPT !.at = txSeq]) /\ txSeq' = txSeq
  BY DEF Receive, Enqueue
<1>2. f \in Frames
  BY DEF TypeOK
<1>3. kept \in Seq(Frames) /\ \A i \in 1..Len(kept) : kept[i].at = txSeq
  <2>1. Len(rxFrames) >= MaxQueued => rxFrames # <<>>
    BY ConstantsAssumption, NothingQueued
  <2>. QED BY <2>1, OldestGoes DEF TypeOK, Fresh
<1>. DEFINE new == [f EXCEPT !.at = txSeq]
<1>4. new \in Frames /\ new.at = txSeq
  BY <1>2 DEF Frames, TypeOK
<1>. HIDE DEF kept, new
<1>5. /\ Len(Append(kept, new)) = Len(kept) + 1 /\ Append(kept, new)[Len(kept) + 1] = new
      /\ \A i \in 1..Len(kept) : Append(kept, new)[i] = kept[i]
  BY <1>3, <1>4
<1>6. \A i \in 1..(Len(kept) + 1) : i \in 1..Len(kept) \/ i = Len(kept) + 1
  BY <1>3
<1>7. rxFrames' = Append(kept, new) /\ txSeq' = txSeq
  BY <1>1 DEF kept, new
<1>. QED BY <1>3, <1>4, <1>5, <1>6, <1>7 DEF Fresh

LEMMA FreshStep == Inv1 /\ Fresh /\ [Next]_vars => Fresh'
<1>. SUFFICES ASSUME Inv1, Fresh, [Next]_vars PROVE Fresh'
  OBVIOUS
<1>. USE DEF linkVars, threadVars, wireVars, clientVars
<1>0. TypeOK
  BY DEF Inv1
<1>1. CASE UNCHANGED <<rxFrames, txSeq>>
  BY <1>1 DEF Fresh
<1>2. CASE rxFrames' = <<>>
  BY <1>2, NothingQueued DEF Fresh
<1>3. CASE rxFrames # <<>> /\ rxFrames' = Tail(rxFrames) /\ txSeq' = txSeq
  BY <1>0, <1>3, OldestGoes DEF Fresh
<1>4. CASE WorkerPick \/ WorkerDrain \/ WorkerExit \/ WriteFrame \/ AwaitRetry \/ Lose \/ ReaderFails
  BY <1>1, <1>4 DEF WorkerPick, WorkerDrain, WorkerExit, WriteFrame, AwaitRetry, Lose, ReaderFails
<1>5. CASE SessionBegin \/ SessionEnd \/ ConnectFails \/ AwaitStopped \/ AwaitGivesUp
  BY <1>1, <1>5 DEF SessionBegin, SessionEnd, ConnectFails, AwaitStopped, AwaitGivesUp, Complete
<1>6. CASE BeginAttempt \/ WriteFails
  BY <1>2, <1>6 DEF BeginAttempt, ClearPending, WriteFails, ClosePort
<1>7. CASE AwaitMatch \/ AwaitUnmatched
  BY <1>3, <1>7 DEF AwaitMatch, AwaitUnmatched, Complete
<1>8. CASE Receive
  BY <1>0, <1>8, ReceivedFresh
<1>9. CASE HandleConnect \/ EmitReady \/ HandleDisconnect \/ HandleShutdown \/ JoinDone
  BY <1>1, <1>2, <1>9 DEF HandleConnect, EmitReady, HandleDisconnect, HandleShutdown, JoinDone,
     ClosePort
<1>10. CASE \E c \in Clients : ClientStep(c)
  BY <1>1, <1>10 DEF ClientStep, SubmitData, SubmitBegin, SubmitEnd, LeaveSession, Return, Submit
<1>11. CASE UNCHANGED vars
  BY <1>1, <1>11 DEF vars
<1>. QED
  BY <1>4, <1>5, <1>6, <1>7, <1>8, <1>9, <1>10, <1>11 DEF Next, WorkerStep, ReactorStep, WireStep

\* Only a frame that matches completes a request with a frame.
LEMMA DeliveryStep == Inv1 /\ Fresh /\ [Next]_vars => Delivery
<1>. SUFFICES ASSUME Inv1, Fresh, [Next]_vars, NEW c \in Clients,
                     outcome[c] = "none", outcome'[c] = "frame"
              PROVE  reply'[c].at = txSeq /\ Matches(key[c], reply'[c])
  BY DEF Delivery
<1>. USE DEF linkVars, threadVars, wireVars, clientVars
<1>1. outcome \in [Clients -> {"none", "ok", "frame", "silent", "error"}]
      /\ reply \in [Clients -> Frames \cup {None}] /\ outcome' # outcome
  BY DEF Inv1, TypeOK
<1>2. CASE AwaitMatch
  <2>1. Matches(key[active], Head(rxFrames)) /\ rxFrames # <<>>
        /\ outcome' = [outcome EXCEPT ![active] = "frame"]
        /\ reply' = [reply EXCEPT ![active] = Head(rxFrames)]
    BY <1>2 DEF AwaitMatch, Complete
  <2>2. c = active
    BY <1>1, <2>1
  <2>. QED BY <1>1, <2>1, <2>2, OldestGoes DEF Inv1
<1>3. CASE SessionBegin \/ SessionEnd
  <2>1. PICK how \in {"ok", "error"} : outcome' = [outcome EXCEPT ![active] = how]
    BY <1>3 DEF SessionBegin, SessionEnd, Complete
  <2>. QED BY <1>1, <2>1
<1>4. CASE ConnectFails \/ WriteFails \/ AwaitStopped \/ AwaitGivesUp
  BY <1>1, <1>4 DEF ConnectFails, WriteFails, AwaitStopped, AwaitGivesUp, Complete
<1>5. CASE WorkerDrain
  BY <1>1, <1>5 DEF WorkerDrain
<1>6. CASE \E d \in Clients : Return(d)
  BY <1>1, <1>6 DEF Return
<1>7. CASE UNCHANGED outcome
  BY <1>1, <1>7
<1>8. CASE \/ WorkerPick \/ WorkerExit \/ BeginAttempt \/ WriteFrame \/ AwaitUnmatched \/ AwaitRetry
           \/ WireStep
  BY <1>7, <1>8 DEF WorkerPick, WorkerExit, BeginAttempt, WriteFrame, AwaitUnmatched, AwaitRetry,
     WireStep, Receive, Lose, ReaderFails
<1>9. CASE ReactorStep \/ UNCHANGED vars
  BY <1>7, <1>9 DEF ReactorStep, HandleConnect, EmitReady, HandleDisconnect, HandleShutdown,
     JoinDone, vars
<1>10. CASE \E d \in Clients : ClientStep(d) /\ ~Return(d)
  BY <1>7, <1>10 DEF ClientStep, SubmitData, SubmitBegin, SubmitEnd, LeaveSession, Submit
<1>. QED
  BY <1>2, <1>3, <1>4, <1>5, <1>6, <1>8, <1>9, <1>10 DEF Next, WorkerStep, ClientStep

\* A client is only given a frame that was received during the last attempt of
\* its own request and that answers it, whatever devices deliver late.
THEOREM RepliesFresh == Spec => ReplyFresh
<1>1. Inv1 /\ Fresh /\ [Next]_vars => [Delivery]_vars
  BY DeliveryStep
<1>2. Spec => []Fresh
  BY Inv1Always, FreshInit, FreshStep, PTL DEF Spec
<1>3. Spec => [][Delivery]_vars
  BY Inv1Always, <1>1, <1>2, PTL DEF Spec
<1>. QED BY <1>3 DEF ReplyFresh, Delivery
=============================================================================
