----------------------------- MODULE Serial485 -----------------------------
(***************************************************************************)
(* The RS-485 master of extras/serial_485.py: Klipper greenlets (Clients)  *)
(* queue requests, one worker thread puts them on the wire and waits for   *)
(* the answer, a reader thread queues received frames, and the reactor     *)
(* thread connects, disconnects and shuts the transport down.              *)
(*                                                                         *)
(* Greenlets run on the reactor thread, so a submission is one atomic step *)
(* and no greenlet runs while a shutdown handler joins the worker.  A      *)
(* frame is abstracted to its address, its function code and a history     *)
(* field: the transmission during which it was received (0: not yet).  A   *)
(* device may answer at any later time, after the request gave up too.     *)
(***************************************************************************)
EXTENDS Integers, Sequences, SequencesExt

CONSTANTS
    Clients,      \* greenlets that use the transport
    Addrs,        \* unicast device addresses
    Funcs,        \* function codes
    Requests,     \* the requests that clients send
    Broadcast,    \* the broadcast address (0xFE, 0xFF)
    None,         \* absence of a client, a frame or a key
    Attempts,     \* attempts of a request before it returns no response
    MaxQueued,    \* max_queued_frames
    MaxOps        \* bound: requests one client submits

Keys == [addr : Addrs \cup {Broadcast}, func : Funcs]
Frames == [addr : Addrs \cup {Broadcast}, func : Funcs, at : Nat]

ASSUME ConstantsAssumption ==
    /\ Broadcast \notin Addrs
    /\ Requests \subseteq Keys
    /\ None \notin Clients \cup Frames \cup Keys
    /\ Attempts \in Nat \ {0} /\ MaxQueued \in Nat \ {0} /\ MaxOps \in Nat

VARIABLES
    isShutdown,   \* printer.is_shutdown()
    joining,      \* a shutdown handler holds _connect_lock and joins the worker
    port,         \* _serial / _connected
    reader,       \* the reader thread is alive
    readyTimer,   \* the serial_485:ready timer is armed
    announced,    \* serial_485:ready has been sent
    worker,       \* where the request worker thread is
    stop,         \* _stop_request_worker, with its error
    queue,        \* _request_queue, by client (a client waits for one request)
    active,       \* _active_request
    session,      \* _request_session, by the client that owns the token
    attempt,      \* attempts made for the active request
    txSeq,        \* history: transmissions begun so far
    rxFrames,     \* _rx_frames
    bus,          \* answers the devices have not delivered yet
    req,          \* per client: the request it waits for
    key,          \* per client: address and function of its last data request
    inSession,    \* per client: _Serial485Session.active
    outcome,      \* per client: how its request completed
    reply,        \* per client: the frame delivered to it
    ops           \* per client: requests left (bound MaxOps)

threadVars == <<worker, stop, active, attempt>>
clientVars == <<req, key, inSession, outcome, reply, ops>>
linkVars   == <<port, reader, readyTimer, announced>>
wireVars   == <<txSeq, rxFrames, bus>>
vars == <<isShutdown, joining, linkVars, threadVars, queue, session, wireVars, clientVars>>

DataKinds    == {"plain", "data"}
SessionKinds == {"begin", "data", "end"}

TypeOK ==
    /\ isShutdown \in BOOLEAN /\ joining \in BOOLEAN /\ stop \in BOOLEAN
    /\ port \in {"open", "closed"}
    /\ reader \in BOOLEAN /\ readyTimer \in BOOLEAN /\ announced \in BOOLEAN
    /\ worker \in {"down", "idle", "claimed", "write", "await"}
    /\ queue \in Seq(Clients)
    /\ active \in Clients \cup {None} /\ session \in Clients \cup {None}
    /\ attempt \in 0..Attempts /\ txSeq \in Nat
    /\ rxFrames \in Seq(Frames) /\ bus \subseteq Frames
    /\ req \in [Clients -> {"none", "plain"} \cup SessionKinds]
    /\ key \in [Clients -> Requests \cup {None}]
    /\ inSession \in [Clients -> BOOLEAN]
    /\ outcome \in [Clients -> {"none", "ok", "frame", "silent", "error"}]
    /\ reply \in [Clients -> Frames \cup {None}]
    /\ ops \in [Clients -> Nat]

Init ==
    /\ isShutdown = FALSE /\ joining = FALSE
    /\ port = "closed" /\ reader = FALSE /\ readyTimer = FALSE /\ announced = FALSE
    /\ worker = "down" /\ stop = FALSE /\ active = None /\ attempt = 0
    /\ queue = <<>> /\ session = None
    /\ txSeq = 0 /\ rxFrames = <<>> /\ bus = {}
    /\ req = [c \in Clients |-> "none"] /\ key = [c \in Clients |-> None]
    /\ inSession = [c \in Clients |-> FALSE]
    /\ outcome = [c \in Clients |-> "none"] /\ reply = [c \in Clients |-> None]
    /\ ops = [c \in Clients |-> MaxOps]

-----------------------------------------------------------------------------
(* Connection management.                                                  *)

\* _connect once the device could be opened
OpenPort ==
    /\ port' = "open" /\ reader' = TRUE /\ readyTimer' = TRUE

\* _disconnect up to the point where a shutdown also stops the worker
ClosePort ==
    /\ port' = "closed" /\ reader' = FALSE /\ readyTimer' = FALSE
    /\ rxFrames' = <<>>

\* _ensure_request_worker: a dead worker is replaced and its stop flag cleared
EnsureWorker ==
    IF worker = "down"
    THEN worker' = "idle" /\ stop' = FALSE
    ELSE UNCHANGED <<worker, stop>>

\* klippy:connect, the first event of a run: no worker exists yet, and it is
\* started before the device is opened.
HandleConnect ==
    /\ ~isShutdown /\ worker = "down" /\ port = "closed"
    /\ EnsureWorker
    /\ \/ OpenPort /\ rxFrames' = <<>>
       \/ UNCHANGED <<port, reader, readyTimer, rxFrames>>   \* open failed, logged
    /\ UNCHANGED <<isShutdown, joining, announced, active, attempt, queue,
                   session, txSeq, bus, clientVars>>

\* _ready_timer_handler
EmitReady ==
    /\ readyTimer /\ ~joining
    /\ readyTimer' = FALSE /\ announced' = TRUE
    /\ UNCHANGED <<isShutdown, joining, port, reader, threadVars, queue,
                   session, wireVars, clientVars>>

\* mutant: a lost link also drops the session
HandleDisconnectForgets ==
    /\ ~joining /\ port = "open"
    /\ ClosePort
    /\ session' = None
    /\ UNCHANGED <<isShutdown, joining, announced, threadVars, queue,
                   txSeq, bus, clientVars>>

\* klippy:disconnect: the device is closed, the worker is left running
HandleDisconnect ==
    /\ ~joining /\ port = "open"
    /\ ClosePort
    /\ UNCHANGED <<isShutdown, joining, announced, threadVars, queue, session,
                   txSeq, bus, clientVars>>

\* klippy:shutdown and klippy:firmware_restart up to thread.join(timeout=1.0),
\* still inside _connect_lock
HandleShutdown ==
    /\ ~isShutdown
    /\ isShutdown' = TRUE
    /\ ClosePort
    /\ joining' = (worker # "down")
    /\ stop' = (worker # "down")
    /\ UNCHANGED <<announced, worker, active, attempt, queue, session, txSeq,
                   bus, clientVars>>

\* The join returns: because the worker died, or because one second passed.
\* Only a dead worker has its active request and session forgotten.
JoinDone ==
    /\ joining
    /\ joining' = FALSE
    /\ IF worker = "down"
       THEN active' = None /\ session' = None
       ELSE UNCHANGED <<active, session>>
    /\ UNCHANGED <<isShutdown, linkVars, worker, stop, attempt, queue, wireVars,
                   clientVars>>

-----------------------------------------------------------------------------
(* Clients (greenlets on the reactor thread).                              *)

\* _submit_request of a client that is allowed to submit
Submit(c, kind) ==
    /\ ~joining /\ ~isShutdown /\ req[c] = "none"
    /\ EnsureWorker
    /\ queue' = Append(queue, c)
    /\ req' = [req EXCEPT ![c] = kind]
    /\ UNCHANGED <<isShutdown, joining, linkVars, active, attempt, session,
                   wireVars, outcome, reply>>

\* cmd_send_data_with_response, inside the client's session or outside any
SubmitData(c, k) ==
    /\ ops[c] > 0
    /\ ops' = [ops EXCEPT ![c] = @ - 1]
    /\ key' = [key EXCEPT ![c] = k]
    /\ Submit(c, IF inSession[c] THEN "data" ELSE "plain")
    /\ UNCHANGED inSession

\* _Serial485Session.__enter__
SubmitBegin(c) ==
    /\ ops[c] > 0 /\ ~inSession[c]
    /\ ops' = [ops EXCEPT ![c] = @ - 1]
    /\ Submit(c, "begin")
    /\ UNCHANGED <<key, inSession>>

\* _Serial485Session.__exit__
SubmitEnd(c) ==
    /\ inSession[c]
    /\ inSession' = [inSession EXCEPT ![c] = FALSE]
    /\ Submit(c, "end")
    /\ UNCHANGED <<key, ops>>

\* after a shutdown the submission in __exit__ raises: the session is just left
LeaveSession(c) ==
    /\ ~joining /\ isShutdown /\ req[c] = "none" /\ inSession[c]
    /\ inSession' = [inSession EXCEPT ![c] = FALSE]
    /\ UNCHANGED <<isShutdown, joining, linkVars, threadVars, queue, session,
                   wireVars, req, key, outcome, reply, ops>>

\* _await_request_completion returns or raises; __enter__ sets session.active
Return(c) ==
    /\ ~joining /\ outcome[c] # "none"
    /\ outcome' = [outcome EXCEPT ![c] = "none"]
    /\ reply' = [reply EXCEPT ![c] = None]
    /\ req' = [req EXCEPT ![c] = "none"]
    /\ inSession' = [inSession EXCEPT
           ![c] = @ \/ (req[c] = "begin" /\ outcome[c] = "ok")]
    /\ UNCHANGED <<isShutdown, joining, linkVars, threadVars, queue, session,
                   wireVars, key, ops>>

-----------------------------------------------------------------------------
(* The request worker thread.                                              *)

\* mutant: the oldest request, whoever owns the session
EligibleAny(c) == c \in Clients

\* _pop_request: the oldest request, or the oldest one of the open session
Eligible(c) == session = None \/ (session = c /\ req[c] \in SessionKinds)

IsNext(i) ==
    /\ Eligible(queue[i])
    /\ \A j \in 1..Len(queue) : j < i => ~Eligible(queue[j])

\* mutant: the attempts of the previous request are kept
WorkerPickKeeps ==
    /\ worker = "idle" /\ ~stop
    /\ \E i \in 1..Len(queue) :
        /\ IsNext(i)
        /\ active' = queue[i]
        /\ queue' = RemoveAt(queue, i)
    /\ worker' = "claimed" /\ UNCHANGED attempt
    /\ UNCHANGED <<isShutdown, joining, linkVars, stop, session, wireVars, clientVars>>

WorkerPick ==
    /\ worker = "idle" /\ ~stop
    /\ \E i \in 1..Len(queue) :
        /\ IsNext(i)
        /\ active' = queue[i]
        /\ queue' = RemoveAt(queue, i)
    /\ worker' = "claimed" /\ attempt' = 0
    /\ UNCHANGED <<isShutdown, joining, linkVars, stop, session, wireVars, clientVars>>

\* mutant: the queue is thrown away without failing its requests
WorkerDrainForgets ==
    /\ worker = "idle" /\ stop /\ queue # <<>>
    /\ queue' = <<>>
    /\ UNCHANGED <<isShutdown, joining, linkVars, threadVars, session, wireVars,
                   clientVars>>

\* A stopped worker fails everything queued, then returns from its loop.
WorkerDrain ==
    /\ worker = "idle" /\ stop /\ queue # <<>>
    /\ outcome' = [c \in Clients |->
           IF Contains(queue, c) THEN "error" ELSE outcome[c]]
    /\ queue' = <<>>
    /\ UNCHANGED <<isShutdown, joining, linkVars, threadVars, session, wireVars,
                   req, key, inSession, reply, ops>>

\* mutant: the worker leaves its loop as soon as it is told to stop
WorkerExitEarly ==
    /\ worker = "idle" /\ stop
    /\ worker' = "down"
    /\ UNCHANGED <<isShutdown, joining, linkVars, stop, active, attempt, queue,
                   session, wireVars, clientVars>>

WorkerExit ==
    /\ worker = "idle" /\ stop /\ queue = <<>>
    /\ worker' = "down"
    /\ UNCHANGED <<isShutdown, joining, linkVars, stop, active, attempt, queue,
                   session, wireVars, clientVars>>

\* the finally block of the loop: hand the result over and look for more work
Complete(how, frame) ==
    /\ outcome' = [outcome EXCEPT ![active] = how]
    /\ reply' = [reply EXCEPT ![active] = frame]
    /\ active' = None /\ worker' = "idle"
    /\ UNCHANGED <<isShutdown, joining, announced, stop, attempt, queue, txSeq,
                   req, key, inSession, ops>>

\* _process_request, control == "begin"
SessionBegin ==
    /\ worker = "claimed" /\ req[active] = "begin"
    /\ session' = IF session = None THEN active ELSE session
    /\ Complete(IF session = None THEN "ok" ELSE "error", None)
    /\ UNCHANGED <<port, reader, readyTimer, rxFrames, bus>>

\* _process_request, control == "end"
SessionEnd ==
    /\ worker = "claimed" /\ req[active] = "end"
    /\ session' = IF session = active THEN None ELSE session
    /\ Complete(IF session = active THEN "ok" ELSE "error", None)
    /\ UNCHANGED <<port, reader, readyTimer, rxFrames, bus>>

\* mutant: frames that were already queued are kept
KeepPending == UNCHANGED rxFrames

\* _clear_pending_frames; a new attempt starts
ClearPending == rxFrames' = <<>>

\* One attempt begins: _ensure_connected (which needs _connect_lock when the
\* port is closed), then the stale frames are dropped.
BeginAttempt ==
    /\ worker = "claimed" /\ req[active] \in DataKinds
    /\ \/ port = "open" /\ UNCHANGED <<port, reader, readyTimer>>
       \/ port = "closed" /\ ~joining /\ OpenPort
    /\ ClearPending
    /\ txSeq' = txSeq + 1 /\ attempt' = attempt + 1
    /\ worker' = "write"
    /\ UNCHANGED <<isShutdown, joining, announced, stop, active, queue, session,
                   bus, clientVars>>

\* _ensure_connected raises: the device cannot be opened
ConnectFails ==
    /\ worker = "claimed" /\ req[active] \in DataKinds
    /\ port = "closed" /\ ~joining
    /\ Complete("error", None)
    /\ UNCHANGED <<port, reader, readyTimer, session, rxFrames, bus>>

\* _matches_response
Matches(k, f) ==
    /\ k.addr = Broadcast \/ k.addr = f.addr
    /\ k.func = f.func

\* _write_frame: the frame is out and some device may answer it
WriteFrame ==
    /\ worker = "write" /\ port = "open"
    /\ LET k == key[active]
           from == IF k.addr = Broadcast THEN Addrs \cup {Broadcast} ELSE {k.addr}
       IN  \E answering \in SUBSET from :
               bus' = bus \cup {[addr |-> a, func |-> k.func, at |-> 0] : a \in answering}
    /\ worker' = "await"
    /\ UNCHANGED <<isShutdown, joining, linkVars, stop, active, attempt, queue,
                   session, txSeq, rxFrames, clientVars>>

\* write fails, or the port was closed meanwhile: _disconnect("send_error"), raise
WriteFails ==
    /\ worker = "write" /\ ~joining
    /\ ClosePort
    /\ Complete("error", None)
    /\ UNCHANGED <<session, bus>>

\* _wait_for_response sees the stop flag first
AwaitStopped ==
    /\ worker = "await" /\ stop
    /\ Complete("error", None)
    /\ UNCHANGED <<port, reader, readyTimer, session, rxFrames, bus>>

AwaitMatch ==
    /\ worker = "await" /\ ~stop /\ rxFrames # <<>>
    /\ Matches(key[active], Head(rxFrames))
    /\ rxFrames' = Tail(rxFrames)
    /\ Complete("frame", Head(rxFrames))
    /\ UNCHANGED <<port, reader, readyTimer, session, bus>>

AwaitUnmatched ==
    /\ worker = "await" /\ ~stop /\ rxFrames # <<>>
    /\ ~Matches(key[active], Head(rxFrames))
    /\ rxFrames' = Tail(rxFrames)
    /\ UNCHANGED <<isShutdown, joining, linkVars, threadVars, queue, session,
                   txSeq, bus, clientVars>>

\* the deadline passes with no frame queued
TimedOut == worker = "await" /\ ~stop /\ rxFrames = <<>>

AwaitRetry ==
    /\ TimedOut /\ attempt < Attempts
    /\ worker' = "claimed"
    /\ UNCHANGED <<isShutdown, joining, linkVars, stop, active, attempt, queue,
                   session, wireVars, clientVars>>

AwaitGivesUp ==
    /\ TimedOut /\ attempt = Attempts
    /\ Complete("silent", None)
    /\ UNCHANGED <<port, reader, readyTimer, session, rxFrames, bus>>

-----------------------------------------------------------------------------
(* The reader thread and the wire.                                         *)

\* the queue of received frames keeps the newest MaxQueued
Enqueue(frames, f) ==
    Append(IF Len(frames) >= MaxQueued THEN Tail(frames) ELSE frames, f)

\* _feed_rx: a device's answer arrives
Receive ==
    /\ reader /\ port = "open"
    /\ \E f \in bus :
        /\ rxFrames' = Enqueue(rxFrames, [f EXCEPT !.at = txSeq])
        /\ bus' = bus \ {f}
    /\ UNCHANGED <<isShutdown, joining, linkVars, threadVars, queue, session,
                   txSeq, clientVars>>

\* an answer is corrupted, or sent while nobody listens
Lose ==
    /\ \E f \in bus : bus' = bus \ {f}
    /\ UNCHANGED <<isShutdown, joining, linkVars, threadVars, queue, session,
                   txSeq, rxFrames, clientVars>>

\* A read error ends the reader thread; nothing else notices.
ReaderFails ==
    /\ reader
    /\ reader' = FALSE
    /\ UNCHANGED <<isShutdown, joining, port, readyTimer, announced, threadVars,
                   queue, session, wireVars, clientVars>>

-----------------------------------------------------------------------------
WorkerStep ==
    \/ WorkerPick \/ WorkerDrain \/ WorkerExit
    \/ SessionBegin \/ SessionEnd
    \/ BeginAttempt \/ ConnectFails \/ WriteFrame \/ WriteFails
    \/ AwaitStopped \/ AwaitMatch \/ AwaitUnmatched \/ AwaitRetry \/ AwaitGivesUp

ClientStep(c) ==
    \/ \E k \in Requests : SubmitData(c, k)
    \/ SubmitBegin(c) \/ SubmitEnd(c) \/ LeaveSession(c) \/ Return(c)

ReactorStep == HandleConnect \/ EmitReady \/ HandleDisconnect \/ HandleShutdown \/ JoinDone

WireStep == Receive \/ Lose \/ ReaderFails

Next ==
    \/ WorkerStep
    \/ \E c \in Clients : ClientStep(c)
    \/ ReactorStep
    \/ WireStep

Spec == Init /\ [][Next]_vars

\* The worker thread runs, greenlets are resumed and leave their with blocks,
\* the join times out, and an answer is delivered or lost in finite time.
Fairness ==
    /\ WF_vars(WorkerStep)
    /\ \A c \in Clients : WF_vars(Return(c)) /\ WF_vars(SubmitEnd(c)) /\ WF_vars(LeaveSession(c))
    /\ WF_vars(JoinDone) /\ WF_vars(EmitReady) /\ WF_vars(Lose)

FairSpec == Spec /\ Fairness

-----------------------------------------------------------------------------
(* Properties.                                                             *)

Waiting(c) == req[c] # "none"

\* A greenlet that waits has its request in exactly one place: still queued,
\* held by the worker, or completed.  Losing it hangs the greenlet for good;
\* having it twice puts a command on the bus twice.
RequestAccounted ==
    \A c \in Clients :
        LET places == {i \in 1..Len(queue) : queue[i] = c}
        IN  IF Waiting(c)
            THEN \/ \E i \in places : places = {i} /\ active # c /\ outcome[c] = "none"
                 \/ places = {} /\ active = c /\ outcome[c] = "none"
                 \/ places = {} /\ active # c /\ outcome[c] # "none"
            ELSE places = {} /\ active # c /\ outcome[c] = "none"

\* While a session is open the worker transmits only for its owner: no other
\* greenlet's command can fall between the stages of a filament load.
SessionExclusive ==
    worker \in {"claimed", "write", "await"} /\ session # None =>
        active = session /\ req[active] \in SessionKinds

\* The client's view of its session (session.active) and the worker's agree:
\* until a shutdown, a client inside its with block owns the bus, and the bus
\* is owned only on behalf of a client that is inside or is entering or leaving.
SessionAgreement ==
    /\ \A c \in Clients : inSession[c] /\ ~isShutdown => session = c
    /\ session # None =>
         inSession[session] \/ req[session] \in {"begin", "end"} \/ isShutdown

\* The answer given to a client was received during this attempt, has the
\* function it asked for and, unless it broadcast, comes from the device it
\* addressed: a frame that was already queued when the attempt began is never
\* taken for the answer.
ReplyFresh ==
    [][\A c \in Clients : outcome[c] = "none" /\ outcome'[c] = "frame" =>
           reply'[c].at = txSeq /\ Matches(key[c], reply'[c])]_vars

\* Every request returns to its greenlet: with a response, without one, or
\* with an error, whatever the device, the reader thread or a shutdown does.
RequestReturns == \A c \in Clients : Waiting(c) ~> ~Waiting(c)

\* A shutdown leaves the transport closed ("serial485 transport unavailable
\* after shutdown", extras/serial_485.py:596).
ClosedAfterShutdown == isShutdown /\ ~joining => port = "closed"

\* The transport implements BusService: however threads, ports and timeouts
\* interleave, clients see a bus that serves one request at a time.
phase == [c \in Clients |->
             IF ~Waiting(c) THEN "idle" ELSE IF outcome[c] = "none" THEN "asked" ELSE "answered"]

Service == INSTANCE BusService WITH onBus <- active, owner <- session

ImplementsService == Service!Spec
=============================================================================
