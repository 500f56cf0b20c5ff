----------------------- MODULE ClientConnectionProofs -----------------------
(* Proofs about ClientConnection, for any number of generations, faults and *)
(* retries: a channel shown as connected can be used, and no socket is left *)
(* behind but those whose close() the browser refused.                      *)
EXTENDS ClientConnection, TLAPS

USE ConnectionAssumption

Recovery == [phase : {"connecting", "connected", "reconnecting", "failed"}, gen : Gens,
             failed : BOOLEAN, once : BOOLEAN, waiting : BOOLEAN]

RecInv ==
    /\ rec \in Recovery /\ (rec.waiting => rec.phase = "reconnecting")
    /\ attempt \in Nat /\ attempt <= rec.gen
    /\ rec.phase = "connected" => attempt = rec.gen /\ attempt \in settled

SocketInv ==
    /\ step \in {"open", "ask", "done", "failed"}
    /\ cur \in {None, attempt} /\ pend \in {None, attempt} /\ (pend # None => pend \in settled)
    /\ sock \in [Gens -> Live \union {"none", "closing", "aborted", "erred", "dead"}]
    /\ settled \subseteq Gens /\ channel \in {"kernel", "workspace"} /\ stray \in BOOLEAN
    /\ owed \subseteq settled /\ refused \subseteq Gens

ConnectionInv == RecInv /\ SocketInv /\ OnlyRefusedLeft /\ ConnectedIsUsable
-----------------------------------------------------------------------------
(* The recovery hook                                                        *)

(* markFailed of the recovery hook: a late report of another generation     *)
(* changes nothing, and no report makes the phase connected.                *)
LEMMA MarkFailedRec ==
    ASSUME rec \in Recovery, rec.waiting => rec.phase = "reconnecting", NEW g
    PROVE  /\ MarkFailed(g) \in Recovery /\ MarkFailed(g).gen = rec.gen
           /\ MarkFailed(g).waiting => MarkFailed(g).phase = "reconnecting"
           /\ MarkFailed(g).phase = "connected" => rec.phase = "connected" /\ rec.gen # g
           /\ MarkFailed(g).phase = "connected" => MarkFailed(g) = rec
<1>1. CASE rec.gen # g \/ rec.phase = "failed" \/ (rec.phase = "reconnecting" /\ rec.waiting)
    <2>1. MarkFailed(g) = rec
        BY <1>1 DEF MarkFailed
    <2> QED
        BY <1>1, <2>1
<1>2. CASE ~(rec.gen # g \/ rec.phase = "failed" \/ (rec.phase = "reconnecting" /\ rec.waiting))
    <2> DEFINE p == IF HasDelays THEN "reconnecting" ELSE "failed"
    <2>1. MarkFailed(g) = [rec EXCEPT !.phase = p, !.failed = TRUE, !.waiting = HasDelays]
        BY <1>2 DEF MarkFailed
    <2>2. p \in {"reconnecting", "failed"} /\ (HasDelays => p = "reconnecting")
        OBVIOUS
    <2> HIDE DEF p
    <2>3. MarkFailed(g) \in Recovery /\ MarkFailed(g).gen = rec.gen /\ MarkFailed(g).phase = p
        BY <2>1, <2>2 DEF Recovery
    <2>4. MarkFailed(g).waiting = HasDelays
        BY <2>1 DEF Recovery
    <2> QED
        BY <2>2, <2>3, <2>4
<1> QED
    BY <1>1, <1>2

(* markConnected of the recovery hook: only the report of the hook's own    *)
(* generation can make the phase connected.                                 *)
LEMMA MarkConnectedRec ==
    ASSUME rec \in Recovery, rec.waiting => rec.phase = "reconnecting", NEW g
    PROVE  /\ MarkConnected(g) \in Recovery /\ MarkConnected(g).gen = rec.gen
           /\ MarkConnected(g).waiting => MarkConnected(g).phase = "reconnecting"
           /\ MarkConnected(g).phase = "connected" => rec.gen = g \/ MarkConnected(g) = rec
<1>1. CASE rec.gen # g
    BY <1>1 DEF MarkConnected
<1>2. CASE rec.gen = g
    <2>1. MarkConnected(g) = [rec EXCEPT !.phase = "connected", !.failed = FALSE, !.once = TRUE, !.waiting = FALSE]
        BY <1>2 DEF MarkConnected
    <2>2. MarkConnected(g) \in Recovery /\ MarkConnected(g).gen = rec.gen
        BY <2>1 DEF Recovery
    <2>3. MarkConnected(g).waiting = FALSE
        BY <2>1 DEF Recovery
    <2> QED
        BY <1>2, <2>2, <2>3
<1> QED
    BY <1>1, <1>2

(* The next generation starts: nothing else moves yet.                      *)
LEMMA NextGeneration ==
    ASSUME ConnectionInv, NEW p \in {"connecting", "reconnecting"}, rec.phase # "connected", rec.gen < MaxGen,
           rec' = [rec EXCEPT !.phase = p, !.gen = @ + 1, !.waiting = FALSE],
           UNCHANGED <<channel, attempt, step, cur, pend, sock, settled, owed, refused, stray>>
    PROVE  ConnectionInv'
<1>1. rec \in Recovery /\ rec.gen \in Nat /\ rec.gen + 1 \in Gens
    BY DEF ConnectionInv, RecInv, Recovery, Gens
<1>2. rec' \in Recovery /\ rec'.gen = rec.gen + 1 /\ rec'.phase = p
    BY <1>1 DEF Recovery
<1>3. rec'.waiting = FALSE
    BY <1>1 DEF Recovery
<1>4. RecInv'
    BY <1>1, <1>2, <1>3 DEF ConnectionInv, RecInv
<1>5. SocketInv' /\ OnlyRefusedLeft'
    BY DEF ConnectionInv, SocketInv, OnlyRefusedLeft, Undisturbed
<1>6. ConnectedIsUsable'
    BY <1>2 DEF ConnectedIsUsable
<1> QED
    BY <1>4, <1>5, <1>6 DEF ConnectionInv

(* The retry timer runs only while reconnecting, so a new generation starts *)
(* from a phase that is not connected.                                      *)
LEMMA RetryTimerStep ==
    ASSUME ConnectionInv, RetryTimer
    PROVE  ConnectionInv'
<1>1. rec.phase # "connected"
    BY DEF ConnectionInv, RecInv, RetryTimer
<1> QED
    BY <1>1, NextGeneration DEF RetryTimer

(* The user's retry: the phase leaves connected before the generation moves *)
(* on.                                                                      *)
LEMMA RetryNowStep ==
    ASSUME ConnectionInv, RetryNow
    PROVE  ConnectionInv'
<1> DEFINE p == IF rec.once \/ rec.failed THEN "reconnecting" ELSE "connecting"
<1>1. p \in {"connecting", "reconnecting"}
    OBVIOUS
<1>2. rec' = [rec EXCEPT !.phase = p, !.gen = @ + 1, !.waiting = FALSE]
    BY DEF RetryNow
<1> HIDE DEF p
<1> QED
    BY <1>1, <1>2, NextGeneration DEF RetryNow
-----------------------------------------------------------------------------
(* The effect of a generation                                               *)

SockStates == Live \union {"none", "closing", "aborted", "erred", "dead"}

(* disconnect() ends the connection of the client's socket and no other.    *)
LEMMA DisconnectedSock ==
    ASSUME SocketInv
    PROVE  /\ Disconnected \in [Gens -> SockStates]
           /\ \A s \in Gens : Disconnected[s] \in Live => sock[s] \in Live /\ s # cur
<1>1. CASE cur = None \/ sock[cur] \notin Live
    <2>1. Disconnected = sock
        BY <1>1 DEF Disconnected
    <2> QED
        BY <1>1, <2>1 DEF SocketInv, SockStates, Gens
<1>2. CASE cur # None /\ sock[cur] \in Live
    <2> DEFINE v == IF cur \in settled THEN "closing" ELSE "aborted"
    <2>1. Disconnected = [sock EXCEPT ![cur] = v]
        BY <1>2 DEF Disconnected
    <2>2. v \in {"closing", "aborted"}
        OBVIOUS
    <2> HIDE DEF v
    <2> QED
        BY <2>1, <2>2 DEF SocketInv, SockStates, Live
<1> QED
    BY <1>1, <1>2

(* React runs the connection effect of a generation: it owns a new socket,  *)
(* and the one before it has been closed by its cleanup.                    *)
LEMMA RunEffectStep ==
    ASSUME ConnectionInv, RunEffect
    PROVE  ConnectionInv'
<1>1. /\ attempt' = rec.gen /\ step' = "open" /\ cur' = rec.gen /\ pend' = None
      /\ sock' = [Disconnected EXCEPT ![rec.gen] = "connecting"]
      /\ UNCHANGED <<channel, rec, settled, owed, refused, stray>> /\ attempt # rec.gen
    BY DEF RunEffect
<1>2. rec.gen \in Gens /\ rec.gen \in Nat /\ rec.phase # "connected"
    BY <1>1 DEF ConnectionInv, RecInv, Recovery, Gens
<1>3. /\ Disconnected \in [Gens -> SockStates]
      /\ \A s \in Gens : Disconnected[s] \in Live => sock[s] \in Live /\ s # cur
    BY DisconnectedSock DEF ConnectionInv
<1>4. RecInv'
    BY <1>1, <1>2 DEF ConnectionInv, RecInv
<1>5. sock' \in [Gens -> SockStates]
    BY <1>1, <1>2, <1>3 DEF SockStates, Live
<1>6. SocketInv'
    BY <1>1, <1>2, <1>5 DEF ConnectionInv, SocketInv, SockStates
<1>7. ASSUME Undisturbed', NEW s \in Gens, sock'[s] \in Live PROVE cur' = s \/ s \in refused'
    <2>1. Undisturbed
        BY <1>1, <1>7 DEF Undisturbed
    <2>2. CASE s # rec.gen
        <3>1. Disconnected[s] \in Live
            BY <1>1, <1>2, <1>3, <1>7, <2>2
        <3> QED
            BY <1>1, <1>3, <2>1, <3>1 DEF ConnectionInv, OnlyRefusedLeft
    <2> QED
        BY <1>1, <2>2
<1>8. OnlyRefusedLeft'
    BY <1>7 DEF OnlyRefusedLeft
<1>9. ConnectedIsUsable'
    BY <1>1, <1>2 DEF ConnectedIsUsable
<1> QED
    BY <1>4, <1>6, <1>8, <1>9 DEF ConnectionInv
-----------------------------------------------------------------------------
(* Socket events                                                            *)

(* A socket opens: its promise resolves once, for the current socket only.  *)
LEMMA OpenStep ==
    ASSUME ConnectionInv, NEW s \in Gens, Open(s)
    PROVE  ConnectionInv'
<1>1. /\ sock[s] = "connecting" /\ sock' = [sock EXCEPT ![s] = "open"]
      /\ UNCHANGED <<channel, rec, attempt, cur, refused, stray>>
      /\ \/ /\ cur = s /\ s \notin settled /\ settled' = settled \union {s} /\ step' = "ask" /\ pend' = s
            /\ owed' = owed \union {s}
         \/ UNCHANGED <<settled, owed, step, pend>>
    BY DEF Open
<1>2. RecInv'
    BY <1>1 DEF ConnectionInv, RecInv
<1>3. sock' \in [Gens -> SockStates]
    BY <1>1 DEF ConnectionInv, SocketInv, SockStates, Live
<1>4. SocketInv'
    BY <1>1, <1>3 DEF ConnectionInv, SocketInv, SockStates, Gens
<1>5. Undisturbed' <=> Undisturbed
    BY <1>1 DEF Undisturbed
<1>6. \A t \in Gens : sock'[t] \in Live => sock[t] \in Live
    BY <1>1 DEF ConnectionInv, SocketInv, Live
<1>7. OnlyRefusedLeft'
    BY <1>1, <1>5, <1>6 DEF ConnectionInv, OnlyRefusedLeft
<1>8. ConnectedIsUsable'
    <2>1. ASSUME Undisturbed, rec.phase = "connected"
          PROVE  step' = "done" /\ cur' = rec'.gen /\ sock'[rec'.gen] = "open"
        <3>1. step = "done" /\ cur = rec.gen /\ sock[rec.gen] = "open"
            BY <2>1 DEF ConnectionInv, ConnectedIsUsable, RecInv
        <3>2. s # rec.gen /\ rec.gen \in Gens
            BY <1>1, <3>1 DEF ConnectionInv, RecInv, Recovery
        <3>3. UNCHANGED <<step, rec, cur>> /\ sock'[rec.gen] = sock[rec.gen]
            BY <1>1, <3>1, <3>2 DEF ConnectionInv, SocketInv
        <3> QED
            BY <3>1, <3>3
    <2> QED
        BY <1>1, <1>5, <2>1 DEF ConnectedIsUsable
<1> QED
    BY <1>2, <1>4, <1>7, <1>8 DEF ConnectionInv

(* A socket ends, or the client lets go of it and its close is refused.     *)
(* Either the loss is reported to the recovery hook, or the channel, if it  *)
(* was connected, still holds another socket.                               *)
LEMMA SocketEnds ==
    ASSUME ConnectionInv, NEW s \in Gens,
           sock' \in [Gens -> SockStates],
           \A t \in Gens : sock'[t] \in Live => sock[t] \in Live /\ (t # s \/ t \in refused'),
           refused \subseteq refused', refused' \subseteq Gens, owed' \subseteq settled',
           UNCHANGED <<channel, attempt>>, cur' \in {cur, None}, pend' \in {pend, None},
           step' \in {"open", "ask", "done", "failed"},
           settled \subseteq settled', settled' \subseteq Gens, stray' \in BOOLEAN,
           Undisturbed' => /\ Undisturbed /\ (cur' = None => cur \in {None, s})
                           /\ cur \in Gens \ {s} => sock'[cur] = sock[cur],
           \/ rec' = MarkFailed(attempt)
           \/ /\ rec' = rec
              /\ Undisturbed' /\ rec.phase = "connected" => s # attempt /\ cur' = cur /\ step' = step
    PROVE  ConnectionInv'
<1>1. /\ rec \in Recovery /\ (rec.waiting => rec.phase = "reconnecting")
      /\ attempt \in Nat /\ attempt <= rec.gen
      /\ rec.phase = "connected" => attempt = rec.gen /\ attempt \in settled
    BY DEF ConnectionInv, RecInv
<1>2. /\ rec' \in Recovery /\ rec'.gen = rec.gen /\ (rec'.waiting => rec'.phase = "reconnecting")
      /\ rec'.phase = "connected" => rec' = rec
    BY <1>1, MarkFailedRec
<1>3. rec'.phase = "connected" =>
        /\ rec.phase = "connected"
        /\ Undisturbed' => s # attempt /\ cur' = cur /\ step' = step
    BY <1>1, <1>2, MarkFailedRec
<1>4. RecInv'
    BY <1>1, <1>2 DEF RecInv
<1>5. SocketInv'
    BY DEF ConnectionInv, SocketInv, SockStates
<1>6. ASSUME Undisturbed', NEW t \in Gens, sock'[t] \in Live PROVE cur' = t \/ t \in refused'
    <2>1. t \in refused' \/ (cur = t /\ t # s /\ t # None)
        BY <1>6 DEF ConnectionInv, OnlyRefusedLeft, Gens
    <2> QED
        BY <1>6, <2>1
<1>7. OnlyRefusedLeft'
    BY <1>6 DEF OnlyRefusedLeft
<1>8. ASSUME Undisturbed', rec'.phase = "connected"
      PROVE  step' = "done" /\ cur' = rec'.gen /\ sock'[rec'.gen] = "open"
    <2>1. rec.phase = "connected" /\ s # attempt /\ cur' = cur /\ step' = step /\ attempt = rec.gen
        BY <1>1, <1>3, <1>8
    <2>2. step = "done" /\ cur = rec.gen /\ sock[rec.gen] = "open"
        BY <1>8, <2>1 DEF ConnectionInv, ConnectedIsUsable
    <2>3. cur \in Gens \ {s}
        BY <1>1, <2>1, <2>2 DEF Recovery
    <2>4. sock'[cur] = sock[cur]
        BY <1>8, <2>3
    <2> QED
        BY <1>2, <2>1, <2>2, <2>4
<1>9. ConnectedIsUsable'
    BY <1>8 DEF ConnectedIsUsable
<1> QED
    BY <1>4, <1>5, <1>7, <1>9 DEF ConnectionInv

(* A close event: only that of the current socket clears it and reports the *)
(* failure.                                                                 *)
LEMMA CloseStep ==
    ASSUME ConnectionInv, NEW s \in Gens, Close(s)
    PROVE  ConnectionInv'
<1>1. /\ sock' = [sock EXCEPT ![s] = "dead"]
      /\ UNCHANGED <<channel, attempt, settled, owed, refused, stray>>
      /\ IF cur = s THEN CloseCurrent ELSE UNCHANGED <<cur, pend, step, rec>>
    BY DEF Close
<1>2. sock' \in [Gens -> SockStates]
    BY <1>1 DEF ConnectionInv, SocketInv, SockStates, Live
<1>3. \A t \in Gens : sock'[t] \in Live => sock[t] \in Live /\ t # s
    BY <1>1 DEF ConnectionInv, SocketInv, Live
<1>4. cur \in Gens \ {s} => sock'[cur] = sock[cur]
    BY <1>1 DEF ConnectionInv, SocketInv
<1>5. Undisturbed' <=> Undisturbed
    BY <1>1 DEF Undisturbed
<1>6. /\ step \in {"open", "ask", "done", "failed"} /\ settled \subseteq Gens /\ stray \in BOOLEAN
      /\ refused \subseteq Gens /\ owed \subseteq settled
    BY DEF ConnectionInv, SocketInv
<1>7. Rejected \in {"open", "ask", "done", "failed"}
    BY <1>6 DEF Rejected
<1>8. CASE cur = s
    <2>1. cur' = None /\ pend' = None /\ step' = Rejected /\ rec' = MarkFailed(attempt)
        BY <1>1, <1>8 DEF CloseCurrent, Report
    <2> QED
        BY <1>1, <1>2, <1>3, <1>4, <1>5, <1>6, <1>7, <1>8, <2>1, SocketEnds
<1>9. CASE cur # s
    <2>1. UNCHANGED <<cur, pend, step, rec>>
        BY <1>1, <1>9
    <2>2. Undisturbed /\ rec.phase = "connected" => s # attempt
        BY <1>9 DEF ConnectionInv, RecInv, ConnectedIsUsable
    <2> QED
        BY <1>1, <1>2, <1>3, <1>4, <1>5, <1>6, <2>1, <2>2, SocketEnds
<1> QED
    BY <1>8, <1>9

(* The client lets go of its current socket: the loss is reported, and the  *)
(* socket stays open, its close refused.                                    *)
LEMMA FailConnectionStep ==
    ASSUME ConnectionInv, NEW s \in Gens, cur = s, FailConnection(s), owed' \subseteq owed,
           UNCHANGED <<channel, attempt, sock, settled, stray>>
    PROVE  ConnectionInv'
<1>1. /\ cur' = None /\ pend' = None /\ step' \in {step, Rejected} /\ rec' = MarkFailed(attempt)
      /\ refused' = refused \union {s}
    BY DEF FailConnection, Report
<1>2. /\ step \in {"open", "ask", "done", "failed"} /\ settled \subseteq Gens /\ stray \in BOOLEAN
      /\ refused \subseteq Gens /\ owed \subseteq settled /\ sock \in [Gens -> SockStates]
    BY DEF ConnectionInv, SocketInv, SockStates
<1>3. step' \in {"open", "ask", "done", "failed"}
    BY <1>1, <1>2 DEF Rejected
<1>4. Undisturbed' <=> Undisturbed
    BY DEF Undisturbed
<1>5. \A t \in Gens : sock'[t] \in Live => sock[t] \in Live /\ (t # s \/ t \in refused')
    BY <1>1
<1>6. refused \subseteq refused' /\ refused' \subseteq Gens /\ owed' \subseteq settled'
    BY <1>1, <1>2
<1> QED
    BY <1>1, <1>2, <1>3, <1>4, <1>5, <1>6, SocketEnds

(* The answer that finds its request pending ends the attempt, connected or *)
(* failed.                                                                  *)
LEMMA AnswerStep ==
    ASSUME ConnectionInv, NEW s \in Gens, Reply(s), cur = s, pend = s
    PROVE  ConnectionInv'
<1>1. /\ sock[s] = "open" /\ cur = s /\ pend = s /\ pend' = None
      /\ UNCHANGED <<channel, attempt, cur, sock, settled, refused, stray>>
      /\ owed' = owed \ {s}
      /\ \/ step' = "done" /\ rec' = MarkConnected(attempt)
         \/ step' = "failed" /\ rec' = MarkFailed(attempt)
    BY DEF Reply, Report
<1>2. s = attempt /\ s \in settled
    BY <1>1 DEF ConnectionInv, SocketInv, Gens
<1>3. /\ rec \in Recovery /\ (rec.waiting => rec.phase = "reconnecting")
      /\ rec.phase = "connected" => attempt = rec.gen
      /\ attempt <= rec.gen /\ attempt \in Nat
    BY DEF ConnectionInv, RecInv
<1>4. SocketInv'
    BY <1>1 DEF ConnectionInv, SocketInv
<1>5. OnlyRefusedLeft'
    BY <1>1 DEF ConnectionInv, OnlyRefusedLeft, Undisturbed
<1>6. CASE step' = "done" /\ rec' = MarkConnected(attempt)
    <2>1. /\ rec' \in Recovery /\ rec'.gen = rec.gen /\ (rec'.waiting => rec'.phase = "reconnecting")
          /\ rec'.phase = "connected" => rec.gen = attempt \/ rec' = rec
        BY <1>3, <1>6, MarkConnectedRec
    <2>2. RecInv'
        BY <1>1, <1>2, <1>3, <2>1 DEF RecInv
    <2>3. ConnectedIsUsable'
        BY <1>1, <1>2, <1>6 DEF ConnectedIsUsable
    <2> QED
        BY <1>4, <1>5, <2>2, <2>3 DEF ConnectionInv
<1>7. CASE step' = "failed" /\ rec' = MarkFailed(attempt)
    <2>1. /\ rec' \in Recovery /\ rec'.gen = rec.gen /\ (rec'.waiting => rec'.phase = "reconnecting")
          /\ rec'.phase = "connected" => rec.phase = "connected" /\ rec.gen # attempt
        BY <1>3, <1>7, MarkFailedRec
    <2>2. rec'.phase # "connected"
        BY <1>3, <2>1
    <2>3. RecInv'
        BY <1>1, <1>3, <2>1, <2>2 DEF RecInv
    <2>4. ConnectedIsUsable'
        BY <2>2 DEF ConnectedIsUsable
    <2> QED
        BY <1>4, <1>5, <2>3, <2>4 DEF ConnectionInv
<1> QED
    BY <1>1, <1>6, <1>7

(* A reply whose request was rejected meanwhile fails the connection; one   *)
(* on a socket that is not the current one is not listened to.              *)
LEMMA ReplyStep ==
    ASSUME ConnectionInv, NEW s \in Gens, Reply(s)
    PROVE  ConnectionInv'
<1>1. owed' = owed \ {s} /\ UNCHANGED <<channel, attempt, sock, settled, stray>>
    BY DEF Reply
<1>2. CASE cur = s /\ pend = s
    BY <1>2, AnswerStep
<1>3. CASE cur = s /\ pend # s
    <2>1. FailConnection(s)
        BY <1>3 DEF Reply
    <2> QED
        BY <1>1, <1>3, <2>1, FailConnectionStep
<1>4. CASE cur # s
    <2>1. UNCHANGED <<cur, pend, step, rec, refused>>
        BY <1>4 DEF Reply
    <2> QED
        BY <1>1, <2>1 DEF ConnectionInv, RecInv, SocketInv, OnlyRefusedLeft, ConnectedIsUsable, Undisturbed
<1> QED
    BY <1>2, <1>3, <1>4

(* A frame that cannot be accepted fails the connection.                    *)
LEMMA BadFrameStep ==
    ASSUME ConnectionInv, NEW s \in Gens, BadFrame(s)
    PROVE  ConnectionInv'
<1>1. cur = s /\ FailConnection(s) /\ UNCHANGED <<channel, attempt, sock, settled, owed, stray>>
    BY DEF BadFrame
<1> QED
    BY <1>1, FailConnectionStep

(* An error event, handled differently by the kernel and the workspace      *)
(* client.                                                                  *)
LEMMA ErrorStep ==
    ASSUME ConnectionInv, NEW s \in Gens, Error(s)
    PROVE  ConnectionInv'
<1>1. /\ IF channel = "kernel" THEN KernelError(s) ELSE WorkspaceError(s)
      /\ sock' = [sock EXCEPT ![s] = "erred"] /\ refused' = AlsoRefused(s)
      /\ settled' = IF channel = "workspace" THEN settled \union {s} ELSE settled
      /\ UNCHANGED <<channel, attempt, owed>>
    BY DEF Error
<1>2. stray' \in BOOLEAN /\ (~stray' => ~stray /\ cur = s)
    <2>1. stray' = (stray \/ cur # s)
        BY DEF Error
    <2> QED
        BY <2>1
<1>3. /\ sock' \in [Gens -> SockStates]
      /\ \A t \in Gens : sock'[t] \in Live => sock[t] \in Live /\ t # s
      /\ \A t \in Gens \ {s} : sock'[t] = sock[t]
    BY <1>1 DEF ConnectionInv, SocketInv, SockStates, Live
<1>4. /\ settled \subseteq settled' /\ settled' \subseteq Gens /\ owed' \subseteq settled'
      /\ step \in {"open", "ask", "done", "failed"} /\ cur \in {None, attempt}
      /\ channel \in {"kernel", "workspace"}
    BY <1>1 DEF ConnectionInv, SocketInv
<1>5. Rejected \in {"open", "ask", "done", "failed"}
    BY <1>4 DEF Rejected
<1>6. s # None
    BY DEF Gens
<1>61. refused \subseteq refused' /\ refused' \subseteq Gens
    <2>1. refused' \in {refused, refused \union {cur}} /\ (refused' # refused => cur # None)
        BY <1>1 DEF AlsoRefused
    <2>2. refused \subseteq Gens /\ attempt \in Gens
        BY DEF ConnectionInv, SocketInv, RecInv, Recovery, Gens
    <2> QED
        BY <1>4, <2>1, <2>2
<1>7. CASE channel = "kernel"
    <2>1. KernelError(s)
        BY <1>1, <1>7
    <2>2. cur' = (IF cur = s THEN None ELSE cur) /\ pend' \in {pend, None} /\ step' \in {step, Rejected}
        BY <2>1 DEF KernelError
    <2>3. Undisturbed'
        BY <1>1, <1>7 DEF Undisturbed
    <2>4. Undisturbed
        BY <1>7 DEF Undisturbed
    <2>5. rec.phase = "connected" => cur = attempt
        BY <2>4 DEF ConnectionInv, RecInv, ConnectedIsUsable
    <2>6. rec' = MarkFailed(attempt) \/ (rec' = rec /\ step' = step /\ attempt # s)
        BY <2>1 DEF KernelError, Report
    <2>7. \/ rec' = MarkFailed(attempt)
          \/ /\ rec' = rec
             /\ rec.phase = "connected" => s # attempt /\ cur' = cur /\ step' = step
        BY <2>2, <2>5, <2>6
    <2>8. cur \in Gens \ {s} => sock'[cur] = sock[cur]
        BY <1>3, <1>7
    <2>9. cur' \in {cur, None} /\ (cur' = None => cur \in {None, s})
        BY <2>2
    <2>10. step' \in {"open", "ask", "done", "failed"}
        BY <1>4, <1>5, <2>2
    <2> QED
        BY <1>1, <1>2, <1>3, <1>4, <1>61, <2>2, <2>3, <2>4, <2>7, <2>8, <2>9, <2>10, SocketEnds
<1>8. CASE channel = "workspace"
    <2>1. WorkspaceError(s)
        BY <1>1, <1>8
    <2>2. cur' = None /\ pend' \in {pend, None} /\ step' \in {step, Rejected}
        BY <2>1 DEF WorkspaceError
    <2>3. Undisturbed' => Undisturbed /\ cur = s
        BY <1>1, <1>2, <1>8 DEF Undisturbed
    <2>4. rec' \in {rec, MarkFailed(attempt)}
        BY <2>1 DEF WorkspaceError, Report
    <2>5. cur = s => rec' = MarkFailed(attempt)
        BY <1>4, <1>6, <2>1 DEF WorkspaceError, Report
    <2>6. step' \in {"open", "ask", "done", "failed"}
        BY <1>4, <1>5, <2>2
    <2> QED
        BY <1>1, <1>2, <1>3, <1>4, <1>61, <2>2, <2>3, <2>4, <2>5, <2>6, SocketEnds
<1> QED
    BY <1>4, <1>7, <1>8
-----------------------------------------------------------------------------
(* The page has just been loaded: generation 0 and no socket.               *)
LEMMA InitConnectionInv ==
    ASSUME Init
    PROVE  ConnectionInv
<1>1. channel \in {"kernel", "workspace"} /\ stray = FALSE /\ 0 \in Gens
    BY DEF Init, Gens
<1>2. RecInv
    BY <1>1 DEF Init, RecInv, Recovery
<1>3. SocketInv
    BY <1>1 DEF Init, SocketInv, Live
<1>4. OnlyRefusedLeft /\ ConnectedIsUsable
    BY DEF Init, OnlyRefusedLeft, ConnectedIsUsable, Live, Gens
<1> QED
    BY <1>2, <1>3, <1>4 DEF ConnectionInv

(* Every event of the hook and of the sockets keeps the inductive           *)
(* invariant.                                                               *)
LEMMA ConnectionInvStep ==
    ASSUME ConnectionInv, [Next]_vars
    PROVE  ConnectionInv'
<1>1. CASE Next
    BY <1>1, RetryTimerStep, RetryNowStep, RunEffectStep, OpenStep, ReplyStep, BadFrameStep,
       ErrorStep, CloseStep DEF Next
<1>2. CASE UNCHANGED vars
    BY <1>2 DEF vars, ConnectionInv, RecInv, SocketInv, OnlyRefusedLeft, ConnectedIsUsable, Undisturbed
<1> QED
    BY <1>1, <1>2

(* The inductive invariant of a channel.                                    *)
THEOREM ConnectionInvariant == Spec => []ConnectionInv
<1>1. Init => ConnectionInv
    BY InitConnectionInv
<1>2. ConnectionInv /\ [Next]_vars => ConnectionInv'
    BY ConnectionInvStep
<1> QED
    BY <1>1, <1>2, PTL DEF Spec

(* Every connection still open or being made is the one the client holds,   *)
(* or one that it tried to close with a code the browser refuses            *)
(* (disconnect, #failConnection, #fail): late events, retries and failed    *)
(* attempts leave no other one behind.                                      *)
THEOREM ConnectionIsConsistent == Spec => []ConnectionConsistent
<1>1. ASSUME ConnectionInv PROVE ConnectionConsistent
    <2>1. RecInv /\ SocketInv /\ OnlyRefusedLeft
        BY <1>1 DEF ConnectionInv
    <2>2. rec \in [phase : {"connecting", "connected", "reconnecting", "failed"}, gen : Gens,
                   failed : BOOLEAN, once : BOOLEAN, waiting : BOOLEAN]
        BY <2>1 DEF RecInv, Recovery
    <2>3. rec.waiting => rec.phase = "reconnecting"
        BY <2>1 DEF RecInv
    <2>4. attempt \in 0..rec.gen /\ rec.gen \in Gens
        BY <2>1 DEF RecInv, Recovery, Gens
    <2>5. attempt \in Gens
        BY <2>4 DEF Gens
    <2>6. cur \in Gens \union {None} /\ pend \in {None, attempt}
        BY <2>1, <2>5 DEF SocketInv
    <2>7. ConnectionTypeOK
        BY <2>1, <2>2, <2>3, <2>4, <2>6 DEF SocketInv, ConnectionTypeOK
    <2> QED
        BY <2>1, <2>7 DEF ConnectionConsistent
<1> QED
    BY <1>1, ConnectionInvariant, PTL

(* While a channel shows "connected", its client holds the open socket of   *)
(* that very generation, so its requests go out.                            *)
THEOREM ConnectedChannelIsUsable == Spec => []ConnectedIsUsable
<1>1. ConnectionInv => ConnectedIsUsable
    BY DEF ConnectionInv
<1> QED
    BY <1>1, ConnectionInvariant, PTL
=============================================================================
