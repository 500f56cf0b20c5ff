-------------------------- MODULE ClientConnection --------------------------
(* One channel of the web client and its recovery: the useConnectionRecovery *)
(* hook, the effect in App.tsx that runs one connection attempt per         *)
(* generation, the client object all attempts share (the kernel transport   *)
(* or the workspace client) and the browser sockets it has created.         *)
(*                                                                          *)
(* Attempt g creates socket g.  The socket's listeners outlive the attempt: *)
(* the browser delivers the end of a socket after the client has already    *)
(* moved on to the next one.                                                *)
EXTENDS Naturals

CONSTANTS
    Channels,     \* {"kernel", "workspace"}, or one of them
    HasDelays,    \* whether the configured list of retry delays is non-empty
    MaxGen,       \* bound: connection generations
    MaxFaults,    \* bound: sockets and requests the network or server fails
    MaxBad,       \* bound: frames from the server the client cannot accept
    MaxRetries,   \* bound: retryNow, by the user or the browser's `online` event
    None

ASSUME ConnectionAssumption ==
    /\ Channels \subseteq {"kernel", "workspace"} /\ HasDelays \in BOOLEAN
    /\ MaxGen \in Nat /\ MaxFaults \in Nat /\ MaxBad \in Nat /\ MaxRetries \in Nat
    /\ None \notin 0..MaxGen

VARIABLES
    channel,   \* whose client and socket listeners; never changes
    rec,       \* ConnectionRecoveryState
    attempt,   \* the generation whose effect is mounted
    step,      \* where its async function is: "open", "ask", "done", "failed"
    cur,       \* the client's #socket
    pend,      \* the attempt whose request is in #pending, or None
    sock,      \* what each socket really is
    settled,   \* the sockets whose connect() promise has settled (opened for the kernel)
    owed,      \* the sockets on which the first request awaits its reply
    refused,   \* history: the sockets whose close() the browser refused
    stray,     \* history: a socket the client had let go of has fired `error`
    faults, bad, retries

vars == <<channel, rec, attempt, step, cur, pend, sock, settled, owed, refused, stray,
          faults, bad, retries>>

Gens == 0..MaxGen
Live == {"connecting", "open"}

Init ==
    /\ channel \in Channels
    /\ rec = [phase |-> "connecting", gen |-> 0, failed |-> FALSE, once |-> FALSE, waiting |-> FALSE]
    /\ attempt = 0 /\ step = "open" /\ cur = 0 /\ pend = None
    /\ sock = [g \in Gens |-> IF g = 0 THEN "connecting" ELSE "none"]
    /\ settled = {} /\ owed = {} /\ refused = {} /\ stray = FALSE
    /\ faults = MaxFaults /\ bad = MaxBad /\ retries = MaxRetries

-----------------------------------------------------------------------------
(* The recovery hook.  `failed` stands for failureCount > 0, `once` for     *)
(* connectedOnce and `waiting` for retryDelayMs # null.                     *)

MarkConnected(g) ==
    IF rec.gen # g THEN rec
    ELSE [rec EXCEPT !.phase = "connected", !.failed = FALSE, !.once = TRUE, !.waiting = FALSE]

MarkFailedOnce(g) ==
    IF rec.gen # g \/ rec.phase \in {"failed", "reconnecting"} THEN rec
    ELSE [rec EXCEPT !.phase = IF HasDelays THEN "reconnecting" ELSE "failed",
                     !.failed = TRUE, !.waiting = HasDelays]

MarkFailed(g) ==
    IF rec.gen # g \/ rec.phase = "failed" \/ (rec.phase = "reconnecting" /\ rec.waiting) THEN rec
    ELSE [rec EXCEPT !.phase = IF HasDelays THEN "reconnecting" ELSE "failed",
                     !.failed = TRUE, !.waiting = HasDelays]

(* The retry timer: the next generation.                                    *)
RetryTimer ==
    /\ rec.waiting /\ rec.gen < MaxGen
    /\ rec' = [rec EXCEPT !.phase = "reconnecting", !.gen = @ + 1, !.waiting = FALSE]
    /\ UNCHANGED <<channel, attempt, step, cur, pend, sock, settled, owed, refused, stray,
                   faults, bad, retries>>

RetryNow ==
    /\ rec.phase # "connected" /\ rec.gen < MaxGen /\ retries > 0
    /\ rec' = [rec EXCEPT !.phase = IF rec.once \/ rec.failed THEN "reconnecting" ELSE "connecting",
                          !.gen = @ + 1, !.waiting = FALSE]
    /\ retries' = retries - 1
    /\ UNCHANGED <<channel, attempt, step, cur, pend, sock, settled, owed, refused, stray,
                   faults, bad>>

-----------------------------------------------------------------------------
(* The effect of a new generation: React runs the old effect's cleanup,     *)
(* which disposes its attempt and disconnects the client, then the new one, *)
(* which calls connect() at once.                                           *)

DisconnectLeavesOpen == sock

(* disconnect(): the socket is told to close, with code 1000, which the     *)
(* browser accepts.                                                         *)
Disconnected == IF cur = None \/ sock[cur] \notin Live THEN sock
                ELSE [sock EXCEPT ![cur] = IF cur \in settled THEN "closing" ELSE "aborted"]

RunEffect ==
    /\ attempt # rec.gen
    /\ attempt' = rec.gen /\ step' = "open"
    /\ cur' = rec.gen /\ pend' = None
    /\ sock' = [Disconnected EXCEPT ![rec.gen] = "connecting"]
    /\ UNCHANGED <<channel, rec, settled, owed, refused, stray, faults, bad, retries>>

(* reportConnectionFailure in the mounted effect: dispose has removed the   *)
(* listeners of every earlier one.                                          *)
Report == rec' = MarkFailed(attempt)

(* The attempt's pending promise is rejected: its catch clause reports.     *)
Rejected == IF step \in {"open", "ask"} THEN "failed" ELSE step

-----------------------------------------------------------------------------
(* Socket events.                                                           *)

(* `open`: the attempt sends its first request (initialize, or list).       *)
Open(s) ==
    /\ sock[s] = "connecting"
    /\ sock' = [sock EXCEPT ![s] = "open"]
    /\ IF cur = s /\ s \notin settled
       THEN /\ settled' = settled \union {s} /\ owed' = owed \union {s}
            /\ step' = "ask" /\ pend' = s
       ELSE UNCHANGED <<settled, owed, step, pend>>
    /\ UNCHANGED <<channel, rec, attempt, cur, refused, stray, faults, bad, retries>>

(* #failConnection of the kernel transport and #fail of the workspace       *)
(* client, on a frame of the current socket: let go of it, reject what is   *)
(* pending, notify, then close(1002), close(1003) or close(1009).  A        *)
(* browser's close() accepts only 1000 and 3000-4999 and throws at the      *)
(* others before anything is sent: the socket stays open.                   *)
FailConnection(s) ==
    /\ cur' = None /\ pend' = None
    /\ step' = IF pend = attempt THEN Rejected ELSE step
    /\ Report
    /\ refused' = refused \union {s}

(* The kernel server registers a session under the one identifier that      *)
(* every attempt sends, and ends a connection whose identifier is taken:    *)
(* so is it while a socket the client let go of is open.                    *)
Taken(s) == channel = "kernel" /\ \E t \in refused \ {s} : sock[t] = "open"

(* The reply to the first request.  It finds its request pending: the       *)
(* channel is connected, or the server refused.  Or it does not, the        *)
(* request having been rejected meanwhile: an unknown replyTo.  A socket    *)
(* the client has let go of is not listened to.                             *)
Reply(s) ==
    /\ sock[s] = "open" /\ s \in owed /\ ~Taken(s)
    /\ owed' = owed \ {s}
    /\ \/ /\ cur = s /\ pend = s /\ pend' = None /\ UNCHANGED <<cur, refused>>
          /\ \/ step' = "done" /\ rec' = MarkConnected(attempt) /\ UNCHANGED faults
             \/ step' = "failed" /\ Report /\ faults > 0 /\ faults' = faults - 1
       \/ cur = s /\ pend # s /\ FailConnection(s) /\ UNCHANGED faults
       \/ cur # s /\ UNCHANGED <<cur, pend, step, rec, refused, faults>>
    /\ UNCHANGED <<channel, attempt, sock, settled, stray, bad, retries>>

(* A frame the client cannot accept: not text, too large, not JSON, not a   *)
(* message of the protocol or the session, a repeated messageId, an answer  *)
(* of the wrong type.                                                       *)
BadFrame(s) ==
    /\ sock[s] = "open" /\ cur = s /\ bad > 0 /\ bad' = bad - 1
    /\ FailConnection(s)
    /\ UNCHANGED <<channel, attempt, sock, settled, owed, stray, faults, retries>>

(* Once connected the attempt has nothing of its own pending; the           *)
(* application's later requests are not modelled.                           *)

(* `error` on the kernel transport.  Before `open`: #clearSocket(socket),   *)
(* close, reject.  After: #failConnection, which clears the client only if  *)
(* the socket is the current one, but rejects whatever is pending and       *)
(* notifies whoever listens.                                                *)
KernelError(s) ==
    /\ cur' = IF cur = s THEN None ELSE cur
    /\ IF s \in settled
       THEN /\ pend' = None
            /\ step' = IF pend = attempt THEN Rejected ELSE step
            /\ Report
       ELSE /\ UNCHANGED pend
            /\ IF attempt = s THEN step' = Rejected /\ Report
                              ELSE UNCHANGED <<step, rec>>

(* `error` on the workspace client.  Before the promise settled: #socket is *)
(* set to null whichever socket it holds, and the promise rejected.  After: *)
(* #fail, which drops and closes the socket the client holds now.           *)
WorkspaceError(s) ==
    /\ cur' = None
    /\ IF s \in settled
       THEN /\ pend' = None
            /\ step' = IF pend = attempt THEN Rejected ELSE step
            /\ IF cur # None \/ pend = attempt THEN Report ELSE UNCHANGED rec
       ELSE /\ UNCHANGED pend
            /\ IF attempt = s THEN step' = Rejected /\ Report
                              ELSE UNCHANGED <<step, rec>>

(* #fail, handling the error of one socket, closes the one the client holds *)
(* now, with code 1002: refused as above.                                   *)
AlsoRefused(s) ==
    IF channel = "workspace" /\ s \in settled /\ cur \notin {None, s} /\ sock[cur] \in Live
    THEN refused \union {cur} ELSE refused

(* The browser fires `error` when a connection cannot be made, when it      *)
(* breaks, when close() aborts one that was not yet made, and when the      *)
(* closing handshake of a disconnected one fails.  It has then set the      *)
(* socket's readyState to CLOSED, so that the handlers' own close(1011) is  *)
(* skipped by its test of readyState.                                       *)
Error(s) ==
    /\ sock[s] \in {"connecting", "open", "closing", "aborted"}
    /\ IF sock[s] = "aborted" THEN UNCHANGED faults
       ELSE faults > 0 /\ faults' = faults - 1
    /\ IF channel = "kernel" THEN KernelError(s) ELSE WorkspaceError(s)
    /\ sock' = [sock EXCEPT ![s] = "erred"]
    /\ refused' = AlsoRefused(s)
    /\ settled' = IF channel = "workspace" THEN settled \union {s} ELSE settled
    /\ stray' = (stray \/ cur # s)
    /\ UNCHANGED <<channel, attempt, owed, bad, retries>>

CloseUnreported == cur' = None /\ pend' = None /\ UNCHANGED <<step, rec>>

(* `close` on the client's current socket: everything pending is rejected   *)
(* and the loss reported.                                                   *)
CloseCurrent == cur' = None /\ pend' = None /\ step' = Rejected /\ Report

(* `close`: the end of every socket; ignored unless it is the current one.  *)
Close(s) ==
    /\ \/ sock[s] = "open" /\ faults > 0 /\ faults' = faults - 1
       \/ sock[s] = "open" /\ s \in owed /\ Taken(s) /\ UNCHANGED faults
       \/ sock[s] \in {"closing", "erred"} /\ UNCHANGED faults
    /\ sock' = [sock EXCEPT ![s] = "dead"]
    /\ IF cur = s THEN CloseCurrent ELSE UNCHANGED <<cur, pend, step, rec>>
    /\ UNCHANGED <<channel, attempt, settled, owed, refused, stray, bad, retries>>

-----------------------------------------------------------------------------
Next ==
    \/ RetryTimer \/ RetryNow \/ RunEffect
    \/ \E s \in Gens : Open(s) \/ Reply(s) \/ BadFrame(s) \/ Error(s) \/ Close(s)

Spec == Init /\ [][Next]_vars

(* React runs effects and the browser runs timers and delivers events; a    *)
(* server that is up answers.  Nobody has to press Retry, and faults need   *)
(* not happen, except the error that ends an aborted socket.                *)
Fairness ==
    /\ WF_vars(RetryTimer) /\ WF_vars(RunEffect)
    /\ \A s \in Gens :
         /\ WF_vars(Open(s)) /\ WF_vars(Reply(s))
         /\ WF_vars(sock[s] \in {"aborted", "erred", "closing"} /\ (Error(s) \/ Close(s)))

FairSpec == Spec /\ Fairness

-----------------------------------------------------------------------------
ConnectionTypeOK ==
    /\ rec \in [phase : {"connecting", "connected", "reconnecting", "failed"}, gen : Gens,
                failed : BOOLEAN, once : BOOLEAN, waiting : BOOLEAN]
    /\ rec.waiting => rec.phase = "reconnecting"
    /\ attempt \in 0..rec.gen /\ step \in {"open", "ask", "done", "failed"}
    /\ cur \in Gens \union {None} /\ pend \in {None, attempt}
    /\ sock \in [Gens -> Live \union {"none", "closing", "aborted", "erred", "dead"}]
    /\ settled \subseteq Gens /\ owed \subseteq settled /\ refused \subseteq Gens

(* The kernel transport recovers whatever its old sockets do.  The workspace *)
(* client does as long as none of them reports an error: its listeners do    *)
(* not ask whose error it is, and drop the socket of the next attempt.       *)
Undisturbed == channel = "kernel" \/ ~stray

(* The status bar's "Ready": while a channel shows connected, its client    *)
(* holds the open socket of that very generation, so its requests go out.   *)
ConnectedIsUsable ==
    Undisturbed /\ rec.phase = "connected" /\ attempt = rec.gen
      => step = "done" /\ cur = rec.gen /\ sock[rec.gen] = "open"

(* Every connection still open or being made is the one the client holds,   *)
(* or one that it tried to close with a code the browser refuses.  No late  *)
(* event, retry or failed attempt leaves another one behind.                *)
OnlyRefusedLeft == Undisturbed => \A s \in Gens : sock[s] \in Live => cur = s \/ s \in refused

(* The two, as one invariant.                                               *)
ConnectionConsistent == ConnectionTypeOK /\ OnlyRefusedLeft

(* After finitely many faults, bad frames and retries the channel is        *)
(* connected for good (given a non-empty list of delays): no failure is     *)
(* left without a next attempt and no attempt waits forever.  For the       *)
(* kernel this needs that no close was refused: the server does not serve   *)
(* a second connection while the socket left open holds the session.        *)
Recovers == <>[](Undisturbed /\ (channel = "kernel" => refused = {}) => rec.phase = "connected")

=============================================================================
