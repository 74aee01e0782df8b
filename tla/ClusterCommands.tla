-------------------------- MODULE ClusterCommands --------------------------
(***************************************************************************)
(* Commands and copies on a SLURM cluster (conductor/app.js:214-563), and  *)
(* the boot that needs them: one ssh connection shared by everybody, a new *)
(* one when a use of it throws, and a table of the commands in flight, all *)
(* of which are failed when a connection closes.                           *)
(*                                                                         *)
(* The library ssh2 is external.  It emits "error" while connecting, or    *)
(* later from the socket, and "close" once a socket has ended; exec and    *)
(* sftp throw when the socket has ended, and a stream says nothing more.   *)
(*                                                                         *)
(* A step is one callback of node.  A connection is named by the callback  *)
(* it is made for and a number; a try, which is one use of exec, by its    *)
(* command and a number, and the name stands for the random token.  The    *)
(* process dies of its own exceptions only; a reboot starts from Init.     *)
(***************************************************************************)
EXTENDS Naturals, FiniteSets, SequencesExt

CONSTANTS
    Polls,        \* calls of run_cluster_cmd by the poll, which starts with the boot
    Requests,     \* calls by requests, which are served after it
    VarNames,     \* the environment variables asked for at boot, in order
    Copies,       \* the files of one batched_cluster_copy, in order
    Boot,         \* the callback of launch
    NoCopy,
    NoConn,       \* null
    FaultKinds,   \* subset of {"connect", "close", "error", "refused", "sftp"}
    MaxFaults     \* bound

Calls == Polls \cup Requests
Commands == Calls \cup ToSet(VarNames)
Files == ToSet(Copies)
Callbacks == Commands \cup Files \cup {Boot}

ASSUME CommandsAssumption ==
    /\ VarNames \in Seq(ToSet(VarNames)) /\ VarNames # <<>> /\ IsInjective(VarNames)
    /\ Copies \in Seq(Files) /\ Copies # <<>> /\ IsInjective(Copies)
    /\ Calls \cap ToSet(VarNames) = {} /\ Commands \cap Files = {}
    /\ Boot \notin Commands \cup Files /\ NoCopy \notin Files
    /\ MaxFaults \in Nat

VARIABLES
    up,           \* the conductor's process is alive
    boot,         \* how far launch has come
    current,      \* cluster_connection
    sftp,         \* the connection of cluster_sftp
    conns,        \* per callback, the states of the connections made for it
    sftpAsks,     \* sftp sessions asked for: by which connection, on which
    issued,       \* the calls made so far
    asked,        \* per command, how often it is to be run (again)
    tries,        \* per command, the connection and place of its tries
    inFlight,     \* in_flight_cmds
    answers,      \* history: every call of a command's callback
    turn,         \* the copy with which the running callback goes on
    transfers,    \* copies under way
    stat,         \* the results of the batch
    batch,        \* whether its callback has been called
    reran,        \* history: the callbacks run again after an error
    faults

connVars == <<current, sftp, conns, sftpAsks>>
tryVars == <<tries, inFlight, answers>>
copyVars == <<turn, transfers, stat, batch>>
vars == <<up, boot, connVars, issued, asked, tryVars, copyVars, reran, faults>>

Conns == UNION {{x} \X DOMAIN conns[x] : x \in Callbacks}
Tries == UNION {{c} \X DOMAIN tries[c] : c \in Commands}

State(n) == conns[n[1]][n[2]]
At(t) == tries[t[1]][t[2]].at
ConnOf(t) == tries[t[1]][t[2]].conn
IsOpen(n) == n # NoConn /\ State(n) = "open"

TypeOK ==
    /\ up \in BOOLEAN
    /\ boot \in {"connecting", "launched", "listening"}
    /\ conns \in [Callbacks -> Seq({"connecting", "open", "lost", "closed"})]
    /\ {current, sftp} \subseteq Conns \cup {NoConn}
    /\ sftpAsks \subseteq [of : Conns, conn : Conns]
    /\ issued \subseteq Calls
    /\ asked \in [Commands -> Nat]
    /\ tries \in [Commands -> Seq([conn : Conns,
                                   at : {"sent", "streaming", "ignored", "ended"}])]
    /\ inFlight \subseteq Tries
    /\ answers \subseteq [try : Tries,
                          how : {"success", "failure", "own close", "other close"}]
    /\ turn \in Files \cup {NoCopy}
    /\ transfers \subseteq [file : Files, conn : Conns]
    /\ stat \in Seq([file : Files, success : BOOLEAN])
    /\ batch \in {"idle", "running", "answered"}
    /\ reran \subseteq Callbacks
    /\ faults \in 0 .. MaxFaults

Init ==
    /\ up = TRUE /\ boot = "connecting"
    /\ current = NoConn /\ sftp = NoConn /\ sftpAsks = {}
    /\ conns = [x \in Callbacks |-> IF x = Boot THEN <<"connecting">> ELSE <<>>]
    /\ issued = {} /\ asked = [c \in Commands |-> 0]
    /\ tries = [c \in Commands |-> <<>>] /\ inFlight = {} /\ answers = {}
    /\ turn = NoCopy /\ transfers = {} /\ stat = <<>> /\ batch = "idle"
    /\ reran = {} /\ faults = 0

Fault(kind) ==
    /\ kind \in FaultKinds
    /\ faults < MaxFaults
    /\ faults' = faults + 1

NoFault == UNCHANGED faults

-----------------------------------------------------------------------------
(* connect_to_cluster and its event handlers.                              *)

Connect(table, next) == [table EXCEPT ![next] = Append(@, "connecting")]

Becomes(n, state) == [conns EXCEPT ![n[1]][n[2]] = state]

Goes(t, place) == tries' = [tries EXCEPT ![t[1]][t[2]].at = place]

Ready(n) ==
    /\ State(n) = "connecting"
    /\ conns' = Becomes(n, "open")
    /\ current' = n
    /\ sftpAsks' = sftpAsks \cup {[of |-> n, conn |-> n]}
    /\ NoFault
    /\ UNCHANGED <<up, boot, sftp, issued, asked, tryVars, copyVars, reran>>

(* "error" while connecting: connect_to_cluster calls itself.              *)
ConnectFails(n) ==
    /\ State(n) = "connecting"
    /\ Fault("connect")
    /\ conns' = Connect(Becomes(n, "lost"), n[1])
    /\ UNCHANGED <<up, boot, current, sftp, sftpAsks, issued, asked, tryVars,
                   copyVars, reran>>

(* "error" after "ready" finds the same handler: it connects again, for the*)
(* same callback.                                                          *)
SocketError(n) ==
    /\ IsOpen(n)
    /\ Fault("error")
    /\ conns' = Connect(Becomes(n, "lost"), n[1])
    /\ reran' = reran \cup {n[1]}
    /\ UNCHANGED <<up, boot, current, sftp, sftpAsks, issued, asked, tryVars,
                   copyVars>>

(* The other side ends the connection.                                     *)
SocketEnds(n) ==
    /\ IsOpen(n)
    /\ Fault("close")
    /\ conns' = Becomes(n, "lost")
    /\ UNCHANGED <<up, boot, current, sftp, sftpAsks, issued, asked, tryVars,
                   copyVars, reran>>

(* The callback of connect_to_cluster: launch starts the poll and asks for *)
(* the first variable, a command waits for a token, a copy goes on at once.*)
CallBack(next) ==
    /\ boot' = IF next = Boot /\ boot = "connecting" THEN "launched" ELSE boot
    /\ asked' = IF next \in Files THEN asked
                ELSE [asked EXCEPT ![IF next = Boot THEN VarNames[1] ELSE next] = @ + 1]
    /\ turn' = IF next \in Files THEN next ELSE NoCopy

(* sftp_connect_to_cluster.                                                *)
SftpOpens(q) ==
    /\ IsOpen(q.conn)
    /\ sftp' = q.conn
    /\ sftpAsks' = sftpAsks \ {q}
    /\ CallBack(q.of[1])
    /\ NoFault
    /\ UNCHANGED <<up, current, conns, issued, tryVars, transfers, stat, batch, reran>>

(* It asks again, on what is the connection now; if that is null or has    *)
(* ended the call throws, and nobody catches it.                           *)
SftpFails(q) ==
    /\ \/ State(q.conn) = "closed" /\ NoFault
       \/ IsOpen(q.conn) /\ Fault("sftp")
    /\ IF IsOpen(current)
         THEN /\ sftpAsks' = (sftpAsks \ {q}) \cup {[q EXCEPT !.conn = current]}
              /\ UNCHANGED up
         ELSE up' = FALSE /\ UNCHANGED sftpAsks
    /\ UNCHANGED <<boot, current, sftp, conns, issued, asked, tryVars, copyVars, reran>>

-----------------------------------------------------------------------------
(* run_cluster_cmd.                                                        *)

(* The token is there.  If exec throws, the command is called again when   *)
(* there is a new connection.                                              *)
Exec(c) ==
    /\ IF IsOpen(current)
         THEN /\ tries' = [tries EXCEPT ![c] = Append(@, [conn |-> current, at |-> "sent"])]
              /\ inFlight' = inFlight \cup {<<c, Len(tries'[c])>>}
              /\ UNCHANGED <<current, sftp, conns>>
         ELSE /\ current' = NoConn /\ sftp' = NoConn
              /\ conns' = Connect(conns, c)
              /\ UNCHANGED <<tries, inFlight>>
    /\ NoFault
    /\ UNCHANGED <<up, boot, sftpAsks, answers, copyVars, reran>>

(* The poll starts with the callback of launch, requests are served later. *)
RunClusterCmd(c) ==
    /\ c \notin issued
    /\ boot = "listening" \/ (boot = "launched" /\ c \in Polls)
    /\ issued' = issued \cup {c}
    /\ UNCHANGED asked
    /\ Exec(c)

RunAgain(c) ==
    /\ asked[c] > 0
    /\ asked' = [asked EXCEPT ![c] = @ - 1]
    /\ UNCHANGED issued
    /\ Exec(c)

Answer(t, how) == [try |-> t, how |-> how]

(* The token of a command that has answered.                               *)
Delete_(t) == inFlight
Delete(t) == inFlight \ {t}

(* What the callers do with an answer: calls of the poll and of requests   *)
(* are left to Conductor; a variable is followed by the next one, the last *)
(* by app.listen.  launch handles an error with names it does not have,    *)
(* and a second listen on a port fails: both end the process.              *)
Answered_(c, ok) ==
    /\ asked' = IF ok THEN asked ELSE [asked EXCEPT ![c] = @ + 1]
    /\ UNCHANGED <<up, boot>>

Answered(c, ok) ==
    IF c \in Calls THEN UNCHANGED <<up, boot, asked>>
    ELSE LET i == CHOOSE k \in DOMAIN VarNames : VarNames[k] = c IN
         IF ok /\ i < Len(VarNames)
         THEN /\ asked' = [asked EXCEPT ![VarNames[i + 1]] = @ + 1]
              /\ UNCHANGED <<up, boot>>
         ELSE /\ up' = (ok /\ boot # "listening")
              /\ boot' = IF ok THEN "listening" ELSE boot
              /\ UNCHANGED asked

(* The handler given to exec, with the stream of the command.              *)
Starts(t) ==
    /\ At(t) = "sent"
    /\ IsOpen(ConnOf(t))
    /\ Goes(t, IF t \in inFlight THEN "streaming" ELSE "ignored")
    /\ NoFault
    /\ UNCHANGED <<up, boot, connVars, issued, asked, inFlight, answers, copyVars, reran>>

(* The handler, with an error.                                             *)
Refused(t) ==
    /\ At(t) = "sent"
    /\ IsOpen(ConnOf(t))
    /\ Fault("refused")
    /\ Goes(t, "ended")
    /\ inFlight' = Delete(t)
    /\ IF t \in inFlight
         THEN /\ answers' = answers \cup {Answer(t, "failure")}
              /\ Answered(t[1], FALSE)
         ELSE UNCHANGED <<up, boot, asked, answers>>
    /\ UNCHANGED <<connVars, issued, copyVars, reran>>

(* "close" of the stream.  The token is not looked at.                     *)
Exits(t) ==
    /\ At(t) = "streaming"
    /\ IsOpen(ConnOf(t))
    /\ Goes(t, "ended")
    /\ inFlight' = Delete(t)
    /\ \E how \in {"success", "failure"} :
         /\ answers' = answers \cup {Answer(t, how)}
         /\ Answered(t[1], how = "success")
    /\ NoFault
    /\ UNCHANGED <<connVars, issued, copyVars, reran>>

(* "close" of a connection, and clear_in_flight_cmds.  The callbacks that  *)
(* exec still has are called after it and find no token.                   *)
FailedBy_(n) == {Answer(t, "own close") : t \in {u \in inFlight : ConnOf(u) = n}}
FailedBy(n) ==
    {Answer(t, IF ConnOf(t) = n THEN "own close" ELSE "other close") : t \in inFlight}

NewTable_ == inFlight
NewTable == {}

Closes(n) ==
    /\ State(n) = "lost"
    /\ conns' = Becomes(n, "closed")
    /\ inFlight' = NewTable
    /\ answers' = answers \cup FailedBy(n)
    /\ up' = (\A t \in inFlight : t[1] \in Calls)
    /\ NoFault
    /\ UNCHANGED <<boot, current, sftp, sftpAsks, issued, asked, tries, copyVars, reran>>

-----------------------------------------------------------------------------
(* cluster_copy and batched_cluster_copy.                                  *)

BatchedClusterCopy ==
    /\ boot = "listening"
    /\ batch = "idle"
    /\ batch' = "running"
    /\ turn' = Copies[1]
    /\ NoFault
    /\ UNCHANGED <<up, boot, connVars, issued, asked, tryVars, transfers, stat, reran>>

ClusterCopy ==
    /\ sftp # NoConn
    /\ transfers' = transfers \cup {[file |-> turn, conn |-> sftp]}
    /\ turn' = NoCopy
    /\ NoFault
    /\ UNCHANGED <<up, boot, connVars, issued, asked, tryVars, stat, batch, reran>>

(* A use of cluster_sftp throws, when it is null or has ended.  The handler*)
(* ends the connection, which may be a new and sound one, or null: then it *)
(* throws itself.                                                          *)
ClusterCopyThrows ==
    /\ ~ IsOpen(sftp)
    /\ IF current = NoConn
         THEN up' = FALSE /\ UNCHANGED <<current, sftp, conns>>
         ELSE /\ current' = NoConn /\ sftp' = NoConn
              /\ conns' = Connect(IF IsOpen(current) THEN Becomes(current, "lost") ELSE conns,
                                  turn)
              /\ UNCHANGED up
    /\ turn' = NoCopy
    /\ NoFault
    /\ UNCHANGED <<boot, sftpAsks, issued, asked, tryVars, transfers, stat, batch, reran>>

(* The next file is copied whatever became of this one.                    *)
AfterFile_(f) ==
    LET i == CHOOSE k \in DOMAIN Copies : Copies[k] = f IN
    IF i + 1 < Len(Copies) THEN turn' = Copies[i + 1] /\ UNCHANGED batch
                           ELSE turn' = NoCopy /\ batch' = "answered"

AfterFile(f) ==
    LET i == CHOOSE k \in DOMAIN Copies : Copies[k] = f IN
    IF i < Len(Copies) THEN turn' = Copies[i + 1] /\ UNCHANGED batch
                       ELSE turn' = NoCopy /\ batch' = "answered"

(* On a connection that has gone a copy fails, or is never heard of again. *)
TransferEnds(x, success) ==
    /\ success => IsOpen(x.conn)
    /\ transfers' = transfers \ {x}
    /\ stat' = Append(stat, [file |-> x.file, success |-> success])
    /\ AfterFile(x.file)
    /\ NoFault
    /\ UNCHANGED <<up, boot, connVars, issued, asked, tryVars, reran>>

-----------------------------------------------------------------------------

ConnEvent ==
    \E n \in Conns : Ready(n) \/ Closes(n)

CommandEvent ==
    \/ \E q \in sftpAsks : SftpOpens(q) \/ SftpFails(q)
    \/ \E c \in Commands : RunAgain(c)
    \/ \E t \in Tries : Starts(t) \/ Exits(t)

Faults ==
    \/ \E n \in Conns : ConnectFails(n) \/ SocketError(n) \/ SocketEnds(n)
    \/ \E t \in Tries : Refused(t)

CopyEvent ==
    \E x \in transfers, success \in BOOLEAN : TransferEnds(x, success)

Step ==
    IF turn # NoCopy THEN ClusterCopy \/ ClusterCopyThrows
    ELSE \/ ConnEvent \/ CommandEvent \/ CopyEvent \/ Faults
         \/ BatchedClusterCopy
         \/ \E c \in Calls : RunClusterCmd(c)

Next == up /\ Step

(* Node delivers the events it has: connections get ready or fail, commands*)
(* start and exit, sockets that ended are closed.  Only copies may never   *)
(* be heard of again, and nobody has to make a call.                       *)
Progress ==
    /\ up
    /\ IF turn # NoCopy THEN ClusterCopy \/ ClusterCopyThrows
                        ELSE ConnEvent \/ CommandEvent

Spec == Init /\ [][Next]_vars
FairSpec == Spec /\ WF_vars(Progress)

-----------------------------------------------------------------------------
(* Properties.                                                             *)

CallbacksOf(c) == {a \in answers : a.try[1] = c}

(* in_flight_cmds holds exactly the tries whose callback has not been      *)
(* called: none is "left handing indefinitely" (app.js:280-283), and none  *)
(* that has answered is failed by a later disconnect.                      *)
InFlightExact ==
    /\ TypeOK
    /\ up => inFlight = Tries \ {a.try : a \in answers}

(* "We seem to have gotten called twice, so avoid calling callback twice"  *)
(* (app.js:321): what still gets through.  The connection of a try answers *)
(* it once; so does the close of any other connection, but only before.    *)
TwiceOnlyAcross ==
    \A a, b \in answers : a.try = b.try /\ a # b =>
       "other close" \in {a.how, b.how} /\ {a.how, b.how} \cap {"success", "failure"} # {}

(* A command reaches the cluster once, unless the connection that was made *)
(* for it (or for the boot, for a variable) had an error after it was ready*)
SentOnce ==
    \A c \in Commands : Len(tries[c]) <= 1 \/ c \in reran
                          \/ (c \notin Calls /\ reran \ (Calls \cup Files) # {})

(* The batch is answered with one result per file, in order, unless copies *)
(* were run again: a failure does not end it early.                        *)
BatchComplete ==
    batch = "answered" /\ reran \cap Files = {} =>
       [i \in DOMAIN stat |-> stat[i].file] = Copies

(* Every call is answered, whatever becomes of the connections, as long as *)
(* the process lives.                                                      *)
CallsAreAnswered ==
    \A c \in Calls : c \in issued ~> CallbacksOf(c) # {} \/ ~ up

(* "avoid calling callback twice" (app.js:321).                            *)
CallbackOnce ==
    \A c \in Calls : Cardinality(CallbacksOf(c)) <= 1
=============================================================================
