---------------------------- MODULE UmqttSession ----------------------------
(***************************************************************************)
(* The MQTT session kept by umqtt.c: mqtt_start_client() creates a client  *)
(* and starts it, the umqtt thread reads and reconnects, the uplink timer  *)
(* sends heartbeats and reconnects too.  The three share one client        *)
(* structure, whose fields are read again after every call that blocks.    *)
(*                                                                         *)
(* Each of the three may be inside umqtt_connect(), so its position there  *)
(* is a function of the thread.  Ticks are left out: a delay or a period   *)
(* may end at any time, and uplink keeps what the comparisons of           *)
(* uplink_last_tick, uplink_next_tick and the clock tell apart.            *)
(* A socket names one connection of the device, not a number used again.   *)
(***************************************************************************)
EXTENDS Naturals, FiniteSets

CONSTANTS
    Socks,              \* sockets the network module can have open at once
    ReconnectMax,       \* mqtt_info.reconnect_max_num
    KeepaliveMax,       \* mqtt_info.keepalive_max_num
    Reliable,           \* the network only fails by closing a session
    NoSock              \* sock = -1

ASSUME SessionAssumption ==
    /\ IsFiniteSet(Socks) /\ NoSock \notin Socks
    /\ ReconnectMax \in Nat \ {0} /\ KeepaliveMax \in Nat \ {0}
    /\ Reliable \in BOOLEAN

VARIABLES
    mpc,                \* mqtt_start_client(): idle, inside, or returned a client
    cpc,                \* position of each thread in umqtt_connect()
    csock,              \* the socket a thread is connecting or reading
    rpc,                \* the umqtt thread
    timer_on,           \* the uplink timer is activated
    connect_state,
    sock,
    reconnect_count,
    keepalive_count,
    uplink,             \* is an answer of the broker awaited?
    conn                \* each socket, as the network sees it

threadVars == <<mpc, cpc, csock, rpc, timer_on>>
clientVars == <<connect_state, sock, reconnect_count, keepalive_count, uplink>>
vars == <<threadVars, clientVars, conn>>

Threads == {"main", "umqtt", "timer"}

(* Where a thread is in umqtt_connect() or, for the timer, in its callback.*)
ConnectPc == {"off", "try", "dial", "send", "spin", "read", "close",
              "ping", "unlink", "drop", "delete"}

(* CONNECT has been sent and CONNACK is on its way (asked), has been read  *)
(* (session), or the peer or a thread of the device has closed the         *)
(* connection and the socket is not freed yet (fin).                       *)
ConnState == {"closed", "dialing", "open", "asked", "session", "fin"}

umqtt_client_state ==
    {"IDLE", "LINKING", "LINKED", "UNLINK", "UNLINK_LINKING", "DISCONNECT"}

Init ==
    /\ mpc = "idle"
    /\ cpc = [t \in Threads |-> "off"]
    /\ csock = [t \in Threads |-> NoSock]
    /\ rpc = "none"
    /\ timer_on = FALSE
    /\ connect_state = "IDLE"
    /\ sock = NoSock
    /\ reconnect_count = 0 /\ keepalive_count = 0
    /\ uplink = "waiting"
    /\ conn = [s \in Socks |-> "closed"]

(* A closing thread goes on to the next attempt; the timer, when it closes *)
(* outside umqtt_connect(), to the end of its callback.                    *)
AfterClose(p) == IF p = "close" THEN "try" ELSE "off"

(* umqtt_trans_disconnect(client->sock); client->sock = -1;  begins: the   *)
(* socket is read from the client, and closesocket() first waits 100 ms,   *)
(* unless there is no such socket.                                         *)
BeginsClose(t, p) ==
    /\ csock' = [csock EXCEPT ![t] = sock]
    /\ cpc' = [cpc EXCEPT ![t] = IF sock = NoSock THEN AfterClose(p) ELSE p]

(***************************************************************************)
(* umqtt_connect(client, block), called with block = 0 by the timer only.  *)
(***************************************************************************)

(* What the caller does when umqtt_connect() returns.  umqtt_start()       *)
(* starts the thread, or fails, and mqtt_start_client() then deletes the   *)
(* client, whose socket stays as it is; the umqtt thread quits only when   *)
(* the reconnects are used up; the timer ignores the result.               *)
Returned(t, result) ==
    /\ cpc' = [cpc EXCEPT ![t] = "off"]
    /\ csock' = [csock EXCEPT ![t] = NoSock]
    /\ mpc' = IF t # "main" THEN mpc ELSE IF result = "ok" THEN "arm" ELSE "idle"
    /\ rpc' = CASE t = "main" /\ result = "ok" -> "enter"
                [] t = "umqtt" /\ result = "reconnect_failed" -> "quit"
                [] t = "umqtt" /\ result # "reconnect_failed" -> "enter"
                [] OTHER -> rpc
    /\ UNCHANGED timer_on

(* Exit with an error: the state becomes DISCONNECT.                       *)
Fails(t, result) == connect_state' = "DISCONNECT" /\ Returned(t, result)

\* Mutant: the umqtt thread gives up and leaves the state as it is.
GivesUpSilentMutant(t) ==
    /\ cpc[t] = "try"
    /\ reconnect_count + 1 > ReconnectMax
    /\ reconnect_count' = 0
    /\ Returned(t, "reconnect_failed")
    /\ UNCHANGED <<connect_state, sock, keepalive_count, uplink, conn>>

\* Mutant: the counter is compared before the attempt is counted.
GivesUpLateMutant(t) ==
    /\ cpc[t] = "try"
    /\ reconnect_count > ReconnectMax
    /\ reconnect_count' = 0
    /\ Fails(t, "reconnect_failed")
    /\ UNCHANGED <<sock, keepalive_count, uplink, conn>>

(* The top of _reconnect: the attempts are used up.  reconnect_count is    *)
(* set back here and nowhere else.                                         *)
GivesUp(t) ==
    /\ cpc[t] = "try"
    /\ reconnect_count + 1 > ReconnectMax
    /\ reconnect_count' = 0
    /\ Fails(t, "reconnect_failed")
    /\ UNCHANGED <<sock, keepalive_count, uplink, conn>>

\* Mutant: one attempt too many.
TriesMutant(t) ==
    /\ cpc[t] = "try"
    /\ reconnect_count <= ReconnectMax
    /\ reconnect_count' = reconnect_count + 1
    /\ \E s \in {x \in Socks : conn[x] = "closed"
                               /\ \A u \in Threads : csock[u] # x} :
         /\ sock' = s
         /\ csock' = [csock EXCEPT ![t] = s]
         /\ conn' = [conn EXCEPT ![s] = "dialing"]
    /\ cpc' = [cpc EXCEPT ![t] = "dial"]
    /\ UNCHANGED <<mpc, rpc, timer_on, connect_state, keepalive_count, uplink>>

(* One more attempt: umqtt_trans_connect() sets sock to -1 and, once the   *)
(* name is resolved, to a new socket that it then connects.                *)
Tries(t) ==
    /\ cpc[t] = "try"
    /\ reconnect_count + 1 <= ReconnectMax
    /\ reconnect_count' = reconnect_count + 1
    /\ \E s \in {x \in Socks : conn[x] = "closed"
                               /\ \A u \in Threads : csock[u] # x} :
         /\ sock' = s
         /\ csock' = [csock EXCEPT ![t] = s]
         /\ conn' = [conn EXCEPT ![s] = "dialing"]
    /\ cpc' = [cpc EXCEPT ![t] = "dial"]
    /\ UNCHANGED <<mpc, rpc, timer_on, connect_state, keepalive_count, uplink>>

(* The name does not resolve, or no socket is left: sock stays -1, and the *)
(* loop tries again after a delay.                                         *)
TriesInVain(t) ==
    /\ cpc[t] = "try"
    /\ reconnect_count + 1 <= ReconnectMax
    /\ reconnect_count' = reconnect_count + 1
    /\ Reliable => \A s \in Socks : conn[s] # "closed"
    /\ sock' = NoSock
    /\ UNCHANGED <<threadVars, connect_state, keepalive_count, uplink, conn>>

(* connect() succeeds ...                                                  *)
Dialled(t) ==
    /\ cpc[t] = "dial"
    /\ conn[csock[t]] = "dialing"
    /\ conn' = [conn EXCEPT ![csock[t]] = "open"]
    /\ csock' = [csock EXCEPT ![t] = NoSock]
    /\ cpc' = [cpc EXCEPT ![t] = "send"]
    /\ UNCHANGED <<mpc, rpc, timer_on, clientVars>>

\* Mutant: an attempt whose connect() fails is not counted.
DialFailsMutant(t) ==
    /\ cpc[t] = "dial"
    /\ Reliable => conn[csock[t]] # "dialing"
    /\ BeginsClose(t, "close")
    /\ reconnect_count' = reconnect_count - 1
    /\ UNCHANGED <<mpc, rpc, timer_on, connect_state, sock, keepalive_count,
                   uplink, conn>>

(* ... or fails, on a socket another thread has closed for instance: the   *)
(* socket in client->sock is closed, and the loop tries again.             *)
DialFails(t) ==
    /\ cpc[t] = "dial"
    /\ Reliable => conn[csock[t]] # "dialing"
    /\ BeginsClose(t, "close")
    /\ UNCHANGED <<mpc, rpc, timer_on, clientVars, conn>>

CanSend == sock \in {s \in Socks : conn[s] \in {"open", "asked", "session"}}

HalfClosed == sock \in {s \in Socks : conn[s] = "fin"}

(* Behind the test of umqtt_trans_send()'s result: the timer returns at    *)
(* once, the others go on to read from client->sock.                       *)
AwaitsConnack(t) ==
    /\ uplink' = "waiting"
    /\ IF t = "timer"
       THEN Returned(t, "ok")
       ELSE /\ cpc' = [cpc EXCEPT ![t] = "read"]
            /\ csock' = [csock EXCEPT ![t] = sock]
            /\ UNCHANGED <<mpc, rpc, timer_on>>
    /\ UNCHANGED <<connect_state, sock, reconnect_count, keepalive_count>>

(* CONNECT is sent on client->sock; a second CONNECT on one connection is  *)
(* an error for which the broker closes it.                                *)
SendsConnect(t) ==
    /\ cpc[t] = "send"
    /\ CanSend
    /\ conn' = [conn EXCEPT ![sock] = IF @ = "open" THEN "asked" ELSE "fin"]
    /\ AwaitsConnack(t)

(* send() fails.  umqtt_trans_send() returns -errno, and errno is the      *)
(* error of the thread, zero or a negative RT-Thread code: the result is   *)
(* not negative, and the caller goes on as if CONNECT had been sent.       *)
SendFails(t) ==
    /\ cpc[t] = "send"
    /\ ~HalfClosed /\ ~(Reliable /\ CanSend)
    /\ AwaitsConnack(t)
    /\ UNCHANGED conn

(* send() returns 0 on a connection that is closed and not freed, and the  *)
(* loop of umqtt_trans_send() calls it again at once, without an end ...   *)
SendSpins(t) ==
    /\ cpc[t] = "send"
    /\ HalfClosed
    /\ cpc' = [cpc EXCEPT ![t] = "spin"]
    /\ csock' = [csock EXCEPT ![t] = sock]
    /\ UNCHANGED <<mpc, rpc, timer_on, clientVars, conn>>

(* ... until a thread that still runs frees the socket and send() fails.   *)
SpinEnds(t) ==
    /\ cpc[t] = "spin"
    /\ conn[csock[t]] # "fin"
    /\ AwaitsConnack(t)
    /\ UNCHANGED conn

(* umqtt_handle_readpacket() reads CONNACK.                                *)
Accepted(t) ==
    /\ conn[csock[t]] = "asked"
    /\ conn' = [conn EXCEPT ![csock[t]] = "session"]
    /\ uplink' = "fresh"
    /\ connect_state' = "LINKED"

(* recv() returns 0 or an error.                                           *)
EndOfStream(t) ==
    csock[t] \in {s \in Socks : conn[s] \in {"closed", "fin"}} \cup {NoSock}

ReadsConnack(t) ==
    /\ cpc[t] = "read" /\ csock[t] # NoSock
    /\ Accepted(t)
    /\ Returned(t, "ok")
    /\ UNCHANGED <<sock, reconnect_count, keepalive_count>>

(* What arrives first cannot be read as a packet, in the time allowed.     *)
ReadsGarbled(t) ==
    /\ cpc[t] = "read" /\ csock[t] # NoSock
    /\ ~Reliable /\ conn[csock[t]] = "asked"
    /\ conn' = [conn EXCEPT ![csock[t]] = "session"]
    /\ Fails(t, "read_error")
    /\ UNCHANGED <<sock, reconnect_count, keepalive_count, uplink>>

(* A packet of another type arrives first: wait for LINKED, up to          *)
(* connect_time; the umqtt thread finds the LINKED of the lost session.    *)
ReadsOther(t) ==
    /\ cpc[t] = "read" /\ csock[t] # NoSock
    /\ ~Reliable /\ conn[csock[t]] = "asked"
    /\ IF connect_state = "LINKED"
       THEN Returned(t, "ok") /\ UNCHANGED connect_state
       ELSE Fails(t, "timeout")
    /\ UNCHANGED <<sock, reconnect_count, keepalive_count, uplink, conn>>

(* The stream ends before CONNACK: close, wait and try again.              *)
ReadsFin(t) ==
    /\ cpc[t] = "read"
    /\ EndOfStream(t)
    /\ BeginsClose(t, "close")
    /\ UNCHANGED <<mpc, rpc, timer_on, clientVars, conn>>

(* at_closesocket(), 100 ms later: the connection is closed ...            *)
Shuts(t) ==
    /\ cpc[t] \in {"close", "drop"}
    /\ ~EndOfStream(t)
    /\ conn' = [conn EXCEPT ![csock[t]] = "fin"]
    /\ UNCHANGED <<threadVars, clientVars>>

(* ... and then the socket freed; client->sock becomes -1, whichever       *)
(* socket it holds by now.                                                 *)
Closes(t) ==
    /\ cpc[t] \in {"close", "drop"}
    /\ EndOfStream(t)
    /\ conn' = [conn EXCEPT ![csock[t]] = "closed"]
    /\ sock' = NoSock
    /\ csock' = [csock EXCEPT ![t] = NoSock]
    /\ cpc' = [cpc EXCEPT ![t] = AfterClose(@)]
    /\ UNCHANGED <<mpc, rpc, timer_on, connect_state, reconnect_count,
                   keepalive_count, uplink>>

(* Steps of umqtt_connect(), and of the closing of a socket, that wait     *)
(* neither for the broker nor for lock_client.                             *)
Connecting(t) ==
    \/ Tries(t) \/ TriesInVain(t) \/ Dialled(t) \/ DialFails(t)
    \/ SendsConnect(t) \/ SendFails(t) \/ SendSpins(t) \/ SpinEnds(t)
    \/ ReadsFin(t) \/ Shuts(t) \/ Closes(t)

Reading(t) == ReadsConnack(t) \/ ReadsGarbled(t) \/ ReadsOther(t)

(***************************************************************************)
(* mqtt_start_client(): umqtt_create() zeroes a new structure and          *)
(* umqtt_start() connects it.  A client whose start fails is deleted, and  *)
(* the main thread comes back here later.                                  *)
(***************************************************************************)
StartClient ==
    /\ mpc = "idle"
    /\ mpc' = "start"
    /\ connect_state' = "LINKING"
    /\ sock' = NoSock
    /\ reconnect_count' = 0 /\ keepalive_count' = 0
    /\ uplink' = "waiting"
    /\ cpc' = [cpc EXCEPT !["main"] = "try"]
    /\ UNCHANGED <<csock, rpc, timer_on, conn>>

(* umqtt_start() starts the timer after the thread, which has the higher   *)
(* priority and may already have lost the session again.                   *)
StartTimer ==
    /\ mpc = "arm"
    /\ mpc' = "up"
    /\ timer_on' = TRUE
    /\ UNCHANGED <<cpc, csock, rpc, clientVars, conn>>

(***************************************************************************)
(* umqtt_thread()                                                          *)
(***************************************************************************)
ThreadEnters ==
    /\ rpc = "enter"
    /\ rpc' = "recv"
    /\ csock' = [csock EXCEPT !["umqtt"] = sock]
    /\ UNCHANGED <<mpc, cpc, timer_on, clientVars, conn>>

(* A packet of the session, a PINGRESP for instance.                       *)
ThreadReads ==
    /\ rpc = "recv" /\ csock["umqtt"] # NoSock
    /\ conn[csock["umqtt"]] = "session"
    /\ uplink' = "fresh"
    /\ rpc' = "enter"
    /\ csock' = [csock EXCEPT !["umqtt"] = NoSock]
    /\ UNCHANGED <<mpc, cpc, timer_on, connect_state, sock, reconnect_count,
                   keepalive_count, conn>>

(* The CONNACK of a connection the timer made, which may be garbled.       *)
ThreadReadsConnack ==
    /\ rpc = "recv" /\ csock["umqtt"] # NoSock
    /\ \/ Accepted("umqtt")
       \/ /\ ~Reliable /\ conn[csock["umqtt"]] = "asked"
          /\ conn' = [conn EXCEPT ![csock["umqtt"]] = "session"]
          /\ UNCHANGED <<connect_state, uplink>>
    /\ rpc' = "enter"
    /\ csock' = [csock EXCEPT !["umqtt"] = NoSock]
    /\ UNCHANGED <<mpc, cpc, timer_on, sock, reconnect_count, keepalive_count>>

(* The stream ends: stop the timer, close client->sock, which need not be  *)
(* the socket that was read, wait and reconnect.  connect_state is left.   *)
ThreadFin ==
    /\ rpc = "recv"
    /\ EndOfStream("umqtt")
    /\ timer_on' = FALSE
    /\ BeginsClose("umqtt", "close")
    /\ rpc' = "reconnect"
    /\ UNCHANGED <<mpc, clientVars, conn>>

(***************************************************************************)
(* umqtt_uplink_timer_callback(): keep-alive, then reconnection.           *)
(***************************************************************************)
TimerRuns == timer_on /\ cpc["timer"] = "off"

(* PINGREQ, on a connection the peer may have closed: the timer thread     *)
(* then never leaves umqtt_trans_send(), and no thread below it runs.      *)
SendsPing ==
    /\ IF HalfClosed
       THEN /\ cpc' = [cpc EXCEPT !["timer"] = "ping"]
            /\ UNCHANGED uplink
       ELSE uplink' = "waiting" /\ UNCHANGED cpc
    /\ UNCHANGED <<mpc, csock, rpc, timer_on, connect_state, sock,
                   reconnect_count, conn>>

(* A heartbeat is due.                                                     *)
TimerPings ==
    /\ TimerRuns /\ connect_state = "LINKED"
    /\ SendsPing
    /\ UNCHANGED keepalive_count

\* Mutant: the number of heartbeats without an answer is not compared.
TimerPingsAgainMutant ==
    /\ ~Reliable
    /\ TimerRuns /\ connect_state = "LINKED" /\ uplink = "waiting"
    /\ keepalive_count' = keepalive_count + 1
    /\ SendsPing

(* No answer for send_timeout: ping again ...                              *)
TimerPingsAgain ==
    /\ ~Reliable
    /\ TimerRuns /\ connect_state = "LINKED" /\ uplink = "waiting"
    /\ keepalive_count + 1 < KeepaliveMax
    /\ keepalive_count' = keepalive_count + 1
    /\ SendsPing

(* ... or set_connect_status(UNLINK), which waits for lock_client.         *)
TimerLosesPatience ==
    /\ ~Reliable
    /\ TimerRuns /\ connect_state = "LINKED" /\ uplink = "waiting"
    /\ keepalive_count + 1 >= KeepaliveMax
    /\ keepalive_count' = keepalive_count + 1
    /\ cpc' = [cpc EXCEPT !["timer"] = "unlink"]
    /\ UNCHANGED <<mpc, csock, rpc, timer_on, connect_state, sock,
                   reconnect_count, uplink, conn>>

(* The timer has the lock and stores UNLINK over whatever the state has    *)
(* become; umqtt_reconnect_callback() turns it into UNLINK_LINKING in the  *)
(* same run, and closes the socket.                                        *)
TimerUnlinks ==
    /\ cpc["timer"] = "unlink"
    /\ connect_state' = "UNLINK_LINKING"
    /\ BeginsClose("timer", "drop")
    /\ UNCHANGED <<mpc, rpc, timer_on, sock, reconnect_count, keepalive_count,
                   uplink, conn>>

TimerReconnects ==
    /\ TimerRuns /\ connect_state = "UNLINK_LINKING" /\ sock = NoSock
    /\ reconnect_count < ReconnectMax
    /\ keepalive_count' = 0
    /\ cpc' = [cpc EXCEPT !["timer"] = "try"]
    /\ UNCHANGED <<mpc, csock, rpc, timer_on, connect_state, sock,
                   reconnect_count, uplink, conn>>

(* The connection the timer made was not accepted within the interval.     *)
TimerDrops ==
    /\ TimerRuns /\ connect_state = "UNLINK_LINKING" /\ sock # NoSock
    /\ BeginsClose("timer", "drop")
    /\ UNCHANGED <<mpc, rpc, timer_on, clientVars, conn>>

(* No attempt is left: set_connect_status(DISCONNECT) waits for the lock.  *)
TimerUsedUp ==
    /\ TimerRuns /\ connect_state = "UNLINK_LINKING" /\ sock = NoSock
    /\ reconnect_count >= ReconnectMax
    /\ cpc' = [cpc EXCEPT !["timer"] = "delete"]
    /\ UNCHANGED <<mpc, csock, rpc, timer_on, clientVars, conn>>

\* Mutant: set_connect_status() is left out when the thread is deleted.
TimerGivesUpMutant ==
    /\ cpc["timer"] = "delete"
    /\ rpc' = IF rpc = "quit" THEN rpc ELSE "deleted"
    /\ timer_on' = FALSE
    /\ cpc' = [cpc EXCEPT !["umqtt"] = "off", !["timer"] = "off"]
    /\ csock' = [csock EXCEPT !["umqtt"] = NoSock]
    /\ UNCHANGED <<mpc, clientVars, conn>>

(* The state is DISCONNECT, the thread is deleted wherever it is, and the  *)
(* timer stopped.                                                          *)
TimerGivesUp ==
    /\ cpc["timer"] = "delete"
    /\ connect_state' = "DISCONNECT"
    /\ rpc' = IF rpc = "quit" THEN rpc ELSE "deleted"
    /\ timer_on' = FALSE
    /\ cpc' = [cpc EXCEPT !["umqtt"] = "off", !["timer"] = "off"]
    /\ csock' = [csock EXCEPT !["umqtt"] = NoSock]
    /\ UNCHANGED <<mpc, sock, reconnect_count, keepalive_count, uplink, conn>>

TimerStep ==
    \/ TimerPings \/ TimerPingsAgain \/ TimerLosesPatience \/ TimerUnlinks
    \/ TimerReconnects \/ TimerDrops \/ TimerUsedUp \/ TimerGivesUp

(* The broker, or something on the way to it, closes a connection.         *)
PeerCloses ==
    /\ \E s \in Socks :
         /\ conn[s] = "session" \/ (~Reliable /\ conn[s] \in {"open", "asked"})
         /\ conn' = [conn EXCEPT ![s] = "fin"]
    /\ UNCHANGED <<threadVars, clientVars>>

(***************************************************************************)
(* The kernel runs the timer thread (priority 4) before the umqtt thread   *)
(* (8) and that one before main (10): a thread that spins starves those    *)
(* below it.                                                               *)
(*                                                                         *)
(* lock_client is only ever held around one assignment.  The timer waits   *)
(* for it when it has preempted a thread inside such a section; the holder *)
(* then runs to the end of the section and no further.                     *)
(***************************************************************************)
Spins(t) == cpc[t] \in {"spin", "ping"}

Starved(t) ==
    \/ t # "timer" /\ Spins("timer")
    \/ t = "main" /\ Spins("umqtt")

TimerWaits == cpc["timer"] \in {"unlink", "delete"}

Runs(t) == ~Starved(t) /\ (t # "timer" => ~TimerWaits)

(* Steps that end with an assignment under lock_client.                    *)
Storing(t) == GivesUp(t) \/ Reading(t)

ThreadStoring == ThreadReads \/ ThreadReadsConnack

Next ==
    \/ \E t \in Threads : Runs(t) /\ Connecting(t)
    \/ \E t \in Threads : ~Starved(t) /\ Storing(t)
    \/ Runs("main") /\ (StartClient \/ StartTimer)
    \/ Runs("umqtt") /\ (ThreadEnters \/ ThreadFin)
    \/ ~Starved("umqtt") /\ ThreadStoring
    \/ TimerStep
    \/ PeerCloses

Spec == Init /\ [][Next]_vars

(* What the scheduler guarantees: a thread that does not wait goes on, a   *)
(* delay ends, connect() and send() return, and so does recv() once the    *)
(* stream has ended.  The broker need not answer.                          *)
Fairness ==
    /\ \A t \in Threads : WF_vars(Runs(t) /\ (Connecting(t) \/ GivesUp(t)))
    /\ WF_vars(Runs("main") /\ (StartClient \/ StartTimer))
    /\ WF_vars(Runs("umqtt") /\ ThreadEnters)
    /\ WF_vars(Runs("umqtt") /\ ThreadFin)
    /\ WF_vars(TimerStep)

FairSpec == Spec /\ Fairness

(* Besides, the broker answers a CONNECT or closes the connection.         *)
BrokerAnswers ==
    /\ \A t \in Threads : WF_vars(~Starved(t) /\ Reading(t))
    /\ WF_vars(~Starved("umqtt") /\ ThreadReadsConnack)

AnsweredSpec == FairSpec /\ BrokerAnswers

(***************************************************************************)
(* Properties                                                              *)
(***************************************************************************)

(* The fields of the client and the positions of the threads have their    *)
(* types, and the counter of umqtt_connect() never passes its limit,       *)
(* whichever threads count.                                                *)
TypeOK ==
    /\ mpc \in {"idle", "start", "arm", "up"}
    /\ cpc \in [Threads -> ConnectPc]
    /\ csock \in [Threads -> Socks \cup {NoSock}]
    /\ rpc \in {"none", "enter", "recv", "reconnect", "quit", "deleted"}
    /\ timer_on \in BOOLEAN
    /\ connect_state \in umqtt_client_state
    /\ sock \in Socks \cup {NoSock}
    /\ reconnect_count \in 0 .. ReconnectMax
    /\ keepalive_count \in Nat
    /\ uplink \in {"fresh", "waiting"}
    /\ conn \in [Socks -> ConnState]

(* Only the reconnection of the timer sets keepalive_count back: when the  *)
(* umqtt thread, reconnecting since before umqtt_start() armed the timer,  *)
(* or reading the answer to an earlier attempt, finds a session after the  *)
(* timer gave one up, the next loss is counted on top of the maximum.      *)
(* That happens once: the next reconnection is the timer's, which counts   *)
(* from zero, or the umqtt thread's, which stops the timer for good.       *)
KeepaliveBounded == keepalive_count <= KeepaliveMax + 1

(* A session the application can use.                                      *)
Online ==
    connect_state = "LINKED" /\ sock # NoSock /\ conn[sock] = "session"

NoReader == rpc \in {"quit", "deleted"}

(* Once the umqtt thread has quit, or the timer has deleted it, nobody     *)
(* reads from the broker any more: the client then never says LINKED, in   *)
(* whichever order the two threads stored the state.                       *)
NoReaderNotLinked == NoReader => connect_state # "LINKED"

(* A thread turns for ever in umqtt_trans_send().                          *)
Spinning == \E t \in Threads : Spins(t)

(* The state need not be DISCONNECT at once: the timer may have waited to  *)
(* store UNLINK over it.  It becomes DISCONNECT when the attempts of the   *)
(* timer, which nobody reads the answers to, are used up.                  *)
NoReaderSettles == NoReader ~> (connect_state = "DISCONNECT" \/ Spinning)

(* A thread waits, without a timeout, for the answer to a CONNECT that was *)
(* never sent.                                                             *)
Unheard ==
    \E t \in Threads :
        cpc[t] = "read" /\ csock[t] \in {s \in Socks : conn[s] = "open"}

(* umqtt_start() returns, with a session or an error, when the broker      *)
(* answers or closes: the attempts it makes are bounded.  The exceptions   *)
(* are a connection closed just before a send, and a send that fails.      *)
StartReturns ==
    mpc = "start" ~> (mpc \in {"idle", "up"} \/ Spinning \/ Unheard)

(* Nor does the umqtt thread reconnect for ever, although the timer and    *)
(* the thread count their attempts in one counter, which either sets back, *)
(* and close each other's sockets: it reads again or quits, but for the    *)
(* same two exceptions.                                                    *)
ReconnectEnds ==
    rpc = "reconnect" ~> (rpc # "reconnect" \/ Spinning \/ Unheard)

(* README.md: the package "guarantees the mqtt online state": while the    *)
(* network only ever closes a session, every attempt to connect succeeds   *)
(* and no thread spins, a started client is online again and again.        *)
StaysOnline == mpc = "up" ~> (Online \/ Spinning)
=============================================================================
