------------------------- MODULE UmqttSessionProofs -------------------------
(***************************************************************************)
(* For any number of sockets and any limits: the types of UmqttSession,    *)
(* that a client without a reader never says LINKED, and how far           *)
(* heartbeats without an answer are counted.                               *)
(***************************************************************************)
EXTENDS UmqttSession, TLAPS

(* Where the three callers of umqtt_connect() can be: the main thread only *)
(* inside mqtt_start_client(), before the umqtt thread exists; the umqtt   *)
(* thread only while it reconnects; the timer, which runs once a start has *)
(* succeeded, never waits for CONNACK.                                     *)
Callers ==
    /\ cpc \in [Threads -> ConnectPc]
    /\ cpc["main"] # "off" => mpc = "start"
    /\ mpc \in {"idle", "start"} => rpc = "none"
    /\ cpc["umqtt"] # "off" => rpc = "reconnect"
    /\ cpc["timer"] # "read"
    /\ cpc["timer"] # "off" => mpc = "up"
    /\ timer_on => mpc = "up"

IInv == Callers /\ NoReaderNotLinked

(* Initially nobody is inside umqtt_connect().                             *)
LEMMA InitIInv == Init => IInv
  BY DEF Init, IInv, Callers, NoReaderNotLinked, NoReader, Threads, ConnectPc

(* What a return from umqtt_connect() does to the positions, for the       *)
(* caller whose position it is.                                            *)
LEMMA ReturnedCallers ==
  ASSUME IInv, NEW t \in Threads, NEW result, cpc[t] # "off",
         Returned(t, result)
  PROVE  Callers' /\ (rpc' \in {"quit", "deleted"} =>
                        \/ rpc' = rpc
                        \/ result = "reconnect_failed")
  BY DEF IInv, Callers, Returned, Threads, ConnectPc

(* A step inside umqtt_connect() that leaves the state alone and its       *)
(* caller inside.                                                          *)
LEMMA StaysInside ==
  ASSUME IInv, NEW t \in Threads, cpc[t] # "off", NEW p \in ConnectPc,
         cpc' = [cpc EXCEPT ![t] = p], t = "timer" => p # "read",
         UNCHANGED <<mpc, rpc, timer_on, connect_state>>
  PROVE  IInv'
  BY DEF IInv, Callers, Threads, NoReaderNotLinked, NoReader

(* Past the send, whether CONNECT was sent or not.                         *)
LEMMA AwaitsKeeps ==
  ASSUME IInv, NEW t \in Threads, cpc[t] # "off", AwaitsConnack(t)
  PROVE  IInv'
<1>1. CASE t = "timer"
  <2>1. Returned(t, "ok") /\ UNCHANGED connect_state
    BY <1>1 DEF AwaitsConnack
  <2> QED BY <2>1, ReturnedCallers DEF IInv, NoReaderNotLinked, NoReader
<1>2. CASE t # "timer"
  <2>1. /\ cpc' = [cpc EXCEPT ![t] = "read"]
        /\ UNCHANGED <<mpc, rpc, timer_on, connect_state>>
    BY <1>2 DEF AwaitsConnack
  <2> QED BY <1>2, <2>1, StaysInside DEF ConnectPc
<1> QED BY <1>1, <1>2

(* Only one step of umqtt_connect() turns the state into LINKED, and its   *)
(* caller is a thread that still reads.                                    *)
LEMMA ConnectStep ==
  ASSUME IInv, NEW t \in Threads, Connecting(t) \/ Storing(t)
  PROVE  IInv'
<1>1. CASE GivesUp(t) \/ ReadsGarbled(t)
  <2>1. connect_state' = "DISCONNECT" /\ (\E r : Returned(t, r)) /\ cpc[t] # "off"
    BY <1>1 DEF GivesUp, ReadsGarbled, Fails
  <2> QED BY <2>1, ReturnedCallers DEF IInv, NoReaderNotLinked
<1>2. CASE Tries(t) \/ Dialled(t) \/ SendSpins(t)
  <2>1. /\ cpc[t] # "off"
        /\ \E p \in {"dial", "send", "spin"} : cpc' = [cpc EXCEPT ![t] = p]
        /\ UNCHANGED <<mpc, rpc, timer_on, connect_state>>
    BY <1>2 DEF Tries, Dialled, SendSpins, clientVars
  <2> QED BY <2>1, StaysInside DEF ConnectPc
<1>3. CASE TriesInVain(t) \/ Shuts(t)
  BY <1>3 DEF TriesInVain, Shuts, threadVars, clientVars, IInv, Callers,
              NoReaderNotLinked, NoReader
<1>4. CASE SendsConnect(t) \/ SendFails(t) \/ SpinEnds(t)
  <2>1. cpc[t] # "off" /\ AwaitsConnack(t)
    BY <1>4 DEF SendsConnect, SendFails, SpinEnds
  <2> QED BY <2>1, AwaitsKeeps
<1>5. CASE DialFails(t) \/ ReadsFin(t) \/ Closes(t)
  <2>1. /\ cpc[t] # "off"
        /\ \E p \in {"close", "try", "off"} : cpc' = [cpc EXCEPT ![t] = p]
        /\ UNCHANGED <<mpc, rpc, timer_on, connect_state>>
    BY <1>5 DEF DialFails, ReadsFin, Closes, BeginsClose, AfterClose, clientVars
  <2> QED BY <2>1, StaysInside DEF ConnectPc
<1>6. CASE ReadsConnack(t)
  <2>1. Returned(t, "ok") /\ cpc[t] = "read"
    BY <1>6 DEF ReadsConnack
  <2>2. rpc \notin {"quit", "deleted"}
    BY <2>1 DEF IInv, Callers, Threads
  <2> QED BY <2>1, <2>2, ReturnedCallers DEF IInv, NoReaderNotLinked, NoReader
<1>7. CASE ReadsOther(t)
  <2>1. cpc[t] # "off" /\ \/ Returned(t, "ok") /\ UNCHANGED connect_state
                          \/ Returned(t, "timeout") /\ connect_state' = "DISCONNECT"
    BY <1>7 DEF ReadsOther, Fails
  <2> QED BY <2>1, ReturnedCallers DEF IInv, NoReaderNotLinked, NoReader
<1> QED BY <1>1, <1>2, <1>3, <1>4, <1>5, <1>6, <1>7 DEF Connecting, Storing, Reading

(* The steps of the main thread and of the umqtt thread outside            *)
(* umqtt_connect().                                                        *)
LEMMA ThreadStep ==
  ASSUME IInv,
         StartClient \/ StartTimer \/ ThreadEnters \/ ThreadStoring \/ ThreadFin
  PROVE  IInv'
<1> USE DEF IInv, Callers, NoReaderNotLinked, NoReader, Threads, ConnectPc
<1>1. CASE StartClient         BY <1>1 DEF StartClient
<1>2. CASE StartTimer          BY <1>2 DEF StartTimer, clientVars
<1>3. CASE ThreadEnters        BY <1>3 DEF ThreadEnters, clientVars
<1>4. CASE ThreadReads         BY <1>4 DEF ThreadReads
<1>5. CASE ThreadReadsConnack  BY <1>5 DEF ThreadReadsConnack
<1>6. CASE ThreadFin
  BY <1>6 DEF ThreadFin, BeginsClose, AfterClose, clientVars
<1> QED BY <1>1, <1>2, <1>3, <1>4, <1>5, <1>6 DEF ThreadStoring

(* The timer never makes the state LINKED, and leaves LINKED when it       *)
(* deletes the umqtt thread.                                               *)
LEMMA TimerKeeps == ASSUME IInv, TimerStep PROVE IInv'
<1> USE DEF IInv, Callers, NoReaderNotLinked, NoReader, Threads, ConnectPc
<1>1. CASE TimerPings          BY <1>1 DEF TimerPings, SendsPing, TimerRuns
<1>2. CASE TimerPingsAgain     BY <1>2 DEF TimerPingsAgain, SendsPing, TimerRuns
<1>3. CASE TimerLosesPatience  BY <1>3 DEF TimerLosesPatience, TimerRuns
<1>4. CASE TimerUnlinks
  BY <1>4 DEF TimerUnlinks, BeginsClose, AfterClose
<1>5. CASE TimerReconnects     BY <1>5 DEF TimerReconnects, TimerRuns
<1>6. CASE TimerDrops
  BY <1>6 DEF TimerDrops, TimerRuns, BeginsClose, AfterClose, clientVars
<1>7. CASE TimerUsedUp         BY <1>7 DEF TimerUsedUp, TimerRuns, clientVars
<1>8. CASE TimerGivesUp        BY <1>8 DEF TimerGivesUp
<1> QED BY <1>1, <1>2, <1>3, <1>4, <1>5, <1>6, <1>7, <1>8 DEF TimerStep

(* The fields keep their types whichever of the three threads steps, for   *)
(* every set of sockets, and reconnect_count never passes ReconnectMax.    *)
THEOREM SessionTypeOK == Spec => []TypeOK
<1> USE SessionAssumption
<1>1. Init => TypeOK
  <2> SUFFICES ASSUME Init PROVE TypeOK
    OBVIOUS
  <2>1. timer_on \in BOOLEAN
    BY DEF Init
  <2>2. reconnect_count \in 0 .. ReconnectMax /\ keepalive_count \in Nat
    BY DEF Init
  <2> QED BY <2>1, <2>2 DEF Init, TypeOK, umqtt_client_state, ConnState, ConnectPc
<1>2. TypeOK /\ [Next]_vars => TypeOK'
  <2> SUFFICES ASSUME TypeOK, [Next]_vars PROVE TypeOK'
    OBVIOUS
  <2> USE DEF TypeOK, umqtt_client_state, ConnState, ConnectPc
  <2>1. ASSUME NEW t \in Threads, NEW r, Returned(t, r)
        PROVE  /\ mpc' \in {"idle", "start", "arm", "up"}
               /\ cpc' \in [Threads -> ConnectPc]
               /\ csock' \in [Threads -> Socks \cup {NoSock}]
               /\ rpc' \in {"none", "enter", "recv", "reconnect", "quit", "deleted"}
               /\ timer_on' \in BOOLEAN
    BY <2>1 DEF Returned
  <2>2. ASSUME NEW t \in Threads, NEW p \in {"close", "drop"}, BeginsClose(t, p)
        PROVE  /\ csock' \in [Threads -> Socks \cup {NoSock}]
               /\ cpc' \in [Threads -> ConnectPc]
    BY <2>2 DEF BeginsClose, AfterClose
  <2>3. ASSUME NEW t \in Threads, Connecting(t) PROVE TypeOK'
    <3>1. CASE Tries(t)
      BY <3>1 DEF Tries
    <3>2. CASE TriesInVain(t)
      BY <3>2 DEF TriesInVain, threadVars
    <3>3. CASE Dialled(t) \/ SendSpins(t)
      BY <3>3 DEF Dialled, SendSpins, HalfClosed, clientVars
    <3>4. CASE DialFails(t) \/ ReadsFin(t)
      <4>1. BeginsClose(t, "close") /\ UNCHANGED <<mpc, rpc, timer_on, clientVars, conn>>
        BY <3>4 DEF DialFails, ReadsFin
      <4> QED BY <2>2, <4>1 DEF clientVars
    <3>5. CASE SendsConnect(t) \/ SendFails(t) \/ SpinEnds(t)
      <4>1. AwaitsConnack(t) /\ conn' \in [Socks -> ConnState]
        BY <3>5 DEF SendsConnect, SendFails, SpinEnds, CanSend
      <4>2. CASE t = "timer"
        BY <2>1, <4>1, <4>2 DEF AwaitsConnack
      <4>3. CASE t # "timer"
        BY <4>1, <4>3 DEF AwaitsConnack
      <4> QED BY <4>2, <4>3
    <3>6. CASE Shuts(t)
      BY <3>6 DEF Shuts, threadVars, clientVars
    <3>7. CASE Closes(t)
      BY <3>7 DEF Closes, AfterClose
    <3> QED BY <2>3, <3>1, <3>2, <3>3, <3>4, <3>5, <3>6, <3>7 DEF Connecting
  <2>4. ASSUME NEW t \in Threads, Storing(t) PROVE TypeOK'
    <3>1. CASE ReadsConnack(t) BY <3>1, <2>1 DEF ReadsConnack, Accepted
    <3>2. CASE ReadsGarbled(t) BY <3>2, <2>1 DEF ReadsGarbled, Fails
    <3>3. CASE ReadsOther(t)   BY <3>3, <2>1 DEF ReadsOther, Fails
    <3>4. CASE GivesUp(t)      BY <3>4, <2>1 DEF GivesUp, Fails
    <3> QED BY <2>4, <3>1, <3>2, <3>3, <3>4 DEF Storing, Reading
  <2>5. ASSUME StartClient \/ StartTimer PROVE TypeOK'
    <3>1. CASE StartClient
      <4>1. reconnect_count' \in 0 .. ReconnectMax /\ keepalive_count' \in Nat
        BY <3>1 DEF StartClient
      <4>2. cpc' \in [Threads -> ConnectPc]
        BY <3>1 DEF StartClient
      <4> QED BY <3>1, <4>1, <4>2 DEF StartClient
    <3>2. CASE StartTimer
      <4>1. timer_on' \in BOOLEAN BY <3>2 DEF StartTimer
      <4> QED BY <3>2, <4>1 DEF StartTimer, clientVars
    <3> QED BY <2>5, <3>1, <3>2
  <2>6. ASSUME ThreadEnters \/ ThreadStoring \/ ThreadFin
        PROVE  TypeOK'
    <3>1. CASE ThreadEnters       BY <3>1 DEF ThreadEnters, clientVars
    <3>2. CASE ThreadReads        BY <3>2 DEF ThreadReads
    <3>3. CASE ThreadReadsConnack BY <3>3 DEF ThreadReadsConnack, Accepted
    <3>4. CASE ThreadFin
      <4>1. /\ BeginsClose("umqtt", "close") /\ timer_on' = FALSE
            /\ rpc' = "reconnect" /\ UNCHANGED <<mpc, clientVars, conn>>
        BY <3>4 DEF ThreadFin
      <4> QED BY <2>2, <4>1 DEF clientVars, Threads
    <3> QED BY <2>6, <3>1, <3>2, <3>3, <3>4 DEF ThreadStoring
  <2>7. ASSUME TimerStep PROVE TypeOK'
    <3>1. CASE TimerPings         BY <3>1 DEF TimerPings, SendsPing
    <3>2. CASE TimerPingsAgain    BY <3>2 DEF TimerPingsAgain, SendsPing
    <3>3. CASE TimerLosesPatience
      <4>1. cpc' \in [Threads -> ConnectPc] BY <3>3 DEF TimerLosesPatience
      <4>2. keepalive_count' \in Nat        BY <3>3 DEF TimerLosesPatience
      <4> QED BY <3>3, <4>1, <4>2 DEF TimerLosesPatience
    <3>4. CASE TimerUnlinks       BY <3>4, <2>2 DEF TimerUnlinks, Threads
    <3>5. CASE TimerReconnects    BY <3>5 DEF TimerReconnects
    <3>6. CASE TimerDrops         BY <3>6, <2>2 DEF TimerDrops, clientVars, Threads
    <3>7. CASE TimerUsedUp        BY <3>7 DEF TimerUsedUp, clientVars
    <3>8. CASE TimerGivesUp       BY <3>8 DEF TimerGivesUp
    <3> QED BY <2>7, <3>1, <3>2, <3>3, <3>4, <3>5, <3>6, <3>7, <3>8 DEF TimerStep
  <2>8. CASE PeerCloses
    BY <2>8 DEF PeerCloses, threadVars, clientVars
  <2>9. CASE UNCHANGED vars
    BY <2>9 DEF vars, threadVars, clientVars
  <2> QED BY <2>3, <2>4, <2>5, <2>6, <2>7, <2>8, <2>9 DEF Next
<1> QED BY <1>1, <1>2, PTL DEF Spec

(* No step of the three threads or of the network breaks IInv.             *)
THEOREM SessionIInv == Spec => []IInv
<1>1. IInv /\ [Next]_vars => IInv'
  <2> SUFFICES ASSUME IInv, [Next]_vars PROVE IInv'
    OBVIOUS
  <2>1. CASE UNCHANGED vars
    BY <2>1 DEF vars, threadVars, clientVars, IInv, Callers,
                NoReaderNotLinked, NoReader
  <2>2. CASE PeerCloses
    BY <2>2 DEF PeerCloses, threadVars, clientVars, IInv, Callers,
                NoReaderNotLinked, NoReader
  <2> QED BY <2>1, <2>2, ConnectStep, ThreadStep, TimerKeeps DEF Next
<1> QED BY InitIInv, <1>1, PTL DEF Spec

(* Whatever the three threads and the network do in between, and whichever *)
(* of them stores the state last, a client whose umqtt thread has quit or  *)
(* been deleted never says LINKED: for every set of sockets and all limits *)
(* of the reconnection and the keep-alive.                                 *)
THEOREM NoReaderIsNotLinked == Spec => []NoReaderNotLinked
<1>1. IInv => NoReaderNotLinked
  BY DEF IInv
<1> QED BY <1>1, SessionIInv, PTL

(***************************************************************************)
(* Heartbeats without an answer.  After the timer has given a session up   *)
(* only the umqtt thread can make the state LINKED again behind its back:  *)
(* by ending the reconnection it began before the timer was started, or by *)
(* reading the answer to a CONNECT on client->sock or on the socket it     *)
(* already reads.                                                          *)
(***************************************************************************)
AskedOn(s) == s # NoSock /\ conn[s] = "asked"

MayLink ==
    \/ rpc = "reconnect"
    \/ AskedOn(sock)
    \/ rpc = "recv" /\ AskedOn(csock["umqtt"])

(* The umqtt thread waits for the broker.                                  *)
Reads == rpc = "recv" \/ cpc["umqtt"] = "read"

(* The timer runs, or umqtt_start() is about to start it.                  *)
Armed == timer_on \/ mpc = "arm"

(* The timer is inside umqtt_connect().                                    *)
Busy == cpc["timer"] \in {"try", "dial", "send", "spin", "close"}

Linked == connect_state = "LINKED"

(* While the timer reconnects, an unanswered CONNECT on client->sock is    *)
(* one of the umqtt thread, so once the state is LINKED there is none; and *)
(* as long as the state is LINKED no connection is made beside the one     *)
(* whose answer the umqtt thread awaits.                                   *)
SocketInv ==
    /\ Armed /\ Busy /\ AskedOn(sock) =>
         rpc = "enter" \/ (Reads /\ csock["umqtt"] = sock)
    /\ Armed /\ Busy /\ Linked => ~MayLink
    /\ Armed /\ Linked /\ Reads /\ AskedOn(csock["umqtt"]) =>
         sock \in {NoSock, csock["umqtt"]}

SInv == TypeOK /\ IInv /\ SocketInv

(* What the timer does in umqtt_connect().                                 *)
LEMMA TimerConnectSockets ==
  ASSUME SInv, Connecting("timer") \/ Storing("timer") PROVE SocketInv'
<1> USE DEF SInv, IInv, Callers, TypeOK, SocketInv, AskedOn, MayLink, Reads, Armed,
            Busy, Linked, Threads
<1>1. CASE GivesUp("timer")       BY <1>1 DEF GivesUp, Fails, Returned
<1>2. CASE Tries("timer")         BY <1>2 DEF Tries
<1>3. CASE TriesInVain("timer")   BY <1>3 DEF TriesInVain, threadVars
<1>4. CASE Dialled("timer")       BY <1>4 DEF Dialled, clientVars
<1>5. CASE DialFails("timer")     BY <1>5 DEF DialFails, BeginsClose, AfterClose, clientVars
<1>6. CASE SendsConnect("timer")
  BY <1>6 DEF SendsConnect, CanSend, AwaitsConnack, Returned
<1>7. CASE SendFails("timer") \/ SpinEnds("timer")
  BY <1>7 DEF SendFails, SpinEnds, AwaitsConnack, Returned
<1>8. CASE SendSpins("timer")     BY <1>8 DEF SendSpins, clientVars
<1>9. CASE ReadsFin("timer") \/ Reading("timer")
  BY <1>9 DEF ReadsFin, Reading, ReadsConnack, ReadsGarbled, ReadsOther
<1>10. CASE Shuts("timer")        BY <1>10 DEF Shuts, EndOfStream, threadVars, clientVars
<1>11. CASE Closes("timer")       BY <1>11 DEF Closes, AfterClose
<1> QED BY <1>1, <1>2, <1>3, <1>4, <1>5, <1>6, <1>7, <1>8, <1>9, <1>10, <1>11
        DEF Connecting, Storing

(* What the umqtt thread does in umqtt_connect().                          *)
LEMMA ThreadConnectSockets ==
  ASSUME SInv, Connecting("umqtt") \/ Storing("umqtt") PROVE SocketInv'
<1> USE DEF SInv, IInv, Callers, TypeOK, SocketInv, AskedOn, MayLink, Reads, Armed,
            Busy, Linked, Threads
<1>1. CASE GivesUp("umqtt")       BY <1>1 DEF GivesUp, Fails, Returned
<1>2. CASE Tries("umqtt")         BY <1>2 DEF Tries
<1>3. CASE TriesInVain("umqtt")   BY <1>3 DEF TriesInVain, threadVars
<1>4. CASE Dialled("umqtt")       BY <1>4 DEF Dialled, clientVars
<1>5. CASE DialFails("umqtt")     BY <1>5 DEF DialFails, BeginsClose, AfterClose, clientVars
<1>6. CASE SendsConnect("umqtt")
  BY <1>6 DEF SendsConnect, CanSend, AwaitsConnack
<1>7. CASE SendFails("umqtt") \/ SpinEnds("umqtt")
  BY <1>7 DEF SendFails, SpinEnds, AwaitsConnack
<1>8. CASE SendSpins("umqtt")     BY <1>8 DEF SendSpins, clientVars
<1>9. CASE ReadsFin("umqtt")
  BY <1>9 DEF ReadsFin, BeginsClose, AfterClose, EndOfStream, clientVars
<1>10. CASE Shuts("umqtt")        BY <1>10 DEF Shuts, EndOfStream, threadVars, clientVars
<1>11. CASE Closes("umqtt")       BY <1>11 DEF Closes, AfterClose
<1>12. CASE ReadsConnack("umqtt") BY <1>12 DEF ReadsConnack, Accepted, Returned
<1>13. CASE ReadsGarbled("umqtt") BY <1>13 DEF ReadsGarbled, Fails, Returned
<1>14. CASE ReadsOther("umqtt")   BY <1>14 DEF ReadsOther, Fails, Returned
<1> QED BY <1>1, <1>2, <1>3, <1>4, <1>5, <1>6, <1>7, <1>8, <1>9, <1>10, <1>11, <1>12,
           <1>13, <1>14 DEF Connecting, Storing, Reading

(* What the main thread does in umqtt_connect(): the timer and the umqtt   *)
(* thread do not run yet.                                                  *)
LEMMA MainConnectSockets ==
  ASSUME SInv, Connecting("main") \/ Storing("main") PROVE SocketInv'
<1>1. cpc["main"] # "off"
  BY DEF Connecting, Storing, Reading, GivesUp, Tries, TriesInVain, Dialled, DialFails,
         SendsConnect, SendFails, SendSpins, SpinEnds, ReadsFin, ReadsConnack,
         ReadsGarbled, ReadsOther, Shuts, Closes
<1>2. /\ mpc = "start" /\ ~timer_on /\ rpc = "none"
      /\ cpc["timer"] = "off" /\ cpc["umqtt"] = "off"
  BY <1>1 DEF SInv, IInv, Callers, TypeOK, Threads
<1>3. cpc'["timer"] = "off" /\ cpc'["umqtt"] = "off"
  BY <1>2 DEF SInv, TypeOK, Threads, Connecting, Storing, Reading, GivesUp, Tries,
         TriesInVain, Dialled, DialFails, SendsConnect, SendFails, SendSpins, SpinEnds,
         ReadsFin, ReadsConnack, ReadsGarbled, ReadsOther, Shuts, Closes, BeginsClose,
         AwaitsConnack, Fails, Returned, threadVars
<1>4. rpc' \in {"none", "enter"}
  BY <1>2 DEF Connecting, Storing, Reading, GivesUp, Tries,
         TriesInVain, Dialled, DialFails, SendsConnect, SendFails, SendSpins, SpinEnds,
         ReadsFin, ReadsConnack, ReadsGarbled, ReadsOther, Shuts, Closes, BeginsClose,
         AwaitsConnack, Fails, Returned, threadVars
<1> QED BY <1>3, <1>4 DEF SocketInv, Busy, Reads

(* What the main and the umqtt thread do outside umqtt_connect().          *)
LEMMA ThreadSockets ==
  ASSUME SInv,
         StartClient \/ StartTimer \/ ThreadEnters \/ ThreadStoring \/ ThreadFin
  PROVE  SocketInv'
<1> USE DEF SInv, IInv, Callers, TypeOK, SocketInv, AskedOn, MayLink, Reads, Armed,
            Busy, Linked, Threads
<1>1. CASE StartClient         BY <1>1 DEF StartClient
<1>2. CASE StartTimer          BY <1>2 DEF StartTimer, clientVars
<1>3. CASE ThreadEnters        BY <1>3 DEF ThreadEnters, clientVars
<1>4. CASE ThreadReads         BY <1>4 DEF ThreadReads
<1>5. CASE ThreadReadsConnack  BY <1>5 DEF ThreadReadsConnack, Accepted
<1>6. CASE ThreadFin
  BY <1>6 DEF ThreadFin, BeginsClose, AfterClose, clientVars
<1> QED BY <1>1, <1>2, <1>3, <1>4, <1>5, <1>6 DEF ThreadStoring

(* What the timer does outside umqtt_connect().                            *)
LEMMA TimerSockets == ASSUME SInv, TimerStep PROVE SocketInv'
<1> USE DEF SInv, IInv, Callers, TypeOK, SocketInv, AskedOn, MayLink, Reads, Armed,
            Busy, Linked, Threads
<1>1. CASE TimerPings          BY <1>1 DEF TimerPings, SendsPing, TimerRuns
<1>2. CASE TimerPingsAgain     BY <1>2 DEF TimerPingsAgain, SendsPing, TimerRuns
<1>3. CASE TimerLosesPatience  BY <1>3 DEF TimerLosesPatience, TimerRuns
<1>4. CASE TimerUnlinks        BY <1>4 DEF TimerUnlinks, BeginsClose, AfterClose
<1>5. CASE TimerReconnects     BY <1>5 DEF TimerReconnects, TimerRuns
<1>6. CASE TimerDrops
  BY <1>6 DEF TimerDrops, TimerRuns, BeginsClose, AfterClose, clientVars
<1>7. CASE TimerUsedUp         BY <1>7 DEF TimerUsedUp, TimerRuns, clientVars
<1>8. CASE TimerGivesUp        BY <1>8 DEF TimerGivesUp
<1> QED BY <1>1, <1>2, <1>3, <1>4, <1>5, <1>6, <1>7, <1>8 DEF TimerStep

(* No step of the three threads or of the network breaks SocketInv, so the *)
(* timer and the umqtt thread never both await an answer with the state    *)
(* LINKED.                                                                 *)
THEOREM SocketsApart == Spec => []SocketInv
<1>1. Init => SocketInv
  BY DEF Init, SocketInv, Busy, Reads, Threads
<1>2. TypeOK /\ IInv /\ SocketInv /\ [Next]_vars => SocketInv'
  <2> SUFFICES ASSUME SInv, [Next]_vars PROVE SocketInv'
    BY DEF SInv
  <2>1. CASE UNCHANGED vars
    BY <2>1 DEF SInv, SocketInv, Armed, Busy, Linked, Reads, MayLink, AskedOn, vars,
                threadVars, clientVars
  <2>2. CASE PeerCloses
    BY <2>2 DEF SInv, TypeOK, SocketInv, Armed, Busy, Linked, Reads, MayLink, AskedOn,
                PeerCloses, threadVars, clientVars, Threads
  <2>3. ASSUME NEW t \in Threads, Connecting(t) \/ Storing(t) PROVE SocketInv'
    BY <2>3, MainConnectSockets, ThreadConnectSockets, TimerConnectSockets DEF Threads
  <2> QED BY <2>1, <2>2, <2>3, ThreadSockets, TimerSockets DEF Next
<1> QED BY <1>1, <1>2, SessionTypeOK, SessionIInv, PTL DEF Spec

(* The timer goes on counting.                                             *)
Counts == Linked /\ cpc["timer"] # "unlink"

(* The timer counts from zero after every reconnection of its own.  Past   *)
(* the limit it has given up for the second time, and no way back to       *)
(* LINKED is left; at the limit it has given up once, or counts the        *)
(* session the umqtt thread found, and then there is no further one.       *)
KeepaliveInv ==
    /\ mpc # "up" => keepalive_count = 0
    /\ Busy => keepalive_count = 0
    /\ keepalive_count <= KeepaliveMax + 1
    /\ timer_on /\ keepalive_count >= KeepaliveMax /\ Reads /\ AskedOn(csock["umqtt"]) =>
         sock \in {NoSock, csock["umqtt"]}
    /\ timer_on /\ keepalive_count = KeepaliveMax + 1 => ~Counts /\ ~MayLink
    /\ timer_on /\ keepalive_count = KeepaliveMax => ~Counts \/ ~MayLink

KInv == SInv /\ KeepaliveInv

(* While the count is zero nothing else matters.                           *)
LEMMA LowCount ==
  ASSUME keepalive_count' = 0
  PROVE  KeepaliveInv'
  BY SessionAssumption DEF KeepaliveInv

(* A thread in umqtt_connect() does not count; only the umqtt thread is    *)
(* there while the count can be at its limit.                              *)
LEMMA ConnectNotCounted ==
  ASSUME KInv, NEW t \in Threads, Connecting(t) \/ Storing(t)
  PROVE  KeepaliveInv'
<1>1. UNCHANGED keepalive_count /\ cpc[t] # "off"
  BY DEF Connecting, Storing, Reading, GivesUp, Tries, TriesInVain, Dialled, DialFails,
         SendsConnect, SendFails, SendSpins, SpinEnds, ReadsFin, ReadsConnack,
         ReadsGarbled, ReadsOther, Shuts, Closes, AwaitsConnack, clientVars
<1>2. CASE t = "main"
  BY <1>1, <1>2, LowCount DEF KInv, KeepaliveInv, SInv, IInv, Callers
<1>3. CASE t = "timer" /\ cpc["timer"] # "drop"
  <2>1. Busy
    BY <1>3 DEF Busy, KInv, SInv, IInv, Callers, Connecting, Storing, Reading, GivesUp, Tries,
           TriesInVain, Dialled, DialFails, SendsConnect, SendFails, SendSpins, SpinEnds,
           ReadsFin, ReadsConnack, ReadsGarbled, ReadsOther, Shuts, Closes
  <2> QED BY <1>1, <2>1, LowCount DEF KInv, KeepaliveInv
<1>4. CASE t = "timer" /\ cpc["timer"] = "drop"
  <2>1. Shuts(t) \/ Closes(t)
    BY <1>4 DEF Connecting, Storing, Reading, GivesUp, Tries,
           TriesInVain, Dialled, DialFails, SendsConnect, SendFails, SendSpins, SpinEnds,
           ReadsFin, ReadsConnack, ReadsGarbled, ReadsOther
  <2> USE DEF KInv, KeepaliveInv, SInv, TypeOK, AskedOn, MayLink, Reads, Busy, Counts,
              Linked, Threads
  <2>2. CASE Shuts(t)
    BY <1>4, <2>2 DEF Shuts, EndOfStream, threadVars, clientVars
  <2>3. CASE Closes(t)
    BY <1>4, <2>3 DEF Closes, AfterClose
  <2> QED BY <2>1, <2>2, <2>3
<1>5. CASE t = "umqtt"
  <2> USE DEF KInv, KeepaliveInv, SInv, IInv, Callers, TypeOK, AskedOn, MayLink, Reads,
              Busy, Counts, Linked, Threads
  <2>1. rpc = "reconnect"
    BY <1>1, <1>5
  <2>2. CASE GivesUp(t)      BY <1>5, <2>2 DEF GivesUp, Fails, Returned
  <2>3. CASE Tries(t)        BY <1>5, <2>3 DEF Tries
  <2>4. CASE TriesInVain(t)  BY <1>5, <2>4 DEF TriesInVain, threadVars
  <2>5. CASE Dialled(t)      BY <1>5, <2>5 DEF Dialled, clientVars
  <2>6. CASE DialFails(t)    BY <1>5, <2>6 DEF DialFails, BeginsClose, AfterClose, clientVars
  <2>7. CASE SendsConnect(t) BY <1>5, <2>7 DEF SendsConnect, CanSend, AwaitsConnack
  <2>8. CASE SendFails(t) \/ SpinEnds(t)
    BY <1>5, <2>8 DEF SendFails, SpinEnds, AwaitsConnack
  <2>9. CASE SendSpins(t)    BY <1>5, <2>9 DEF SendSpins, clientVars
  <2>10. CASE ReadsFin(t)
    BY <1>5, <2>10 DEF ReadsFin, BeginsClose, AfterClose, EndOfStream, clientVars
  <2>11. CASE Shuts(t)       BY <1>5, <2>11 DEF Shuts, EndOfStream, threadVars, clientVars
  <2>12. CASE Closes(t)      BY <1>5, <2>12 DEF Closes, AfterClose
  <2>13. CASE ReadsConnack(t) BY <1>5, <2>13 DEF ReadsConnack, Accepted, Returned
  <2>14. CASE ReadsGarbled(t) BY <1>5, <2>14 DEF ReadsGarbled, Fails, Returned
  <2>15. CASE ReadsOther(t)   BY <1>5, <2>15 DEF ReadsOther, Fails, Returned
  <2> QED BY <2>2, <2>3, <2>4, <2>5, <2>6, <2>7, <2>8, <2>9, <2>10, <2>11, <2>12, <2>13,
             <2>14, <2>15 DEF Connecting, Storing, Reading
<1> QED BY <1>2, <1>3, <1>4, <1>5 DEF Threads

(* The main thread starts from zero; what the umqtt thread reads does not  *)
(* count, and the end of its stream stops the timer.                       *)
LEMMA ThreadNotCounted ==
  ASSUME KInv,
         StartClient \/ StartTimer \/ ThreadEnters \/ ThreadStoring \/ ThreadFin
  PROVE  KeepaliveInv'
<1>1. CASE StartClient
  BY <1>1, LowCount DEF StartClient
<1>2. CASE StartTimer
  BY <1>2, LowCount DEF StartTimer, clientVars, KInv, KeepaliveInv
<1> USE DEF KInv, KeepaliveInv, SInv, IInv, Callers, TypeOK, AskedOn, MayLink, Reads,
            Busy, Counts, Linked, Threads
<1>3. CASE ThreadEnters        BY <1>3 DEF ThreadEnters, clientVars
<1>4. CASE ThreadReads         BY <1>4 DEF ThreadReads
<1>5. CASE ThreadReadsConnack  BY <1>5 DEF ThreadReadsConnack, Accepted
<1>6. CASE ThreadFin
  BY <1>6 DEF ThreadFin, BeginsClose, AfterClose, clientVars
<1> QED BY <1>1, <1>2, <1>3, <1>4, <1>5, <1>6 DEF ThreadStoring

(* The callback of the timer counts, and starts from zero when it          *)
(* reconnects.                                                             *)
LEMMA TimerCounts == ASSUME KInv, TimerStep PROVE KeepaliveInv'
<1>0. keepalive_count \in Nat /\ KeepaliveMax \in Nat \ {0}
  BY SessionAssumption DEF KInv, SInv, TypeOK
<1>1. CASE TimerReconnects
  BY <1>1, LowCount DEF TimerReconnects
<1> USE DEF KInv, KeepaliveInv, SInv, IInv, Callers, TypeOK, AskedOn, MayLink, Reads,
            Busy, Counts, Linked, Threads
<1>2. CASE TimerPings          BY <1>2 DEF TimerPings, SendsPing, TimerRuns
<1>3. CASE TimerPingsAgain
  <2>1. /\ keepalive_count' < KeepaliveMax /\ mpc' = "up" /\ ~Busy'
    BY <1>0, <1>3 DEF TimerPingsAgain, SendsPing, TimerRuns
  <2>2. keepalive_count' \in Nat
    BY <1>0, <1>3 DEF TimerPingsAgain
  <2> QED BY <1>0, <2>1, <2>2
<1>4. CASE TimerLosesPatience
  BY <1>0, <1>4 DEF TimerLosesPatience, TimerRuns, SocketInv, Armed
<1>5. CASE TimerUnlinks        BY <1>5 DEF TimerUnlinks, BeginsClose, AfterClose
<1>6. CASE TimerDrops
  BY <1>6 DEF TimerDrops, TimerRuns, BeginsClose, AfterClose, clientVars
<1>7. CASE TimerUsedUp         BY <1>7 DEF TimerUsedUp, TimerRuns, clientVars
<1>8. CASE TimerGivesUp        BY <1>8 DEF TimerGivesUp
<1> QED BY <1>1, <1>2, <1>3, <1>4, <1>5, <1>6, <1>7, <1>8 DEF TimerStep

(* The count of heartbeats without an answer passes keepalive_max_num by   *)
(* one at most, for every set of sockets and all limits, although only one *)
(* of the two threads that reconnect sets it back, and however long the    *)
(* timer waits for lock_client or for a socket to close.                   *)
THEOREM HeartbeatsBounded == Spec => []KeepaliveBounded
<1>1. Init => KeepaliveInv
  BY SessionAssumption DEF Init, KeepaliveInv
<1>2. TypeOK /\ IInv /\ SocketInv /\ KeepaliveInv /\ [Next]_vars => KeepaliveInv'
  <2> SUFFICES ASSUME KInv, [Next]_vars PROVE KeepaliveInv'
    BY DEF KInv, SInv
  <2> USE DEF KInv, KeepaliveInv, SInv, TypeOK, AskedOn, MayLink, Reads, Busy, Counts,
              Linked, Threads
  <2>1. CASE UNCHANGED vars
    BY <2>1 DEF vars, threadVars, clientVars
  <2>2. CASE PeerCloses
    BY <2>2 DEF PeerCloses, threadVars, clientVars
  <2> QED BY <2>1, <2>2, ConnectNotCounted, ThreadNotCounted, TimerCounts DEF Next
<1>3. KeepaliveInv => KeepaliveBounded
  BY DEF KeepaliveInv, KeepaliveBounded
<1> QED BY <1>1, <1>2, <1>3, SessionTypeOK, SessionIInv, SocketsApart, PTL DEF Spec
=============================================================================
