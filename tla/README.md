# rt-pay in TLA+

rt-pay is the firmware of a payment terminal for an arcade machine: an owner
sends MQTT messages that enable the device, set its price and add credits; the
device turns each credit into pulses on the coin line of the machine, shows its
state on a two-line display and reports the cards its RFID reader sees.  It
runs on RT-Thread on one core.  This directory holds a TLA+ model of the
firmware's own logic (`applications/`) together with the parts of the kernel,
the pin driver and the umqtt package that logic depends on.

## 1. Inventory

| component | source | state | operations | talks to |
|---|---|---|---|---|
| events | `applications/event.h` | - | the `event_t` of five kinds | everybody |
| event queue | `applications/event_handler.c`, `rt-thread/src/ipc.c` | linked messages, free nodes, waiting receivers | `event_handler_push_event`, `event_handler_read_event` | senders: main, umqtt, card reader; reader: application |
| application thread (priority 16) | `applications/app.c` | `sys_cfg`, the static `evt`, loop counters, coin pin, screen | `on_enable_event`, `on_config_event`, `on_credit_event` / `add_credit`, `on_mqtt_event` | queue, pin driver, LCD |
| main thread (10) | `applications/main.c`, `mqtt_link_connect` | `mqtt_link_connected`, the static `client` | connect, subscribe, report, retry | queue, umqtt |
| umqtt thread (8) | `packages/umqtt-latest`, callbacks in `applications/mqtt_link.c` | session, subscriptions, acknowledgement queue, QoS 2 list | one callback per topic, reconnect | broker, queue |
| uplink timer (soft timer thread, 4) | `packages/umqtt-latest/src/umqtt.c` | the client structure, shared with umqtt and main | heartbeat, reconnect, give up | broker |
| card reader thread (18) | `applications/card_reader.c` | the global `card_evt` | poll, push, `mqtt_link_send` | queue, umqtt |
| pin driver | `drivers/misc/pin.c`, `ch32_drivers/drv_gpio.c` | output levels | `rt_pin_get`, `rt_pin_write` | application |
| JSON parser | `applications/jsmn.c`, the loop in each callback of `mqtt_link.c` | token array, super token, the payload it writes zeros into | `jsmn_parse`, key lookup | callbacks |
| LCD driver | `applications/lcd.c` | cursor, display memory | `LCD_Puts` | application |
| RFID, AT modem, lwIP, HAL, kernel | `packages`, `rt-thread`, `Libraries` | - | - | - |

Everything meets in the event queue.  The umqtt, main and card reader threads
push into it and never wait; the application thread reads one event and handles
it to its end.  Handling a credit takes a delay per pulse edge and 1.5 s for the
"Thank you" screen, so the reader can stay away from a queue of four nodes for
seconds.

What is hard here, and which property answers for it (PROJECT.json has the line
of each):

* three senders and a reader preempt each other inside the kernel's queue:
  `NodesConserved`, `ListsIntact`, `CopyIntact`, `QueueSpec`;
* a send wakes one receiver, whose message another caller may take first, and a
  timeout races the wake-up: `WakeupsSuffice`, `MessagesReceived`;
* a credit is inserted across many delays during which disable and config
  messages arrive: `CreditWhileEnabled`, `DeviceSpec`, `PinRests`;
* the order in which messages were accepted must be the order in which they
  take effect: `EnableSettles`, `ConfigSettles`, `DeviceSpec`;
* handlers redraw the screen in some branches only: `ScreenTruth`;
* connection attempts are retried while events of earlier attempts are still in
  the queue: `ServiceIsFinal`, `ConnectRetried`;
* one thread tests a pointer that another assigns: `PublishHasClient`;
* a full queue, an ignored result, a session that drops: `NoCreditLost` and
  `DisabledCanBeEnabled`, which the code does **not** satisfy (section 4);
* every accepted event must be served in the end, although main preempts the
  application all the time and a send on a closed connection spins above it:
  `PulseEnds`, `DeviceServes`;
* the main thread, the umqtt thread and the uplink timer all run
  `umqtt_connect()` on one client, with one socket, one state and one counter
  of attempts, waiting for a lock and inside `closesocket()` between two
  accesses: `NoReaderNotLinked`, `NoReaderSettles`, `StartReturns`,
  `ReconnectEnds`, `KeepaliveBounded` and, not satisfied, `StaysOnline`;
* a send that fails looks like one that succeeded: `StartReturns`,
  `CallsReturn`, `ConfirmedByBroker`;
* two threads wait at one queue of acknowledgements that are matched by type
  only, and four encode into one send buffer: `ConfirmedByBroker`,
  `CallsReturn` and, not satisfied, `PublishConfirmed`;
* QoS 2 messages are kept in a list and a table with one slot: `PubrecEnds` and,
  not satisfied, `Qos2Delivered`;
* payloads need not be JSON, are parsed into a fixed array and overwritten while
  they are read, and a name is copied without a terminator or a bound:
  `KeyHasValue`, `ValuesAsSent`, `BracketsMatch`, `FieldsAsDocumented`.

## 2. Modules

| module | models | extends |
|---|---|---|
| `Events` | `event.h`; the unsigned widths as constants and the conversion of `atoi()` to them | - |
| `EventHandler` | the queue: `MqTakeNode` / `MqFull` and `MqLink` are the two critical sections of `rt_mq_send()`, `MqUnlink` and `MqFreeNode` those of `rt_mq_recv()` | `Events` |
| `App` | the application thread; `apc` is its position, one value per place where it can be preempted with different state | `EventHandler` |
| `MqttLink` | the main thread and the topic callbacks the umqtt thread runs, session loss and reconnection | `EventHandler` |
| `CardReader` | the card reader thread and `mqtt_link_send()` | `MqttLink` |
| `RtPay` | the four threads together under fixed-priority scheduling, fairness, and all properties | `App`, `CardReader` |
| `PayDevice` | the abstract specification: an inbox whose events are served in order, once each, completely | `Events` |
| `RtPayProofs` | the theorems about the firmware | `RtPay`, TLAPS |
| `UmqttSession` | the session umqtt keeps: start, loss, reconnection, keep-alive, deletion | - |
| `UmqttSessionProofs` | the theorems about the session | `UmqttSession`, TLAPS |
| `UmqttExchange` | subscriptions, QoS 1 publishing, acknowledgements, QoS 2 messages and heartbeats over one send buffer | - |
| `UmqttExchangeProofs` | the theorems about it | `UmqttExchange`, TLAPS |
| `RtMq` | the message queue of the kernel with its linked lists; instantiates `EventHandler` | - |
| `RtMqProofs` | the theorems about it | `RtMq`, TLAPS |
| `MqttJson` | `jsmn_parse()` and the loop over the keys in the callbacks | - |
| `MqttJsonProofs` | the parser and the loop on any payload | `MqttJson`, TLAPS |
| `MqttBracketProofs` | `jsmn_parse()` against counting brackets | `MqttJsonProofs` |
| `MqttDocumentProofs` | documented messages from the payload to the fields | `MqttBracketProofs` |
| `MCRtPay`, `MCUmqttExchange`, `MCMqttJson` | values for the model checker | the module they name |

Four modules look at one place in more detail than `RtPay` does: `RtMq` refines
`EventHandler`; `UmqttSession` is behind `LinkLost`, `LinkBack` and
`MainStartFailed` of `MqttLink`; `UmqttExchange` behind `MainSubscribe`,
`mqtt_link_send` and the arrival of messages; `MqttJson` behind the sets of
field values in `Events`.  Only the first relation is stated and proved as a
refinement.

### State and code

`evt_queue` is the list from `msg_queue_head`; `free` is the length of the list
at `msg_queue_free`.  `sys_cfg`, `evt`, `i`, `j` are the variables of `app.c`
(`i` the loop of `on_credit_event()`, `j` that of `add_credit()`).  `pin` is the
last level given to `rt_pin_write()`, `gpio` the level of the port, which is
only written for a valid pin number.  `screen` is which message the display
shows and the amount in it; layout is left out.  `client` says whether the
static pointer is null; `subs` the topics whose messages reach their callback.
`lost`, `edges`, `shown`, `paid`, `lastEnable` and `lastConfig` are history
variables: they record something for a property and no guard reads them.

An event's payload is abstracted to the fields it sets.  A JSON field absent
from a message is the zero of the `memset()`, as is a value `atoi()` cannot
read, so the sets `Prices`, `Pulses`, `Enables`, `Counts` and `Balances` of
integers stand for every payload that parses; one that does not parse changes
nothing.  Values are narrowed to the field's width with `ToU16` and `ToU32`.

`on_config_event()` is modelled as compiled: its condition `name[0] =! '\n'`
assigns zero and is false.

### The session

`MqttLink` sees a session that may be lost (`LinkLost`) and come back
(`LinkBack`); `UmqttSession` is what umqtt does for that.  `cpc[t]` is the
position of thread `t` in `umqtt_connect()`: `try` at the label `_reconnect`
(delays end there), `dial` in `connect()`, `send` before CONNECT, `read` waiting
for CONNACK.  `csock[t]` is the socket a blocked call of `t` works on, `sock` is
`client->sock`, which every step reads afresh as the code does: after a delay it
may be another thread's.  `mpc` is the main thread (`idle`, in `umqtt_start()`,
between starting the thread and the timer, `up` for good); `rpc` the umqtt
thread (`enter` between two packets, `recv`, `reconnect`, `quit`, or `deleted` by
the timer).  `conn` is what the network makes of a socket.  Ticks are abstracted:
`uplink` is `waiting` when `uplink_last_tick >= uplink_next_tick`, so when a
heartbeat or a timeout is due is left open.  The timer thread has the highest
priority, so its callback is only interrupted where it waits: in
`umqtt_connect()`, for `lock_client` in `set_connect_status()` (`unlink`,
`delete`) and in `closesocket()` (`drop`; `close` for the others).  The lock is
only ever held around one assignment, so while the timer waits for it the other
threads can finish that assignment (`Storing`) and nothing else: this is how the
DISCONNECT of a thread that gives up can come before the UNLINK the timer had
already decided on.  `closesocket()` waits 100 ms, marks the connection closed
(`Shuts`), tells the modem and frees the socket (`Closes`); only then does
`client->sock` become -1.  A stopped timer whose callback is still running finishes it and is not started
again, as in `rt_soft_timer_check()`.  `Reliable` restricts the network to
closing established sessions; the passing run leaves it unrestricted.
`send()` of the modem's sockets returns 0 once the peer has closed, and
`umqtt_trans_send()` then calls it again at once (`spin`, `ping` for a
heartbeat): a thread in that loop starves those of lower priority.  A `send()`
that fails is not noticed: `umqtt_trans_send()` returns `-errno`, `errno` is the
error of the RT-Thread thread, zero or negative, and the callers test for a
negative result.  `SendFails` and `SpinEnds` therefore go on to wait for CONNACK
(`AwaitsConnack`).

### The exchange

`UmqttExchange` begins with a session that is up and main about to subscribe.  A
packet is its type and the number of the call it is for.  `send_buf` and
`send_len` are separate, as in the code, because a thread may be preempted
between encoding and setting the length, and because a later attempt of
`umqtt_publish()` sends what the buffer then holds.  `wire[t]` is the buffer and
length a send began with; the modem reads the bytes over time, so what arrives
is the old content, the new one, or a mixture (`OnTheWire`).  The broker answers
what it can read and closes the connection on what it cannot.  A failed send
goes on to the wait for the answer (`SendFails`), for the reason given above.
`taken` and
`confirmed` are history variables.  Delivery to a callback is left to
`MqttLink`; a reconnection is one step, its detail is in `UmqttSession`.  Of the
timer, the heartbeat and the PUBREC cycle are modelled; the reconnection by the
timer is in `UmqttSession` only.  With the QoS 2 list full, the code links the
null pointer's list node: the processor faults then (`halted`) or at the next
walk over the list (`Corrupt`).

### The kernel's queue

In `RtMq` a step is one critical section or the copying between two.  Threads
interleave freely, which includes every schedule that priorities allow.
`next`, `msg_queue_head`, `msg_queue_tail`, `msg_queue_free`, `entry` and
`suspend_thread` are the fields of the code; `msg` is the local pointer.
`order` and `spare` record which nodes should be on the lists and in which
order; `due` what a receiver should return.

### The parser

A payload in `MqttJson` is a sequence of lexemes, chosen while it is read:
brackets, colon, comma, blank, string or primitive with its text, and strings
and primitives that `jsmn_parse_string()` or `jsmn_parse_primitive()` reject.
Positions count lexemes; a string has two characters of interest, its quotes,
because `value[value_len] = 0` hits the closing quote of a string value and the
first character behind any other.  `strncmp(key, name, key_len)` is a prefix
test (`Asked`).  `Documented` describes the messages of the repository's README:
one object of members whose values are strings (the `name` of a config message,
of `NameSize` characters at most) or primitives.

`fields` is where the value of a number begins that `atoi()` read last.  A name
is copied by `strncpy(config.name, value, value_len)`, which neither terminates
nor bounds it, so `names` has for each character of the member the value it was
copied from.  A value longer than the member is written into the members behind
it (`Spills`; which of them is left open) or, past the event, into the stack, of
whose further use nothing is said (`KeyOverrun`).  `Length` counts the
characters of a value, those of a whole object or array included.

### Scheduling

RT-Thread runs the ready thread of the highest priority.  `RtPay` therefore lets
the application step only while main is not ready, and the card reader only
while neither is; a thread can be preempted between any two steps.  The umqtt
thread is woken by the network and may step at any time; as no other user of the
event queue has a higher priority, its push is one step (`MqSend`).  The other
senders push in two.  `spinning` are the threads inside the endless loop of
`umqtt_trans_send()`; while one is there, no thread below it steps.  The loop
can begin wherever main, the umqtt thread or the timer sends, and ends only when
a thread above frees the socket, if at all.

## 3. Runs that pass

The runs of `RtPay` use small widths (`U16 = 3`, `U32 = 4`: a field holds 0..2 or
0..3) so that the negative numbers a message can carry wrap around within the
sets enumerated.

| run | instance | checks |
|---|---|---|
| `credit` | queue of 2, counts 0-2, 2 pulses per credit, enable/disable, connection attempts, fairness | `TypeOK`, `CreditWhileEnabled`, `PinRests`, refinement of `PayDevice` (`DeviceSpec`, `DeviceServes`), `PulseEnds`, `ConnectRetried` |
| `config` | queue of 2, names, prices with wrap-around, enable 0 and 1, cards, lost sessions | `EnableSettles`, `ConfigSettles`, `ScreenTruth`, `NodesConserved`, `PublishHasClient`, `ServiceIsFinal` |
| `session` | 3 sockets, 3 reconnects, 2 heartbeats, every failure of the network | `TypeOK`, `KeepaliveBounded`, `NoReaderNotLinked`, `NoReaderSettles`, `StartReturns`, `ReconnectEnds` |
| `exchange` | one QoS 2 topic, one swipe of 2 attempts, 2 messages of any QoS, one loss, 2 acknowledgements queued | `TypeOK`, `ConfirmedByBroker`, `CallsReturn`, `PubrecEnds` |
| `rtmq` | 2 nodes, 2 senders, 3 receivers of which one never times out, 2 contents | `TypeOK`, `ListsIntact`, `CopyIntact`, `WakeupsSuffice`, `MessagesReceived`, refinement of `EventHandler` (`QueueSpec`) |
| `parse` | 5 tokens, a name of 2 characters, every payload of up to 7 lexemes, every documented message of up to 2 members with values of 1 and 2 characters | `TypeOK`, `KeyHasValue`, `ValuesAsSent`, `BracketsMatch`, `FieldsAsDocumented` |

Why the bounds suffice: a queue of 2 already fills up while the application is
busy, and lets an event wait behind another of the same or of a different kind;
the theorems cover the length the code has.  Two credits of two pulses take both
loops through first, middle and last iteration.  Three sockets let the umqtt
thread and the timer each hold a connection while one more has leaked, and let
the sockets run out; three reconnects let the thread and the timer both attempt
one before the count is used up, and two heartbeats reach the limit and the step
before it.  One subscription and one swipe already compete for the queue of
acknowledgements and for the send buffer; the second message meets a full QoS 2
list, whose real limit is the 1 used.  In `rtmq` there are more receivers than
messages, so that some wait, are resumed in vain and time out.  Seven lexemes
hold an object with a nested array or object, more tokens than the array of 5
has, and any of the mistakes the parser distinguishes.  Two members and two
lengths give a short name behind a long one; an object as the value of the name
is longer than the member.

Deadlock is not checked where the system may stop: a client whose umqtt thread
has quit (`session`), an exchange whose calls are over or that has faulted
(`exchange`, `acked`, `qos2`), and receivers that wait for messages nobody sends
(`rtmq`).

**Fairness.**  `SF(MainThread)` outside `mqtt_start_client()` and
`SF(AppThread)`: a thread that can run again and again does.  Main sleeps 100 ms
in every turn of its loop and waits for the network inside it, and the umqtt and
timer threads wait for the network or a period between two sends; the threads
below run then.  What fairness must not claim is that a send returns: in
`umqtt_trans_send()` a thread may spin for ever, and the application, of a lower
priority, then never runs again, not even to end a pulse.  Nothing is assumed of
the end of a spin, so `PulseEnds` and `DeviceServes` hold up to that case
(`Starved`), and say that a spin that does end only delays.  Inside
`mqtt_start_client()` main may wait for a silent broker for ever.  Nothing is
assumed of the network, the owner or the card reader: a connection may never
succeed and messages may never come.

In `UmqttSession` weak fairness covers every step that waits for nothing or for
something bounded: a delay, the modem's answer to `connect()` and `send()`, the
timer's period, `lock_client`, and `recv()` on a stream that has ended.  The run
also assumes that the broker answers a CONNECT it got or closes the connection
(`BrokerAnswers`).  The liveness properties are stated up to a thread that spins
in `umqtt_trans_send()` (`Spinning`), from where the client never comes back,
and `StartReturns` and `ReconnectEnds` also up to a thread that waits for the
answer to a CONNECT whose send failed unnoticed (`Unheard`).

In `UmqttExchange` weak fairness covers the callers, the sends, the reader and
the PUBREC cycle of the timer: each waits for a timeout, the modem's report or
the timer's period at most.  The broker need not answer, nor a reconnection
succeed.  In `RtMq` a thread inside a call that does not wait goes on, and a
receiver without a timeout calls again, as the loop of the application does; no
sender need send.

## 4. Runs that show a disagreement

Each checks one sentence of the README or a comment against the code.

| run | property | what happens |
|---|---|---|
| `pulses` | `PulsesPerCredit` | `add_credit()` lowers the line in each turn of its loop and raises it after the loop only: one edge whatever `pulses` says |
| `lost` | `NoCreditLost` | while `add_credit()` holds the coin line low for one message, the next add-credit message meets a full queue and is dropped |
| `deaf` | `DisabledCanBeEnabled` | after a reconnection, or a subscription without SUBACK, the device says "disabled by ownr" and cannot be enabled |
| `online` | `StaysOnline` | successful connections use up the reconnects; the next loss ends the umqtt thread with the broker reachable |
| `acked` | `PublishConfirmed` | a swipe sent twice is acknowledged twice, and the second PUBACK confirms the next swipe, whose send failed unnoticed |
| `qos2` | `Qos2Delivered` | `qos2_publish_delete()` finds nothing in a list that is not empty: a QoS 2 message is kept for good, and `mqtt_link.c` subscribes add-credit with QoS 2 |

`online` assumes a network that only closes established sessions and a broker
that answers, so that nothing but the count can be the reason.

The model also contains, without a run of their own, these consequences of the
code:

* `on_config_event()` never takes over the name of a config message
  (`app.c:130`); `OnConfig` leaves it alone.
* The push that reports a successful connection can meet a full queue like any
  other and is not repeated (`MainReport`), so the display may stay at
  "connecting" with the session up.
* `mqtt_event_callback()` only logs, so the display does not tell that the session
  is lost (`LinkLost` leaves `screen` alone).
* `umqtt_delete()` does not close the socket (`Returned` leaves `conn` alone): a
  start that fails after the TCP connection leaks one of the modem's five.
* `"RB0"` is not a name `rt_pin_get()` knows; the pin number it returns names no
  port, so the writes of `add_credit()` change no output (`rt_pin_write` leaves
  `gpio` alone).
* After the umqtt thread has reconnected, the uplink timer it stopped stays
  stopped (`ThreadFin` of `UmqttSession`, `ReadsFin`): no heartbeat watches the
  new session.
* `recv()` has no timeout, so `connect_time` does not bound `umqtt_start()`
  against a silent broker; `StartReturns` holds under `BrokerAnswers` only.
* A heartbeat on a connection the peer has closed never leaves
  `umqtt_trans_send()` (`umqtt_transport.c:257`), whose comment promises a
  result; the timer thread then starves every other one (`TimerPings`), the
  application in the middle of a pulse included (`SpinStarts` of `RtPay`).
* `-errno` is never negative (`umqtt_transport.c:261`), so a CONNECT that could
  not be sent is waited for without a timeout, and a publish or subscribe that
  could not be sent waits for its answer (`SendFails`).
* The UNLINK of the timer can be stored over the DISCONNECT of an umqtt thread
  that has quit (`TimerUnlinks`); the timer then reconnects without a reader until
  its attempts are used up, which is what `NoReaderSettles` says.
* `client->sock` becomes -1 only when `closesocket()` has returned, even if another
  thread has connected a new socket meanwhile (`Closes`): that one leaks.
* A heartbeat encodes into the `send_buf` of a send under way (`OnTheWire`), and
  the broker gets bytes of two packets.
* A short name behind a longer one of the same message leaves a mixture of both,
  a name of 16 characters has no terminator, and a longer one leaves the member
  (`KeyTake`, `KeyOverrun`); the application never looks at the name.
* `keepalive_count` may pass `keepalive_max_num`, by one at most
  (`KeepaliveBounded`), because the umqtt thread reconnects without setting it back.
* A key that is a prefix of a member's name, the empty key included, sets that
  member, and so does a key inside a nested object (`Asked`, `KeyTake`).

## 5. Proofs

`RtPayProofs` proves, for every queue length, every width, and all sets of
values (under the assumptions `WidthAssumption`, `FieldAssumption`,
`NameAssumption`, `QueueAssumption`, `DefaultAssumption`, `UidAssumption`):

* `Invariance`: `Spec => []IInv`.  `TypeOK` and the safety properties are not
  inductive by themselves.  `IInv` adds what each position of a thread implies:
  `AppPcInv` (in a handler `evt` holds an event, in the credit loops a credit
  event of an enabled device with the counters within its fields),
  `PinInv` (the pin is low only between the two writes of `add_credit()`),
  `ClientInv` (main tries to connect only without a client) and `CardInv` (a
  pushed card has been read);
* from it `TypeCorrect`, `QueueNodesConserved`, `CreditsOnlyWhileEnabled`,
  `CoinLineRests`, `PublishesWithClient`, `ScreenTellsTruth`;
* `ImplementsDevice`: every step of the firmware is a step of `PayDevice` or
  leaves its view unchanged.  The inbox is the queue behind the event being
  handled; linking is `Accept`, the last step of a handler is `Serve`;
* `LastEnableDecides` and `LastConfigDecides`: shown on `PayDevice` steps through
  the refinement, since all that matters is what is appended to the backlog and
  what its head does;
* `SuccessIsFinal`: `Spec => ServiceIsFinal`.  `FinalInv` adds that a success is
  the last MQTT event of the backlog, that there is none while
  `mqtt_link_connected` is false, and that main carries the status of a success
  only with a client, so that a report and its retry never cross.

`UmqttSessionProofs` proves, for any set of sockets and all limits,
`SessionTypeOK` and `NoReaderIsNotLinked` (`Spec => []NoReaderNotLinked`).  The
property alone is not inductive: that nobody sets LINKED behind a reader that is
gone follows from where the callers of `umqtt_connect()` can be (`Callers`): the
main thread only before the umqtt thread exists, the umqtt thread only while it
reconnects, the timer never waiting for CONNACK and running only after a start.
That the state may still change from DISCONNECT to UNLINK_LINKING is part of the
model, hence the weaker invariant and the liveness property beside it.
`SocketsApart` (`Spec => []SocketInv`) says whose CONNECT can still be
unanswered while the timer reconnects.  `HeartbeatsBounded`
(`Spec => []KeepaliveBounded`) rests on it and needs `KeepaliveInv`: with the
count at its limit either the timer no longer counts (`Counts`: LINKED, and the
timer not waiting to store UNLINK) or the umqtt thread cannot find another
session (`MayLink`), one above the limit both, because the socket it reads from
is then `client->sock`, which the timer closes, or none.

`UmqttExchangeProofs` proves `ExchangeTypeOK` and `CallsConfirmedByBroker` for
any number of topics, calls, messages and losses (`ExchangeAssumption`).  The
invariant follows an acknowledgement on its way: every packet that is on the
wire or in the buffer was begun by its caller, every acknowledgement on the way
or in the queue is for a packet the broker took.

`RtMqProofs` proves, for every number of nodes, any senders and finitely many
receivers (`MqAssumption`):

* `MqInductive`: the inductive invariant.  To the lists it adds that the nodes of
  `order`, of `spare` and those held by threads are all different, which is what
  keeps a write outside the critical sections from touching a list, and that the
  receivers in `suspend_thread` are exactly those that wait, each once;
* `MqTypeOK`, `MqListsIntact`, `MqCopyIntact`, `MqWakeupsSuffice` (the last by
  counting the receivers that have been resumed);
* `MqImplementsQueue`: each critical section is the step of `EventHandler` it
  stands for, so what `RtPayProofs` shows about the firmware rests on the lists of
  the kernel.

The three modules about `MqttJson` hold for payloads of any length, with any
nesting and any mistake, and for every size of the token array
(`JsonAssumption`: the names a callback asks for are different from each other,
and the copied ones are among them).
They rest on one description of a step of the parser (`ParserStep`: it rejects a
lexeme, passes it, adds a token or closes one).

* `MqttJsonProofs`: `ParserTypeOK`, `KeysHaveValues` and `ValuesReadAsSent`
  (`Spec => []ValuesAsSent`) from `ParserInductive`.  When a string can have got
  a size is in `SuperFollowed` and `KeyFollowed`: only as the super token after a
  colon, and then the next token is behind that colon with no closing bracket
  between.  That a zero never lands in a value still to be read also needs that
  tokens begin in order (`Ordered`), that what begins inside a closed token ends
  inside it (`Nested`), and that a delimiter follows every primitive
  (`Separated`), so the character behind one belongs to no later text.
* `MqttBracketProofs`: `BracketsArePaired` (`Spec => []BracketsMatch`).  The
  parser keeps no depth; the property counts brackets.  `Deep` relates the two:
  from the beginning, and from each open token on, the brackets not closed yet
  are as many as the open tokens from there on.  With `Tokenised` (every opening
  bracket has a token) and `Paired` (each closed token ends at its bracket) this
  gives both directions: success means matching brackets, and `Rejected`, that an
  error for brackets means they cannot be matched.
* `MqttDocumentProofs`: `DocumentedFields` (`Spec => []FieldsAsDocumented`), for
  any number of members that fit the array and any names of which no documented
  key is a proper prefix (`DocAssumption`; the code has 16 tokens and at most
  three names, and the documented keys are the names).  `DocInv` fixes for every
  prefix of such a message the tokens it has made (`Placed`), which of them have
  been counted by a key (`Sized`), that only the object is open (`OpenObject`),
  and that each number holds the last value among the keys the loop has passed,
  each character of a name the last one long enough to have it (`Filled`).  That
  a documented name never overruns its member (`DocOverruns`) uses the bound of
  16 bytes the documentation gives it.

Only model-checked: liveness (`PulseEnds`, `ConnectRetried`, `DeviceServes`,
`NoReaderSettles`, `StartReturns`, `ReconnectEnds`, `CallsReturn`, `PubrecEnds`,
`MessagesReceived`), which is beyond the prover.  Every invariant and every
safety property that a passing run checks has a theorem.

## 6. Not modelled, and the plan

Not modelled: time (the 100 ms pulse, the retry interval; a delay is a point
where others run), the layout of the display, the characters inside strings and
numbers, the byte formats of MQTT packets, the register protocol of the RFID
chip, the AT modem, lwIP, the file systems, the HAL and the rest of the kernel.
The last group is third-party code that comes with the firmware's board support
package and makes up all but a few thousand of the tree's lines; most of it is
not even compiled into this firmware.  The model takes from it what the firmware
depends on: the scheduling rule, the message queue, thread timeouts, the pin
numbers and how sockets fail.

Of umqtt, `umqtt_unsubscribe()`, publishing with QoS 0 and 2,
`umqtt_publish_async()`, `umqtt_stop()` and `umqtt_control()` are left out: the
firmware does not call them, or only to set a callback that logs.  The handler of
PUBREL is left out because no broker sends one to a client that never sends
PUBREC.

Planned, in this order:

1. `topicname_is_matched()` against the definition of topic filters;
2. the LCD cursor and display memory;
3. a refinement from `UmqttExchange` to the steps of `MqttLink` it details.
