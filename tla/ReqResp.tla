------------------------------- MODULE ReqResp -------------------------------
(***************************************************************************)
(* The broker client (code/dependence/broker) as devAdapter uses it:       *)
(*   - the main thread connects (init_broker), registers its callback once *)
(*     (register_cb_common) and asks other processes of the board          *)
(*     (dev_transfer), one operation at a time;                            *)
(*   - the MQTT thread runs the callbacks of the mosquitto library, which  *)
(*     walk the lists of waiters without their locks and wake a waiter up; *)
(*   - the broker and the devices are external: requests, answers and      *)
(*     acknowledgements in flight are sets, any of which may be lost.      *)
(* On top of it the RSSI stream of code/src/procBroker.c: rssi_state is    *)
(* what devAdapter believes of the publisher, rfOn what the rf process     *)
(* does.                                                                   *)
(*                                                                         *)
(* Operations are numbered; the number is the mid of its publication and   *)
(* the request it carries.  An operation waits on up to two waiters: one   *)
(* on the stack for the acknowledgement (pub_list, sub_list) and, for a    *)
(* request, one in the heap block new_dev for the answer (srv_list).       *)
(* A callback that touches a waiter that is gone may do anything: the      *)
(* model stops there (status = "corrupt").                                 *)
(* early, missed, wrong and refused are history variables.                 *)
(***************************************************************************)
EXTENDS Naturals, FiniteSets

CONSTANTS MaxOps,     \* bound: operations of the main thread
          MaxLosses,  \* bound: connections to the broker that break
          Kinds       \* requests of the clients; "close" is the tear-down's own "off"

ASSUME ReqRespAssumption ==
    /\ MaxOps \in Nat
    /\ MaxLosses \in Nat
    /\ Kinds \subseteq {"on", "off", "inquiry"}

VARIABLES
    \* MQTT thread and its connection
    link,            \* new, up, down, ended
    connect_stat,
    subs,            \* topics the broker holds for this client
    losses,
    cbpc, cbn, cbmsg,  \* callback: position, operation whose waiter it has, answer
    \* main thread
    mpc, n,          \* position, number of the operation
    op, kind, ret,
    amid,            \* mid of the waiter on the stack
    smid, buf,       \* mid and buf of new_dev
    freed,           \* operations whose new_dev was freed
    cb_list,         \* its one entry: none, live, freed
    \* messages in flight
    acks, reqs, resps,
    \* RSSI stream
    rssi_state, rfOn,
    client,          \* 1 when g_server->g_receive # NULL
    \* history
    early,           \* a wait ended without having been woken up
    missed,          \* requests that ended without an answer used
    wrong,           \* requests that got the answer to another one
    refused,         \* 1 if the last "on", "off" or "close" a device answered was refused
    status           \* up, exit, corrupt

netVars  == <<link, connect_stat, subs, losses>>
cbVars   == <<cbpc, cbn, cbmsg>>
opVars   == <<n, op, kind>>
waitVars == <<amid, smid, buf>>
msgVars  == <<acks, reqs, resps>>
rssiVars == <<rssi_state, rfOn, client>>
histVars == <<early, missed, wrong, refused>>
vars == <<netVars, cbVars, mpc, opVars, ret, waitVars, freed, cb_list, msgVars,
          rssiVars, histVars, status>>

Ops == 1..MaxOps

Init ==
    /\ link = "new" /\ connect_stat = "none" /\ subs = {} /\ losses = 0
    /\ cbpc = "idle" /\ cbn = 0 /\ cbmsg = 0
    /\ mpc = "connect" /\ n = 0 /\ op = "listen" /\ kind = "inquiry" /\ ret = "ok"
    /\ amid = 0 /\ smid = 0 /\ buf = 0
    /\ freed = {} /\ cb_list = "none"
    /\ acks = {} /\ reqs = {} /\ resps = {}
    /\ rssi_state = 0 /\ rfOn = 0 /\ client = 0
    /\ early = 0 /\ missed = {} /\ wrong = {} /\ refused = 0
    /\ status = "up"

\* The waiter on the stack is in pub_list or sub_list.
AckListed == mpc \in {"issue", "ack", "acksleep", "unack"}

\* new_dev is in srv_list.
SrvListed == op = "transfer" /\ (AckListed \/ mpc \in {"wait", "waitsleep", "unlist"})

-----------------------------------------------------------------------------
\* Main thread

\* The waiter for the answer gets the number of the request.
MutWaiter(o, k) ==
    /\ n < MaxOps
    /\ n' = n + 1
    /\ op' = o /\ kind' = k
    /\ amid' = 0 /\ smid' = n + 1 /\ buf' = 0
    /\ mpc' = "issue"

\* The dev_priv of an earlier call is used again as it is.
MutBegin(o, k) ==
    /\ n < MaxOps
    /\ n' = n + 1
    /\ op' = o /\ kind' = k
    /\ amid' = 0 /\ smid' = 1
    /\ mpc' = "issue"
    /\ UNCHANGED buf

\* An operation starts: waite_ack_init() for its waiters.
Begin(o, k) ==
    /\ n < MaxOps
    /\ n' = n + 1
    /\ op' = o /\ kind' = k
    /\ amid' = 0 /\ smid' = 1 /\ buf' = 0
    /\ mpc' = "issue"

\* init_broker(): the wait for connect_callback() is over, the answers are
\* subscribed to; an error or a time-out ends the process.
Connect ==
    /\ mpc = "connect"
    /\ \/ connect_stat = "ok" /\ Begin("listen", "inquiry") /\ UNCHANGED status
       \/ status' = "exit" /\ UNCHANGED <<mpc, opVars, waitVars>>
    /\ UNCHANGED <<netVars, cbVars, ret, freed, cb_list, msgVars, rssiVars, histVars>>

\* broker_register_callback(), called once, for the first client: the entry is
\* in cb_list before the broker is asked.
Register ==
    /\ mpc = "idle" /\ cb_list = "none" /\ client = 1
    /\ Begin("register", "inquiry")
    /\ cb_list' = "live"
    /\ UNCHANGED <<netVars, cbVars, ret, freed, msgVars, rssiVars, histVars, status>>

\* rssi_state_change(), inquiry_state_from(), i2cset(), i2cget(): dev_transfer()
Transfer(k) ==
    /\ mpc = "idle"
    /\ Begin("transfer", k)
    /\ UNCHANGED <<netVars, cbVars, ret, freed, cb_list, msgVars, rssiVars, histVars, status>>

\* The tear-down of a client: close_rssi(), which asks only if rssi_state is
\* set, and then g_receive is NULL.
Teardown ==
    /\ mpc = "idle" /\ client = 1
    /\ \/ rssi_state = 0 /\ client' = 0 /\ UNCHANGED <<mpc, opVars, waitVars>>
       \/ rssi_state = 1 /\ Begin("transfer", "close") /\ UNCHANGED client
    /\ UNCHANGED <<netVars, cbVars, ret, freed, cb_list, msgVars, rssi_state, rfOn,
                   histVars, status>>

Topic == IF op = "listen" THEN "respond" ELSE "all"

\* mosquitto_publish() or mosquitto_subscribe(): writes mid, then sends.  A
\* publication may be acknowledged by publish_callback() in the same call.
Issue ==
    /\ mpc = "issue"
    /\ \/ /\ link = "up" /\ op = "transfer"
          /\ reqs' = reqs \cup {[n |-> n, kind |-> kind]}
          /\ \/ amid' = n /\ acks' = acks \cup {n}
             \/ amid' = 0 /\ UNCHANGED acks
          /\ mpc' = "ack"
          /\ UNCHANGED <<subs, ret, early>>
       \/ /\ link = "up" /\ op # "transfer"
          /\ amid' = n /\ acks' = acks \cup {n}
          /\ subs' = subs \cup {Topic}
          /\ mpc' = "ack"
          /\ UNCHANGED <<reqs, ret, early>>
       \/ /\ link # "up"
          /\ ret' = "err" /\ early' = 1
          /\ mpc' = "unack"
          /\ UNCHANGED <<amid, acks, reqs, subs>>
    /\ UNCHANGED <<link, connect_stat, losses, cbVars, opVars, smid, buf, freed,
                   cb_list, resps, rssiVars, missed, wrong, refused, status>>

\* waite_ack_timeout() on the waiter with this mid: return at once if it was
\* woken up, else sleep.
Test(mid, here, asleep, after) ==
    /\ mpc = here
    /\ \/ mid = 0 /\ ret' = "ok" /\ mpc' = after
       \/ mid # 0 /\ mpc' = asleep /\ UNCHANGED ret
    /\ UNCHANGED <<netVars, cbVars, opVars, waitVars, freed, cb_list, msgVars,
                   rssiVars, histVars, status>>

\* pthread_cond_timedwait() returns: woken up, by itself, or with ETIMEDOUT,
\* also when the wake-up has just happened.
Return(mid, asleep, after) ==
    /\ mpc = asleep
    /\ ret' \in {"ok", "err"}
    /\ early' = IF mid # 0 \/ ret' = "err" THEN 1 ELSE early
    /\ mpc' = after
    /\ UNCHANGED <<netVars, cbVars, opVars, waitVars, freed, cb_list, msgVars,
                   rssiVars, missed, wrong, refused, status>>

WaitAck == Test(amid, "ack", "acksleep", "unack") \/ Return(amid, "acksleep", "unack")
WaitAnswer == Test(smid, "wait", "waitsleep", "unlist") \/ Return(smid, "waitsleep", "unlist")

\* The waiter on the stack leaves its list, and the operation goes on with ret.
Unack ==
    /\ mpc = "unack"
    /\ \/ /\ op = "listen"
          /\ \/ ret = "ok" /\ mpc' = "idle" /\ UNCHANGED status
             \/ ret = "err" /\ status' = "exit" /\ UNCHANGED mpc
          /\ UNCHANGED cb_list
       \/ /\ op = "register"
          /\ mpc' = "idle"
          /\ cb_list' = IF ret = "ok" THEN "live" ELSE "freed"
          /\ UNCHANGED status
       \/ /\ op = "transfer"
          /\ mpc' = IF ret = "ok" THEN "wait" ELSE "unlist"
          /\ UNCHANGED <<cb_list, status>>
    /\ amid' = 0
    /\ UNCHANGED <<netVars, cbVars, opVars, ret, smid, buf, freed, msgVars, rssiVars,
                   histVars>>

\* An answer came, and the caller has a use for it.
Got  == ret = "ok" /\ buf # 0
Used == Got /\ (kind = "inquiry" \/ client = 1)

\* The state x of the stream after a request of kind k.
Switched(k, x) == IF k = "on" THEN 1 ELSE IF k \in {"off", "close"} THEN 0 ELSE x

\* The answer to close_rssi() is not recorded.
MutRssiState == IF kind = "on" THEN 1 ELSE IF kind = "off" THEN 0 ELSE rssi_state

\* rssi_state_change(): what an answered request makes of rssi_state.
RssiState == Switched(kind, rssi_state)

\* The block is freed whatever the result.
MutFreed == freed \cup {n}

\* dev_transfer() frees new_dev only if it failed.
Freed == IF ret = "ok" THEN freed ELSE freed \cup {n}

\* new_dev leaves srv_list, dev_transfer() returns, its caller uses the answer.
Unlist ==
    /\ mpc = "unlist"
    /\ freed' = Freed
    /\ rssi_state' = IF Used THEN RssiState ELSE rssi_state
    /\ client' = IF kind = "close" THEN 0 ELSE client
    /\ missed' = IF Used THEN missed ELSE missed \cup {n}
    /\ wrong' = IF Got /\ buf # n THEN wrong \cup {n} ELSE wrong
    /\ mpc' = "idle"
    /\ UNCHANGED <<netVars, cbVars, opVars, ret, waitVars, cb_list, msgVars, rfOn,
                   early, refused, status>>

MainStep == Connect \/ Issue \/ WaitAck \/ Unack \/ WaitAnswer \/ Unlist

-----------------------------------------------------------------------------
\* MQTT thread: mqtt_thread() and the callbacks it runs, one at a time

\* connect_callback() with rc = 0 or not, or mosquitto_connect() fails.
Connected ==
    /\ link = "new"
    /\ \/ link' = "up" /\ connect_stat' = "ok"
       \/ link' = "ended" /\ connect_stat' \in {"none", "refused"}
    /\ UNCHANGED <<subs, losses, cbVars, mpc, opVars, ret, waitVars, freed, cb_list,
                   msgVars, rssiVars, histVars, status>>

\* The connection breaks.  The session was opened with clean_session set: the
\* broker forgets the subscriptions and what it had for this client.
Lose ==
    /\ link = "up" /\ cbpc = "idle"
    /\ losses < MaxLosses
    /\ losses' = losses + 1
    /\ link' = "down"
    /\ subs' = {} /\ acks' = {} /\ resps' = {}
    /\ UNCHANGED <<connect_stat, cbVars, mpc, opVars, ret, waitVars, freed, cb_list,
                   reqs, rssiVars, histVars, status>>

\* mosquitto_loop_forever() connects again; connect_callback() only stores rc.
Reconnect ==
    /\ link = "down"
    /\ link' = "up"
    /\ connect_stat' = "ok"
    /\ UNCHANGED <<subs, losses, cbVars, mpc, opVars, ret, waitVars, freed, cb_list,
                   msgVars, rssiVars, histVars, status>>

\* publish_callback(), subscribe_callback(): look for the waiter with this mid.
\* (The list has at most this waiter, so the walk is one step; the access that
\* follows the comparison is AckWake.)
AckArrives(m) ==
    /\ link = "up" /\ cbpc = "idle" /\ m \in acks
    /\ acks' = acks \ {m}
    /\ \/ AckListed /\ amid = m /\ cbpc' = "ackwake" /\ cbn' = n
       \/ ~(AckListed /\ amid = m) /\ UNCHANGED <<cbpc, cbn>>
    /\ UNCHANGED <<netVars, cbmsg, mpc, opVars, ret, waitVars, freed, cb_list, reqs,
                   resps, rssiVars, histVars, status>>

\* A callback returns.
CbEnd == cbpc' = "idle" /\ cbn' = 0 /\ cbmsg' = 0

\* wakeup_waite_ack() on the waiter on the stack.
AckWake ==
    /\ cbpc = "ackwake"
    /\ \/ AckListed /\ cbn = n /\ amid' = 0 /\ UNCHANGED status
       \/ ~(AckListed /\ cbn = n) /\ status' = "corrupt" /\ UNCHANGED amid
    /\ CbEnd
    /\ UNCHANGED <<netVars, mpc, opVars, ret, smid, buf, freed, cb_list, msgVars,
                   rssiVars, histVars>>

\* message_callback() with an answer: the first waiter of srv_list gets it,
\* whatever its number; without a waiter it is dropped.
AnswerArrives(m) ==
    /\ link = "up" /\ "respond" \in subs
    /\ cbpc = "idle" /\ m \in resps
    /\ resps' = resps \ {m}
    /\ \/ SrvListed /\ cbpc' = "fill" /\ cbn' = n /\ cbmsg' = m
       \/ ~SrvListed /\ UNCHANGED cbVars
    /\ UNCHANGED <<netVars, mpc, opVars, ret, waitVars, freed, cb_list, acks, reqs,
                   rssiVars, histVars, status>>

\* A step of message_callback() on new_dev of operation cbn: new_dev is gone,
\* or kept for good by a dev_transfer() that succeeded, or in use.
OnNewDev(here, inuse) ==
    /\ cbpc = here
    /\ \/ cbn \in freed /\ status' = "corrupt" /\ UNCHANGED <<buf, smid>>
       \/ cbn \notin freed /\ ~(cbn = n /\ SrvListed) /\ UNCHANGED <<buf, smid, status>>
       \/ cbn = n /\ SrvListed /\ inuse /\ UNCHANGED status
    /\ UNCHANGED <<netVars, mpc, opVars, ret, amid, freed, cb_list,
                   msgVars, rssiVars, histVars>>

\* dev->buf is allocated and filled; wakeup_waite_ack(waite_ack, 1).
Fill ==
    /\ OnNewDev("fill", buf' = cbmsg /\ UNCHANGED smid)
    /\ cbpc' = "wake"
    /\ UNCHANGED <<cbn, cbmsg>>

Wake == OnNewDev("wake", smid' = 0 /\ UNCHANGED buf) /\ CbEnd

\* message_callback() with an RSSI report: walks srv_list, where it matches
\* nothing, and then cb_list.
ReportArrives ==
    /\ link = "up" /\ "all" \in subs /\ rfOn = 1
    /\ cbpc = "idle"
    /\ \/ SrvListed /\ cbpc' = "walk" /\ cbn' = n
       \/ ~SrvListed /\ cbpc' = "cblist" /\ UNCHANGED cbn
    /\ UNCHANGED <<netVars, cbmsg, mpc, opVars, ret, waitVars, freed, cb_list, msgVars,
                   rssiVars, histVars, status>>

\* The walk goes on from the waiter it looked at.
Walk ==
    /\ OnNewDev("walk", UNCHANGED <<buf, smid>>)
    /\ cbpc' = "cblist"
    /\ UNCHANGED <<cbn, cbmsg>>

\* The entry of cb_list, if there is one, and then its recv_callback.
CbEntry ==
    /\ cbpc = "cblist"
    /\ \/ cb_list = "live" /\ cbpc' = "call" /\ cbn' = 0 /\ UNCHANGED cbmsg
       \/ cb_list # "live" /\ CbEnd
    /\ UNCHANGED <<netVars, mpc, opVars, ret, waitVars, freed, cb_list,
                   msgVars, rssiVars, histVars, status>>

CbCall ==
    /\ cbpc = "call"
    /\ status' = IF cb_list = "freed" THEN "corrupt" ELSE status
    /\ CbEnd
    /\ UNCHANGED <<netVars, mpc, opVars, ret, waitVars, freed, cb_list, msgVars,
                   rssiVars, histVars>>

CallbackStep == AckWake \/ Fill \/ Wake \/ Walk \/ CbEntry \/ CbCall

-----------------------------------------------------------------------------
\* Devices, broker and clients (external)

\* A device carries the request out, or refuses it and says so with a "stat"
\* other than "0", which only i2cset() and i2cget() look at.
CarryOut(r) ==
    /\ rfOn' = Switched(r.kind, rfOn)
    /\ refused' = IF r.kind = "inquiry" THEN refused ELSE 0

Refuse(r) ==
    /\ UNCHANGED rfOn
    /\ refused' = IF r.kind = "inquiry" THEN refused ELSE 1

\* A device takes a request and answers (dev_send_respond), which the broker
\* passes on if this client listens; or the answer is lost.
Serve(r) ==
    /\ r \in reqs
    /\ reqs' = reqs \ {r}
    /\ CarryOut(r) \/ Refuse(r)
    /\ \/ link = "up" /\ "respond" \in subs /\ resps' = resps \cup {r.n}
       \/ UNCHANGED resps
    /\ UNCHANGED <<netVars, cbVars, mpc, opVars, ret, waitVars, freed, cb_list, acks,
                   rssi_state, client, early, missed, wrong, status>>

\* A request reaches nobody.
Drop(r) ==
    /\ r \in reqs
    /\ reqs' = reqs \ {r}
    /\ UNCHANGED <<netVars, cbVars, mpc, opVars, ret, waitVars, freed, cb_list, acks,
                   resps, rssiVars, histVars, status>>

\* runServer() publishes a client.
NewClient ==
    /\ client = 0
    /\ client' = 1
    /\ UNCHANGED <<netVars, cbVars, mpc, opVars, ret, waitVars, freed, cb_list, msgVars,
                   rssi_state, rfOn, histVars, status>>

Up(A) == status = "up" /\ A

Next ==
    \/ Up(MainStep)
    \/ Up(Register)
    \/ \E k \in Kinds : Up(Transfer(k))
    \/ Up(Teardown)
    \/ Up(Connected)
    \/ Up(Lose)
    \/ Up(Reconnect)
    \/ \E m \in acks : Up(AckArrives(m))
    \/ \E m \in resps : Up(AnswerArrives(m))
    \/ Up(ReportArrives)
    \/ Up(CallbackStep)
    \/ \E r \in reqs : Up(Serve(r))
    \/ \E r \in reqs : Up(Drop(r))
    \/ Up(NewClient)

Spec == Init /\ [][Next]_vars

-----------------------------------------------------------------------------
TypeOK ==
    /\ link \in {"new", "up", "down", "ended"}
    /\ connect_stat \in {"none", "ok", "refused"}
    /\ subs \subseteq {"respond", "all"}
    /\ losses \in 0..MaxLosses
    /\ cbpc \in {"idle", "ackwake", "fill", "wake", "walk", "cblist", "call"}
    /\ cbn \in 0..MaxOps /\ cbmsg \in 0..MaxOps
    /\ mpc \in {"connect", "idle", "issue", "ack", "acksleep", "unack", "wait",
                "waitsleep", "unlist"}
    /\ n \in 0..MaxOps /\ (mpc \in {"connect", "idle"} \/ n \in Ops)
    /\ op \in {"listen", "register", "transfer"}
    /\ mpc \in {"wait", "waitsleep", "unlist"} => op = "transfer"
    /\ kind \in Kinds \cup {"inquiry", "close"}
    /\ ret \in {"ok", "err"}
    /\ amid \in 0..MaxOps /\ smid \in {0, 1} /\ buf \in 0..MaxOps
    /\ freed \subseteq Ops
    /\ cb_list \in {"none", "live", "freed"}
    /\ acks \subseteq Ops /\ resps \subseteq Ops
    /\ reqs \subseteq [n : Ops, kind : Kinds \cup {"inquiry", "close"}]
    /\ rssi_state \in {0, 1} /\ rfOn \in {0, 1}
    /\ client \in {0, 1} /\ early \in {0, 1} /\ refused \in {0, 1}
    /\ missed \subseteq Ops /\ wrong \subseteq Ops
    /\ status \in {"up", "exit", "corrupt"}

(* As long as every request ended with an answer that was used, every      *)
(* request got its own: message_callback() compares no numbers, and what   *)
(* keeps answers apart is that a request is awaited before the next one.   *)
AnswersInStep == missed = {} => wrong = {}

\* Request m or its answer is on its way to message_callback()'s buffer.
InFlight(m) ==
    \/ \E r \in reqs : r.n = m
    \/ m \in resps
    \/ cbpc = "fill" /\ cbmsg = m

(* Why answers stay in step.  A request is in one place at a time and not  *)
(* before it was published; and as long as none was missed, the one under  *)
(* way is the only one anywhere, and it is no longer on its way once its   *)
(* answer is in the buffer.                                                *)
InStepInv ==
    /\ \A r, s \in reqs : r.n = s.n => r = s
    /\ \A r \in reqs : r.n \notin resps /\ ~(cbpc = "fill" /\ cbmsg = r.n)
    /\ ~(cbpc = "fill" /\ cbmsg \in resps)
    /\ cbpc = "fill" => cbmsg # 0
    /\ \A m \in 0..MaxOps : InFlight(m) =>
          /\ m <= n
          /\ m = n => op = "transfer" /\ mpc \notin {"connect", "issue"}
    /\ missed = {} =>
          /\ wrong = {}
          /\ \A m \in 0..MaxOps : InFlight(m) => m = n /\ SrvListed
          /\ SrvListed => buf \in {0, n}
          /\ SrvListed /\ buf # 0 => ~InFlight(n) /\ mpc # "issue"

(* The unlocked walks of the MQTT thread are harmless as long as every     *)
(* wait ends by being woken up.  (A new_dev that was answered is never     *)
(* freed, or else a report that passes it in srv_list would touch it.)     *)
WalkSafeInTime == early = 0 => status # "corrupt"

(* Why: until a wait ends early nothing a callback may hold is given up,   *)
(* and the waiter a callback is about to wake up is still waiting.         *)
WalkInv ==
    early = 0 =>
       /\ status # "corrupt" /\ ret = "ok"
       /\ freed = {} /\ cb_list # "freed"
       /\ amid # 0 => mpc \in {"ack", "acksleep"}
       /\ cbpc = "ackwake" => amid # 0 /\ cbn = n

(* init_broker() subscribes "all the response topics" (broker.c:375): a    *)
(* client that is connected and has been initialised gets its answers.     *)
Listening == mpc = "idle" /\ link = "up" => "respond" \in subs

(* What is left of it: so it is until the first connection breaks.         *)
ListensUntilLoss == losses = 0 => Listening

(* Why: init_broker() does not go on before connect_callback() ran, and    *)
(* its subscription is sent before it returns.                             *)
ListenInv ==
    losses = 0 =>
       /\ link # "down" /\ (connect_stat = "ok" => link = "up")
       /\ mpc # "connect" => connect_stat = "ok"
       /\ mpc # "connect" /\ ~(mpc = "issue" /\ op = "listen") => "respond" \in subs

(* Initialised, and without the subscription to the answers: nothing the   *)
(* process does later brings it back.                                      *)
Deaf == mpc # "connect" /\ op # "listen" /\ "respond" \notin subs

(* rssi_state is what close_rssi() goes by.  rssi_state_change() records    *)
(* what it asked for without a look at the "stat" of the answer, so a      *)
(* refusal makes it wrong; but the next request to switch the stream that  *)
(* is carried out makes it right again, whatever was refused before it.    *)
(* That is: when no operation is under way, no request ended without its   *)
(* answer being used and the last switch was not refused, rssi_state says  *)
(* whether the rf process publishes.                                       *)
RssiAgrees == mpc = "idle" /\ missed = {} /\ refused = 0 => rssi_state = rfOn

(* The answer to the request under way is there or on its way back.        *)
Served == buf # 0 \/ n \in resps \/ (cbpc = "fill" /\ cbmsg = n)

(* Why: as long as no request was missed and the last switch was carried   *)
(* out, the rf process is in the state recorded or, while a request is     *)
(* under way, in the one it asks for; that one it is in for sure once the  *)
(* request was answered, and only if no request is left that could still   *)
(* change it.                                                              *)
RssiInv ==
    missed = {} =>
       /\ \A r \in reqs : r.n = n => r.kind = kind
       /\ refused = 0 =>
             /\ rfOn = rssi_state \/ (SrvListed /\ rfOn = Switched(kind, rssi_state))
             /\ mpc = "issue" => rfOn = rssi_state
             /\ SrvListed /\ Served => rfOn = Switched(kind, rssi_state)
=============================================================================
