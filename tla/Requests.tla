------------------------------- MODULE Requests -------------------------------
(***************************************************************************)
(* From the frames of a client to the frames it gets back: the receive     *)
(* thread (Receiver) posts a message per request, the event loop of        *)
(* code/src/event_process.c takes them one by one, asks the devices over   *)
(* the broker and sends the answer (code/src/procBroker.c).                *)
(*                                                                         *)
(* dev_transfer() is taken for what ReqResp shows of it: it returns the    *)
(* first answer that arrives, be it to an earlier request that timed out,  *)
(* or times out; an answer that nobody waits for is dropped.               *)
(*                                                                         *)
(* stale is a history variable: while one of the requests of the message   *)
(* in hand was sent, the answer to an older one was still on its way.      *)
(***************************************************************************)
EXTENDS Receiver

CONSTANTS Wants,   \* what the client may send: a kind for each frame
          MaxLate  \* bound on the answers on their way

\* The types of messages, an inquiry being told apart by its "dst" and "gw_type".
Inquiries == {"mon", "gpio", "reg", "fpga", "elsewhere"}
Messages == Inquiries \cup {"rf", "heart beat"}

ASSUME RequestsAssumption ==
    Wants \subseteq [0 .. Frames - 1 -> Messages \cup {"unknown"}] /\ MaxLate \in Nat

VARIABLES wants,    \* kind of each frame
          queue,    \* the event queue: frames
          hpc,      \* position of the event loop
          cur,      \* frame in hand
          step,     \* request in hand
          data,     \* answers collected for the frame to be sent
          stale,
          answers,  \* answers on their way
          out       \* frames sent to the client

loopVars == <<hpc, cur, step, data, stale, answers, out>>
vars == <<recvVars, wants, queue, loopVars>>

RInit ==
    /\ Init
    /\ wants \in Wants
    /\ queue = <<>>
    /\ hpc = "idle" /\ cur = 0 /\ step = 1 /\ data = {} /\ stale = 0
    /\ answers = <<>> /\ out = <<>>

\* The message of the frame just taken out of the stream.  A frame of an unknown
\* type posts nothing, and a msgsnd() that fails loses the message.
Post ==
    \/ UNCHANGED queue
    \/ /\ Len(posted') > Len(posted)
       /\ LET n == posted'[Len(posted')] IN
             n # -1 /\ wants[n] \in Messages /\ queue' = Append(queue, n)

\* ad7417_temperature(), then rf_current(): what each request is for.
RfRequests == <<"set", "set", "ad7417_temper", "set", "rf_cur_high", "rf_cur_low">>
Asks(n) == IF wants[n] = "rf" THEN RfRequests ELSE <<"state">>

\* The type of the frame an inquiry is answered with, 0 for none.
TypeOf(kind) ==
    CASE kind = "mon" -> 41 [] kind = "gpio" -> 51 [] kind = "reg" -> 31
      [] kind = "fpga" -> 32 [] kind = "rf" -> 5 [] OTHER -> 0

\* A message is done with.
Rest == hpc' = "idle" /\ cur' = 0 /\ step' = 1 /\ data' = {} /\ stale' = 0

Take ==
    /\ hpc = "idle" /\ queue # <<>>
    /\ queue' = Tail(queue)
    /\ IF wants[Head(queue)] = "heart beat" THEN Rest
       ELSE hpc' = "issue" /\ cur' = Head(queue) /\ UNCHANGED <<step, data, stale>>
    /\ UNCHANGED <<answers, out>>

\* The "stat" of an answer: "0", or what i2cget() takes for a refusal.
Stats == IF Asks(cur)[step] \in {"set", "state"} THEN {1} ELSE {0, 1}

\* The request and its answer may be lost on their way.
Issue ==
    /\ hpc = "issue"
    /\ hpc' = "wait"
    /\ stale' = IF answers = <<>> THEN stale ELSE 1
    /\ \/ UNCHANGED answers
       \/ /\ Len(answers) <= MaxLate
          /\ \E ok \in Stats : answers' = Append(answers, [of |-> cur, step |-> step, ok |-> ok])
    /\ UNCHANGED <<queue, cur, step, data, out>>

\* An answer that finds no waiter
Discard ==
    /\ hpc # "wait" /\ answers # <<>>
    /\ answers' = Tail(answers)
    /\ UNCHANGED <<queue, hpc, cur, step, data, stale, out>>

\* All fields go under the name of the last one.
MutCollected(a) == IF Asks(cur)[step] = "set" THEN data ELSE data \cup {<<"rf_cur_low", a>>}

\* i2cset() ignores what it gets, i2cget() takes the value of an answer that
\* has one; inquiry_state_from() takes anything.
HasValue(a) == a.ok = 1 /\ Asks(a.of)[a.step] # "set"
Collected(a) ==
    IF Asks(cur)[step] = "set" \/ (wants[cur] = "rf" /\ ~HasValue(a)) THEN data
    ELSE data \cup {<<Asks(cur)[step], a>>}

\* An inquiry is answered with what came; the state of rf and mf is sent with
\* the fields that could be read.
Finish(d) ==
    IF step < Len(Asks(cur))
    THEN hpc' = "issue" /\ step' = step + 1 /\ data' = d /\ UNCHANGED <<cur, stale, out>>
    ELSE /\ Rest
         /\ out' = IF TypeOf(wants[cur]) # 0 /\ (wants[cur] = "rf" \/ d # {})
                   THEN Append(out, [to |-> cur, type |-> TypeOf(wants[cur]), data |-> d,
                                     stale |-> stale])
                   ELSE out

Answered ==
    /\ hpc = "wait" /\ answers # <<>>
    /\ answers' = Tail(answers)
    /\ Finish(Collected(Head(answers)))
    /\ UNCHANGED queue

TimedOut ==
    /\ hpc = "wait"
    /\ Finish(data)
    /\ UNCHANGED <<queue, answers>>

EventLoop == Take \/ Issue \/ Answered \/ TimedOut

Next ==
    \/ Receive /\ Post /\ UNCHANGED <<wants, loopVars>>
    \/ (EventLoop \/ Discard) /\ UNCHANGED <<recvVars, wants>>

\* The receive thread takes what has arrived, and the event loop goes on.
Spec ==
    /\ RInit /\ [][Next]_vars
    /\ WF_vars(Receive /\ Post /\ UNCHANGED <<wants, loopVars>>)
    /\ WF_vars(EventLoop /\ UNCHANGED <<recvVars, wants>>)

-----------------------------------------------------------------------------
Answer == [of : 0 .. Frames - 1, step : 1 .. Len(RfRequests), ok : {0, 1}]
Fields == {"state", "ad7417_temper", "rf_cur_high", "rf_cur_low"}
OutFrame == [to : 0 .. Frames - 1, type : {TypeOf(k) : k \in Messages},
             data : SUBSET (Fields \X Answer), stale : {0, 1}]

RTypeOK ==
    /\ TypeOK
    /\ wants \in Wants
    /\ queue \in Seq(0 .. Frames - 1)
    /\ hpc \in {"idle", "issue", "wait"}
    /\ cur \in 0 .. Frames - 1 /\ step \in 1 .. Len(Asks(cur))
    /\ hpc # "idle" => wants[cur] \in Messages
    /\ data \in SUBSET (Fields \X Answer) /\ stale \in {0, 1}
    /\ answers \in Seq(Answer)
    /\ out \in Seq(OutFrame)

\* All of d answers a request made for frame n, under the name it asked for.
Own(n, d) == \A x \in d : x[2].of = n /\ Asks(n)[x[2].step] = x[1]

\* The client gets at most one frame per request, of the type that goes with
\* it, in the order of its requests.  What is in the frame was asked for by
\* that very request, under that very name, unless an answer to an older one
\* was still on its way when it was sent: the next request in a quiet moment is
\* answered right again.
RightAnswers ==
    \A k \in 1 .. Len(out) :
        /\ k > 1 => out[k - 1].to < out[k].to
        /\ out[k].type = TypeOf(wants[out[k].to])
        /\ out[k].stale = 0 => Own(out[k].to, out[k].data)

\* Messages are posted, taken and answered in the order of the frames, and what
\* is on its way while no older answer is was asked for by the frame in hand.
InHand ==
    /\ \A i \in 1 .. Len(queue) :
          /\ queue[i] < Len(posted) /\ wants[queue[i]] \in Messages
          /\ \A j \in 1 .. Len(queue) : i < j => queue[i] < queue[j]
          /\ hpc # "idle" => cur < queue[i]
          /\ \A k \in 1 .. Len(out) : out[k].to < queue[i]
    /\ \A k \in 1 .. Len(out) : out[k].to < Len(posted) /\ (hpc # "idle" => out[k].to < cur)
    /\ hpc = "idle" => cur = 0 /\ step = 1 /\ data = {} /\ stale = 0
    /\ hpc # "idle" => cur < Len(posted)
    /\ stale = 0 => Own(cur, data)
    /\ hpc = "wait" /\ stale = 0 =>
          \A i \in 1 .. Len(answers) : answers[i].of = cur /\ answers[i].step = step

\* Every frame of the client is taken out of the stream, and every request that
\* was posted is done with, whatever is lost or late, unless memory was
\* overwritten: the event loop does not wait for a device for ever.
AllHandled ==
    <>(rpc \in Undefined \/ (Len(posted) = Frames /\ queue = <<>> /\ hpc = "idle"))
=============================================================================
