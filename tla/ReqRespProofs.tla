---------------------------- MODULE ReqRespProofs ----------------------------
(* Theorems about ReqResp, for any number of operations and of broken      *)
(* connections.                                                            *)
EXTENDS ReqResp, TLAPS

USE DEF Ops, Up, netVars, cbVars, opVars, waitVars, msgVars, rssiVars, histVars, vars

-----------------------------------------------------------------------------
(* The state of the broker client keeps its types, whatever is lost, late  *)
(* or broken.                                                              *)
THEOREM BrokerTypes == Spec => []TypeOK
<1>1. Init => TypeOK
  BY ReqRespAssumption DEF Init, TypeOK
<1>2. TypeOK /\ [Next]_vars => TypeOK'
  <2> SUFFICES ASSUME TypeOK, [Next]_vars PROVE TypeOK'
    OBVIOUS
  <2> USE ReqRespAssumption
  <2>1. CASE Connect
    BY <2>1 DEF TypeOK, Connect, Begin
  <2>2. CASE Issue
    <3>1. n \in Ops
      BY <2>2 DEF TypeOK, Issue
    <3>2. [n |-> n, kind |-> kind] \in [n : Ops, kind : Kinds \cup {"inquiry", "close"}]
      BY <3>1 DEF TypeOK
    <3>3. /\ reqs' = reqs \cup {[n |-> n, kind |-> kind]} \/ reqs' = reqs
          /\ amid' \in {0, n, amid} /\ acks' \subseteq acks \cup {n}
          /\ subs' \subseteq subs \cup {Topic}
          /\ mpc' \in {"ack", "unack"} /\ ret' \in {ret, "err"} /\ early' \in {early, 1}
          /\ UNCHANGED <<link, connect_stat, losses, cbVars, opVars, smid, buf, freed,
                         cb_list, resps, rssiVars, missed, wrong, refused, status>>
      BY <2>2 DEF Issue
    <3> QED
      BY <3>1, <3>2, <3>3 DEF TypeOK, Topic
  <2>3. CASE WaitAck
    <3>1. CASE Test(amid, "ack", "acksleep", "unack")
      BY <3>1 DEF TypeOK, Test
    <3>2. CASE Return(amid, "acksleep", "unack")
      BY <3>2 DEF TypeOK, Return
    <3> QED
      BY <2>3, <3>1, <3>2 DEF WaitAck
  <2>4. CASE Unack
    BY <2>4 DEF TypeOK, Unack
  <2>5. CASE WaitAnswer
    <3>1. CASE Test(smid, "wait", "waitsleep", "unlist")
      BY <3>1 DEF TypeOK, Test
    <3>2. CASE Return(smid, "waitsleep", "unlist")
      BY <3>2 DEF TypeOK, Return
    <3> QED
      BY <2>5, <3>1, <3>2 DEF WaitAnswer
  <2>6. CASE Unlist
    BY <2>6 DEF TypeOK, Unlist, Freed, RssiState, Switched
  <2>7. CASE Register
    BY <2>7 DEF TypeOK, Register, Begin
  <2>8. ASSUME NEW k \in Kinds, Transfer(k) PROVE TypeOK'
    BY <2>8 DEF TypeOK, Transfer, Begin
  <2>9. CASE Teardown
    BY <2>9 DEF TypeOK, Teardown, Begin
  <2>10. CASE Connected
    BY <2>10 DEF TypeOK, Connected
  <2>11. CASE Lose
    BY <2>11 DEF TypeOK, Lose
  <2>12. CASE Reconnect
    BY <2>12 DEF TypeOK, Reconnect
  <2>13. ASSUME NEW m \in acks, AckArrives(m) PROVE TypeOK'
    BY <2>13 DEF TypeOK, AckArrives
  <2>14. ASSUME NEW m \in resps, AnswerArrives(m) PROVE TypeOK'
    BY <2>14 DEF TypeOK, AnswerArrives
  <2>15. CASE ReportArrives
    BY <2>15 DEF TypeOK, ReportArrives
  <2>16. CASE AckWake
    BY <2>16 DEF TypeOK, AckWake, CbEnd
  <2>17. CASE Fill
    BY <2>17 DEF TypeOK, Fill, OnNewDev
  <2>18. CASE Wake
    BY <2>18 DEF TypeOK, Wake, OnNewDev, CbEnd
  <2>19. CASE Walk
    BY <2>19 DEF TypeOK, Walk, OnNewDev
  <2>20. CASE CbEntry
    BY <2>20 DEF TypeOK, CbEntry, CbEnd
  <2>21. CASE CbCall
    BY <2>21 DEF TypeOK, CbCall, CbEnd
  <2>22. ASSUME NEW r \in reqs, Serve(r) PROVE TypeOK'
    <3>1. r.n \in Ops /\ Switched(r.kind, rfOn) \in {0, 1}
      BY <2>22 DEF TypeOK, Switched
    <3>2. /\ resps' \subseteq Ops /\ reqs' \subseteq reqs
          /\ rfOn' \in {0, 1} /\ refused' \in {0, 1}
      BY <2>22, <3>1 DEF TypeOK, Serve, CarryOut, Refuse
    <3>3. UNCHANGED <<netVars, cbVars, mpc, opVars, ret, waitVars, freed, cb_list, acks,
                      rssi_state, client, early, missed, wrong, status>>
      BY <2>22 DEF Serve
    <3> QED
      BY <3>2, <3>3 DEF TypeOK
  <2>23. ASSUME NEW r \in reqs, Drop(r) PROVE TypeOK'
    BY <2>23 DEF TypeOK, Drop
  <2>24. CASE NewClient
    BY <2>24 DEF TypeOK, NewClient
  <2>25. CASE UNCHANGED vars
    BY <2>25 DEF TypeOK
  <2> QED
    BY <2>1, <2>2, <2>3, <2>4, <2>5, <2>6, <2>7, <2>8, <2>9, <2>10, <2>11, <2>12,
       <2>13, <2>14, <2>15, <2>16, <2>17, <2>18, <2>19, <2>20, <2>21, <2>22, <2>23,
       <2>24, <2>25 DEF Next, MainStep, CallbackStep
<1> QED
  BY <1>1, <1>2, PTL DEF Spec

-----------------------------------------------------------------------------
\* What steps do that put nothing on its way: waits, wake-ups, losses.
Passive ==
    /\ UNCHANGED <<n, op, buf, missed, wrong>>
    /\ reqs' \subseteq reqs
    /\ resps' \subseteq resps
    /\ cbpc' = "fill" => cbpc = "fill" /\ cbmsg' = cbmsg
    /\ SrvListed' <=> SrvListed
    /\ mpc' \in {"connect", "issue"} => mpc' = mpc

(* A passive step keeps the answers in step.                               *)
LEMMA PassiveKeepsStep ==
  ASSUME TypeOK, InStepInv, Passive
  PROVE  InStepInv'
<1>1. \A m : InFlight(m)' => InFlight(m)
  BY DEF Passive, InFlight
<1>2. /\ \A r, s \in reqs' : r.n = s.n => r = s
      /\ \A r \in reqs' : r.n \notin resps' /\ ~(cbpc' = "fill" /\ cbmsg' = r.n)
      /\ ~(cbpc' = "fill" /\ cbmsg' \in resps')
      /\ cbpc' = "fill" => cbmsg' # 0
  BY DEF Passive, InStepInv
<1>3. \A m \in 0..MaxOps : InFlight(m)' =>
          /\ m <= n'
          /\ m = n' => op' = "transfer" /\ mpc' \notin {"connect", "issue"}
  BY <1>1 DEF Passive, InStepInv
<1>4. ASSUME missed' = {}
      PROVE  /\ wrong' = {}
             /\ \A m \in 0..MaxOps : InFlight(m)' => m = n' /\ SrvListed'
             /\ SrvListed' => buf' \in {0, n'}
             /\ SrvListed' /\ buf' # 0 => ~InFlight(n)' /\ mpc' # "issue"
  BY <1>1, <1>4 DEF Passive, InStepInv
<1> QED
  BY <1>2, <1>3, <1>4 DEF InStepInv

(* An operation that starts when nothing is under way keeps them in step.  *)
LEMMA BeginKeepsStep ==
  ASSUME TypeOK, InStepInv, NEW o, NEW k, Begin(o, k), mpc \in {"connect", "idle"},
         UNCHANGED <<missed, wrong, cbVars, reqs, resps>>
  PROVE  InStepInv'
<1>1. n' = n + 1 /\ n \in Nat /\ buf' = 0 /\ mpc' = "issue"
  BY ReqRespAssumption DEF Begin, TypeOK
<1>2. \A m : InFlight(m)' <=> InFlight(m)
  BY DEF InFlight
<1>3. \A m \in 0..MaxOps : InFlight(m)' => m <= n /\ m < n'
  BY <1>1, <1>2, ReqRespAssumption DEF InStepInv
<1>4. ASSUME missed' = {}, NEW m \in 0..MaxOps PROVE ~InFlight(m)'
  BY <1>2, <1>4 DEF InStepInv, SrvListed, AckListed
<1>5. \A m \in 0..MaxOps : InFlight(m)' => m # n' /\ m <= n'
  BY <1>1, <1>3, ReqRespAssumption
<1> QED
  BY <1>1, <1>2, <1>4, <1>5 DEF InStepInv

-----------------------------------------------------------------------------
(* Every step of the main thread, the callbacks, the devices and the       *)
(* network keeps the answers in step.                                      *)
LEMMA StepKeepsStep ==
  ASSUME TypeOK, InStepInv, [Next]_vars
  PROVE  InStepInv'
<1> USE ReqRespAssumption
<1>1. CASE Connect
  <2>1. CASE Begin("listen", "inquiry")
    BY <1>1, <2>1, BeginKeepsStep DEF Connect
  <2>2. CASE UNCHANGED <<mpc, opVars, waitVars>>
    BY <1>1, <2>2, PassiveKeepsStep DEF Connect, Passive, SrvListed, AckListed
  <2> QED
    BY <1>1, <2>1, <2>2 DEF Connect
<1>2. CASE Register
  BY <1>2, BeginKeepsStep DEF Register
<1>3. ASSUME NEW k \in Kinds, Transfer(k) PROVE InStepInv'
  BY <1>3, BeginKeepsStep DEF Transfer
<1>4. CASE Teardown
  <2>1. CASE Begin("transfer", "close")
    BY <1>4, <2>1, BeginKeepsStep DEF Teardown
  <2>2. CASE UNCHANGED <<mpc, opVars, waitVars>>
    BY <1>4, <2>2, PassiveKeepsStep DEF Teardown, Passive, SrvListed, AckListed
  <2> QED
    BY <1>4, <2>1, <2>2 DEF Teardown
<1>5. CASE Issue
  <2>1. CASE link = "up" /\ op = "transfer"
    <3>1. /\ mpc = "issue" /\ mpc' = "ack"
          /\ reqs' = reqs \cup {[n |-> n, kind |-> kind]}
          /\ UNCHANGED <<n, op, buf, missed, wrong, cbVars, resps>>
      BY <1>5, <2>1 DEF Issue
    <3>2. SrvListed /\ SrvListed'
      BY <2>1, <3>1 DEF SrvListed, AckListed
    <3>3. n \in Ops /\ ~InFlight(n)
      BY <3>1 DEF TypeOK, InStepInv
    <3>4. \A m \in 0..MaxOps : InFlight(m)' => InFlight(m) \/ m = n
      <4>1. \A r \in reqs' : r \in reqs \/ r.n = n
        BY <3>1
      <4>2. ASSUME NEW m \in 0..MaxOps, InFlight(m)', m # n PROVE InFlight(m)
        <5>1. CASE \E r \in reqs' : r.n = m
          BY <4>1, <4>2, <5>1 DEF InFlight
        <5> QED
          BY <3>1, <4>2, <5>1 DEF InFlight
      <4> QED
        BY <4>2
    <3>5. /\ \A r, s \in reqs' : r.n = s.n => r = s
          /\ \A r \in reqs' : r.n \notin resps' /\ ~(cbpc' = "fill" /\ cbmsg' = r.n)
          /\ ~(cbpc' = "fill" /\ cbmsg' \in resps')
          /\ cbpc' = "fill" => cbmsg' # 0
      BY <3>1, <3>3 DEF InStepInv, InFlight
    <3>6. \A m \in 0..MaxOps : InFlight(m)' =>
             m <= n' /\ (m = n' => op' = "transfer" /\ mpc' \notin {"connect", "issue"})
      BY <2>1, <3>1, <3>3, <3>4 DEF InStepInv
    <3>7. missed' = {} =>
             /\ wrong' = {}
             /\ \A m \in 0..MaxOps : InFlight(m)' => m = n' /\ SrvListed'
             /\ buf' = 0
      BY <3>1, <3>2, <3>4 DEF InStepInv
    <3> QED
      BY <3>5, <3>6, <3>7 DEF InStepInv
  <2>2. CASE ~(link = "up" /\ op = "transfer")
    BY <1>5, <2>2, PassiveKeepsStep DEF Issue, Passive, SrvListed, AckListed
  <2> QED
    BY <2>1, <2>2
<1>6. CASE WaitAck
  BY <1>6, PassiveKeepsStep DEF WaitAck, Test, Return, Passive, SrvListed, AckListed
<1>7. CASE Unack
  BY <1>7, PassiveKeepsStep DEF Unack, Passive, SrvListed, AckListed
<1>8. CASE WaitAnswer
  BY <1>8, PassiveKeepsStep DEF WaitAnswer, Test, Return, Passive, SrvListed, AckListed
<1>9. CASE Unlist
  <2>1. /\ mpc = "unlist" /\ mpc' = "idle"
        /\ UNCHANGED <<n, op, buf, cbVars, reqs, resps>>
        /\ missed' = IF Used THEN missed ELSE missed \cup {n}
        /\ wrong' = IF Got /\ buf # n THEN wrong \cup {n} ELSE wrong
    BY <1>9 DEF Unlist
  <2>2. \A m : InFlight(m)' <=> InFlight(m)
    BY <2>1 DEF InFlight
  <2>3. ~SrvListed'
    BY <2>1 DEF SrvListed, AckListed
  <2>4. ASSUME missed' = {}
        PROVE  wrong' = {} /\ \A m \in 0..MaxOps : ~InFlight(m)'
    <3>1. missed = {} /\ Used
      BY <2>1, <2>4
    <3>2. buf # 0
      BY <3>1 DEF Used, Got
    <3>3. CASE op = "transfer"
      <4>1. SrvListed
        BY <2>1, <3>3 DEF SrvListed
      <4>2. buf = n /\ ~InFlight(n)
        BY <3>1, <3>2, <4>1 DEF InStepInv
      <4> QED
        BY <2>1, <2>2, <3>1, <4>2 DEF InStepInv
    <3> QED
      BY <2>1, <3>3 DEF TypeOK
  <2> QED
    BY <2>1, <2>2, <2>3, <2>4 DEF InStepInv
<1>10. CASE Connected
  BY <1>10, PassiveKeepsStep DEF Connected, Passive, SrvListed, AckListed
<1>11. CASE Lose
  BY <1>11, PassiveKeepsStep DEF Lose, Passive, SrvListed, AckListed
<1>12. CASE Reconnect
  BY <1>12, PassiveKeepsStep DEF Reconnect, Passive, SrvListed, AckListed
<1>13. ASSUME NEW m \in acks, AckArrives(m) PROVE InStepInv'
  BY <1>13, PassiveKeepsStep DEF AckArrives, Passive, SrvListed, AckListed
<1>14. ASSUME NEW a \in resps, AnswerArrives(a) PROVE InStepInv'
  <2>1. CASE SrvListed
    <3>1. /\ resps' = resps \ {a} /\ cbpc = "idle" /\ cbpc' = "fill" /\ cbmsg' = a
          /\ UNCHANGED <<n, op, mpc, buf, missed, wrong, reqs>>
      BY <1>14, <2>1 DEF AnswerArrives
    <3>2. \A m : InFlight(m)' <=> InFlight(m)
      BY <1>14, <3>1 DEF InFlight
    <3>3. SrvListed' <=> SrvListed
      BY <3>1 DEF SrvListed, AckListed
    <3>4. a # 0
      BY DEF TypeOK
    <3> QED
      BY <3>1, <3>2, <3>3, <3>4 DEF InStepInv
  <2>2. CASE ~SrvListed
    BY <1>14, <2>2, PassiveKeepsStep DEF AnswerArrives, Passive, SrvListed, AckListed
  <2> QED
    BY <2>1, <2>2
<1>15. CASE ReportArrives
  BY <1>15, PassiveKeepsStep DEF ReportArrives, Passive, SrvListed, AckListed
<1>16. CASE AckWake
  BY <1>16, PassiveKeepsStep DEF AckWake, CbEnd, Passive, SrvListed, AckListed
<1>17. CASE Fill
  <2>1. /\ cbpc = "fill" /\ cbpc' = "wake"
        /\ UNCHANGED <<n, op, mpc, missed, wrong, reqs, resps>>
        /\ SrvListed' <=> SrvListed
        /\ buf' = buf \/ (SrvListed /\ buf' = cbmsg)
    BY <1>17 DEF Fill, OnNewDev, SrvListed, AckListed
  <2>2. CASE buf' = buf
    BY <2>1, <2>2, PassiveKeepsStep DEF Passive
  <2>3. CASE SrvListed /\ buf' = cbmsg
    <3>1. InFlight(cbmsg) /\ cbmsg \in 0..MaxOps /\ cbmsg # 0
      BY <2>1 DEF InFlight, InStepInv, TypeOK
    <3>2. \A m : InFlight(m)' => InFlight(m) /\ m # cbmsg
      BY <2>1 DEF InFlight, InStepInv
    <3>3. ASSUME missed' = {}
          PROVE  wrong' = {} /\ buf' = n' /\ ~InFlight(n)' /\ mpc' # "issue"
      BY <2>1, <2>3, <3>1, <3>2, <3>3 DEF InStepInv
    <3> QED
      BY <2>1, <2>3, <3>2, <3>3 DEF InStepInv
  <2> QED
    BY <2>1, <2>2, <2>3
<1>18. CASE Wake
  BY <1>18, PassiveKeepsStep DEF Wake, OnNewDev, CbEnd, Passive, SrvListed, AckListed
<1>19. CASE Walk
  BY <1>19, PassiveKeepsStep DEF Walk, OnNewDev, Passive, SrvListed, AckListed
<1>20. CASE CbEntry
  BY <1>20, PassiveKeepsStep DEF CbEntry, CbEnd, Passive, SrvListed, AckListed
<1>21. CASE CbCall
  BY <1>21, PassiveKeepsStep DEF CbCall, CbEnd, Passive, SrvListed, AckListed
<1>22. ASSUME NEW r \in reqs, Serve(r) PROVE InStepInv'
  <2>1. /\ reqs' = reqs \ {r}
        /\ resps' = resps \cup {r.n} \/ resps' = resps
        /\ UNCHANGED <<n, op, mpc, buf, missed, wrong, cbVars>>
    BY <1>22 DEF Serve
  <2>2. r.n \in Ops /\ InFlight(r.n)
    BY DEF TypeOK, InFlight
  <2>3. \A m : InFlight(m)' => InFlight(m)
    BY <2>1, <2>2 DEF InFlight
  <2>4. SrvListed' <=> SrvListed
    BY <2>1 DEF SrvListed, AckListed
  <2>5. /\ \A q, s \in reqs' : q.n = s.n => q = s
        /\ \A q \in reqs' : q.n \notin resps' /\ ~(cbpc' = "fill" /\ cbmsg' = q.n)
        /\ ~(cbpc' = "fill" /\ cbmsg' \in resps')
        /\ cbpc' = "fill" => cbmsg' # 0
    BY <2>1 DEF InStepInv
  <2> QED
    BY <2>1, <2>3, <2>4, <2>5 DEF InStepInv
<1>23. ASSUME NEW r \in reqs, Drop(r) PROVE InStepInv'
  BY <1>23, PassiveKeepsStep DEF Drop, Passive, SrvListed, AckListed
<1>24. CASE NewClient
  BY <1>24, PassiveKeepsStep DEF NewClient, Passive, SrvListed, AckListed
<1>25. CASE UNCHANGED vars
  BY <1>25, PassiveKeepsStep DEF Passive, SrvListed, AckListed
<1> QED
  BY <1>1, <1>2, <1>3, <1>4, <1>5, <1>6, <1>7, <1>8, <1>9, <1>10, <1>11, <1>12, <1>13,
     <1>14, <1>15, <1>16, <1>17, <1>18, <1>19, <1>20, <1>21, <1>22, <1>23, <1>24, <1>25
     DEF Next, MainStep, CallbackStep

(* The answers stay in step: the inductive invariant holds in every        *)
(* behaviour, for any number of operations and broken connections.         *)
THEOREM AnswersTracked == Spec => []InStepInv
<1>1. Init => InStepInv
  BY DEF Init, InStepInv, InFlight, SrvListed, AckListed
<1>2. TypeOK /\ InStepInv /\ [Next]_vars => InStepInv'
  BY StepKeepsStep
<1> QED
  BY <1>1, <1>2, BrokerTypes, PTL DEF Spec

(* No request gets the answer to another one before a request ended        *)
(* without having used an answer: message_callback() may ignore numbers    *)
(* exactly as long as no request is given up.                              *)
THEOREM NoCrossedAnswers == Spec => []AnswersInStep
<1>1. InStepInv => AnswersInStep
  BY DEF InStepInv, AnswersInStep
<1> QED
  BY <1>1, AnswersTracked, PTL

-----------------------------------------------------------------------------
(* No callback touches memory that is gone before some wait ended early,   *)
(* by a time-out, a spurious return or a request that could not be sent.   *)
THEOREM WalksAreSafeInTime == Spec => []WalkSafeInTime
<1>1. Init => WalkInv
  BY DEF Init, WalkInv
<1>2. TypeOK /\ WalkInv /\ [Next]_vars => WalkInv'
  <2> SUFFICES ASSUME TypeOK, WalkInv, [Next]_vars PROVE WalkInv'
    OBVIOUS
  <2> USE ReqRespAssumption DEF WalkInv
  <2>1. CASE Connect
    BY <2>1 DEF TypeOK, Connect, Begin
  <2>2. CASE Issue
    BY <2>2 DEF TypeOK, Issue
  <2>3. CASE WaitAck
    <3>1. CASE Test(amid, "ack", "acksleep", "unack")
      BY <3>1 DEF TypeOK, Test
    <3>2. CASE Return(amid, "acksleep", "unack")
      BY <3>2 DEF TypeOK, Return
    <3> QED
      BY <2>3, <3>1, <3>2 DEF WaitAck
  <2>4. CASE Unack
    BY <2>4 DEF Unack
  <2>5. CASE WaitAnswer
    <3>1. CASE Test(smid, "wait", "waitsleep", "unlist")
      BY <3>1 DEF TypeOK, Test
    <3>2. CASE Return(smid, "waitsleep", "unlist")
      BY <3>2 DEF TypeOK, Return
    <3> QED
      BY <2>5, <3>1, <3>2 DEF WaitAnswer
  <2>6. CASE Unlist
    BY <2>6 DEF Unlist, Freed
  <2>7. CASE Register
    BY <2>7 DEF Register, Begin
  <2>8. ASSUME NEW k \in Kinds, Transfer(k) PROVE WalkInv'
    BY <2>8 DEF Transfer, Begin
  <2>9. CASE Teardown
    BY <2>9 DEF Teardown, Begin
  <2>10. CASE Connected \/ Lose \/ Reconnect
    BY <2>10 DEF Connected, Lose, Reconnect
  <2>11. ASSUME NEW m \in acks, AckArrives(m) PROVE WalkInv'
    BY <2>11 DEF TypeOK, AckArrives
  <2>12. ASSUME NEW m \in resps, AnswerArrives(m) PROVE WalkInv'
    BY <2>12 DEF AnswerArrives
  <2>13. CASE ReportArrives
    BY <2>13 DEF ReportArrives
  <2>14. CASE AckWake
    BY <2>14 DEF AckWake, CbEnd, AckListed
  <2>15. CASE Fill \/ Wake \/ Walk
    BY <2>15 DEF Fill, Wake, Walk, OnNewDev, CbEnd
  <2>16. CASE CbEntry \/ CbCall
    BY <2>16 DEF CbEntry, CbCall, CbEnd
  <2>17. ASSUME NEW r \in reqs, Serve(r) \/ Drop(r) PROVE WalkInv'
    BY <2>17 DEF Serve, Drop
  <2>18. CASE NewClient \/ UNCHANGED vars
    BY <2>18 DEF NewClient
  <2> QED
    BY <2>1, <2>2, <2>3, <2>4, <2>5, <2>6, <2>7, <2>8, <2>9, <2>10, <2>11, <2>12,
       <2>13, <2>14, <2>15, <2>16, <2>17, <2>18 DEF Next, MainStep, CallbackStep
<1>3. WalkInv => WalkSafeInTime
  BY DEF WalkInv, WalkSafeInTime
<1> QED
  BY <1>1, <1>2, <1>3, BrokerTypes, PTL DEF Spec

-----------------------------------------------------------------------------
(* A passive step that leaves the request and both ends of the stream      *)
(* alone keeps the two ends together.                                      *)
LEMMA PassiveKeepsRssi ==
  ASSUME TypeOK, RssiInv, Passive, UNCHANGED <<kind, rfOn, rssi_state, refused>>
  PROVE  RssiInv'
<1> SUFFICES ASSUME missed' = {} PROVE RssiInv'
  BY DEF RssiInv
<1>1. missed = {} /\ n' = n /\ reqs' \subseteq reqs
  BY DEF Passive
<1>2. Served' => Served
  BY DEF Passive, Served
<1>3. Switched(kind, rssi_state)' = Switched(kind, rssi_state)
  BY DEF Switched
<1> QED
  BY <1>1, <1>2, <1>3 DEF RssiInv, Passive

(* An operation starts with both ends together and nothing in flight.      *)
LEMMA BeginKeepsRssi ==
  ASSUME TypeOK, InStepInv, RssiInv, NEW o, NEW k, Begin(o, k),
         mpc \in {"connect", "idle"},
         UNCHANGED <<missed, refused, cbVars, reqs, resps, rfOn, rssi_state>>
  PROVE  RssiInv'
<1> SUFFICES ASSUME missed = {}, missed' = {} PROVE RssiInv'
  BY DEF RssiInv
<1>1. ~SrvListed /\ (refused = 0 => rfOn = rssi_state)
  BY DEF RssiInv, SrvListed, AckListed, TypeOK
<1>2. \A m \in 0..MaxOps : ~InFlight(m)
  BY <1>1 DEF InStepInv
<1>3. reqs = {} /\ resps = {} /\ ~(cbpc = "fill")
  BY <1>2, ReqRespAssumption DEF InFlight, TypeOK
<1>4. reqs' = {} /\ (refused' = 0 => rfOn' = rssi_state') /\ ~Served'
  BY <1>1, <1>3 DEF Served, Begin
<1> QED
  BY <1>4 DEF RssiInv

(* Every step keeps the recorded state of the stream and the rf process    *)
(* together.                                                               *)
LEMMA StepKeepsRssi ==
  ASSUME TypeOK, InStepInv, RssiInv, [Next]_vars
  PROVE  RssiInv'
<1> USE ReqRespAssumption
<1>1. CASE Connect
  <2>1. CASE Begin("listen", "inquiry")
    BY <1>1, <2>1, BeginKeepsRssi DEF Connect
  <2>2. CASE UNCHANGED <<mpc, opVars, waitVars>>
    BY <1>1, <2>2, PassiveKeepsRssi DEF Connect, Passive, SrvListed, AckListed
  <2> QED
    BY <1>1, <2>1, <2>2 DEF Connect
<1>2. CASE Register
  BY <1>2, BeginKeepsRssi DEF Register
<1>3. ASSUME NEW k \in Kinds, Transfer(k) PROVE RssiInv'
  BY <1>3, BeginKeepsRssi DEF Transfer
<1>4. CASE Teardown
  <2>1. CASE Begin("transfer", "close")
    BY <1>4, <2>1, BeginKeepsRssi DEF Teardown
  <2>2. CASE UNCHANGED <<mpc, opVars, waitVars>>
    BY <1>4, <2>2, PassiveKeepsRssi DEF Teardown, Passive, SrvListed, AckListed
  <2> QED
    BY <1>4, <2>1, <2>2 DEF Teardown
<1>5. CASE Issue
  <2>1. CASE link = "up" /\ op = "transfer"
    <3>1. /\ mpc = "issue" /\ mpc' = "ack"
          /\ reqs' = reqs \cup {[n |-> n, kind |-> kind]}
          /\ UNCHANGED <<n, op, kind, buf, missed, refused, cbVars, resps, rfOn,
                         rssi_state>>
      BY <1>5, <2>1 DEF Issue
    <3>2. SrvListed /\ SrvListed'
      BY <2>1, <3>1 DEF SrvListed, AckListed
    <3>3. n \in Ops /\ ~InFlight(n)
      BY <3>1 DEF TypeOK, InStepInv
    <3>4. \A r \in reqs' : r.n = n => r.kind = kind
      BY <3>1, <3>3 DEF InFlight
    <3>5. missed = {} => ~Served'
      BY <3>1, <3>2, <3>3 DEF InStepInv, InFlight, Served
    <3> QED
      BY <3>1, <3>2, <3>4, <3>5 DEF RssiInv
  <2>2. CASE ~(link = "up" /\ op = "transfer")
    BY <1>5, <2>2, PassiveKeepsRssi DEF Issue, Passive, SrvListed, AckListed
  <2> QED
    BY <2>1, <2>2
<1>6. CASE WaitAck
  BY <1>6, PassiveKeepsRssi DEF WaitAck, Test, Return, Passive, SrvListed, AckListed
<1>7. CASE Unack
  BY <1>7, PassiveKeepsRssi DEF Unack, Passive, SrvListed, AckListed
<1>8. CASE WaitAnswer
  BY <1>8, PassiveKeepsRssi DEF WaitAnswer, Test, Return, Passive, SrvListed, AckListed
<1>9. CASE Unlist
  <2> SUFFICES ASSUME missed' = {} PROVE RssiInv'
    BY DEF RssiInv
  <2>1. /\ mpc = "unlist" /\ mpc' = "idle"
        /\ UNCHANGED <<n, kind, reqs, rfOn, refused>>
        /\ missed = {} /\ Used /\ rssi_state' = RssiState
    BY <1>9 DEF Unlist
  <2>2. SrvListed /\ Served
    BY <2>1 DEF TypeOK, SrvListed, Used, Got, Served
  <2>3. (refused' = 0 => rfOn' = rssi_state') /\ ~SrvListed'
    BY <2>1, <2>2 DEF RssiInv, RssiState, SrvListed, AckListed
  <2> QED
    BY <2>1, <2>3 DEF RssiInv
<1>10. CASE Connected
  BY <1>10, PassiveKeepsRssi DEF Connected, Passive, SrvListed, AckListed
<1>11. CASE Lose
  BY <1>11, PassiveKeepsRssi DEF Lose, Passive, SrvListed, AckListed
<1>12. CASE Reconnect
  BY <1>12, PassiveKeepsRssi DEF Reconnect, Passive, SrvListed, AckListed
<1>13. ASSUME NEW m \in acks, AckArrives(m) PROVE RssiInv'
  BY <1>13, PassiveKeepsRssi DEF AckArrives, Passive, SrvListed, AckListed
<1>14. ASSUME NEW a \in resps, AnswerArrives(a) PROVE RssiInv'
  <2>1. CASE SrvListed
    <3>1. /\ resps' = resps \ {a} /\ cbpc' = "fill" /\ cbmsg' = a
          /\ UNCHANGED <<n, op, kind, mpc, buf, missed, refused, reqs, rfOn, rssi_state>>
      BY <1>14, <2>1 DEF AnswerArrives
    <3>2. (Served' => Served) /\ (SrvListed' <=> SrvListed)
      BY <3>1 DEF Served, SrvListed, AckListed
    <3>3. Switched(kind, rssi_state)' = Switched(kind, rssi_state)
      BY <3>1 DEF Switched
    <3> QED
      BY <3>1, <3>2, <3>3 DEF RssiInv
  <2>2. CASE ~SrvListed
    BY <1>14, <2>2, PassiveKeepsRssi DEF AnswerArrives, Passive, SrvListed, AckListed
  <2> QED
    BY <2>1, <2>2
<1>15. CASE ReportArrives
  BY <1>15, PassiveKeepsRssi DEF ReportArrives, Passive, SrvListed, AckListed
<1>16. CASE AckWake
  BY <1>16, PassiveKeepsRssi DEF AckWake, CbEnd, Passive, SrvListed, AckListed
<1>17. CASE Fill
  <2>1. /\ cbpc = "fill" /\ cbpc' = "wake"
        /\ UNCHANGED <<n, op, kind, mpc, missed, refused, reqs, resps, rfOn, rssi_state>>
        /\ SrvListed' <=> SrvListed
        /\ buf' = buf \/ (SrvListed /\ buf' = cbmsg)
    BY <1>17 DEF Fill, OnNewDev, SrvListed, AckListed
  <2>2. missed = {} => cbmsg = n
    BY <2>1 DEF InStepInv, InFlight, TypeOK
  <2>3. missed = {} => (Served' => Served)
    BY <2>1, <2>2 DEF Served
  <2>4. Switched(kind, rssi_state)' = Switched(kind, rssi_state)
    BY <2>1 DEF Switched
  <2> QED
    BY <2>1, <2>3, <2>4 DEF RssiInv
<1>18. CASE Wake
  BY <1>18, PassiveKeepsRssi DEF Wake, OnNewDev, CbEnd, Passive, SrvListed, AckListed
<1>19. CASE Walk
  BY <1>19, PassiveKeepsRssi DEF Walk, OnNewDev, Passive, SrvListed, AckListed
<1>20. CASE CbEntry
  BY <1>20, PassiveKeepsRssi DEF CbEntry, CbEnd, Passive, SrvListed, AckListed
<1>21. CASE CbCall
  BY <1>21, PassiveKeepsRssi DEF CbCall, CbEnd, Passive, SrvListed, AckListed
<1>22. ASSUME NEW r \in reqs, Serve(r) PROVE RssiInv'
  <2> SUFFICES ASSUME missed = {}, missed' = {} PROVE RssiInv'
    BY <1>22 DEF RssiInv, Serve
  <2>1. /\ reqs' \subseteq reqs
        /\ CarryOut(r) \/ Refuse(r)
        /\ UNCHANGED <<n, op, kind, mpc, rssi_state>>
    BY <1>22 DEF Serve
  <2>2. r.n \in 0..MaxOps /\ InFlight(r.n)
    BY DEF TypeOK, InFlight
  <2>3. r.n = n /\ SrvListed /\ mpc # "issue"
    BY <2>2 DEF InStepInv
  <2>4. r.kind = kind
    BY <2>3 DEF RssiInv
  <2>5. ASSUME refused' = 0 PROVE rfOn' = Switched(kind, rssi_state)
    <3>1. CASE kind = "inquiry"
      <4>1. refused = 0 /\ rfOn' = rfOn
        BY <2>1, <2>4, <2>5, <3>1 DEF CarryOut, Refuse, Switched
      <4> QED
        BY <3>1, <4>1 DEF RssiInv, Switched
    <3>2. CASE kind # "inquiry"
      <4>1. CarryOut(r)
        BY <2>1, <2>4, <2>5, <3>2 DEF Refuse
      <4>2. kind \in {"on", "off", "close"}
        BY <3>2 DEF TypeOK
      <4> QED
        BY <2>4, <4>1, <4>2 DEF CarryOut, Switched
    <3> QED
      BY <3>1, <3>2
  <2>6. SrvListed' /\ Switched(kind, rssi_state)' = Switched(kind, rssi_state)
    BY <2>1, <2>3 DEF SrvListed, AckListed, Switched
  <2>7. \A q \in reqs' : q.n = n => q.kind = kind
    BY <2>1 DEF RssiInv
  <2> QED
    BY <2>1, <2>3, <2>5, <2>6, <2>7 DEF RssiInv
<1>23. ASSUME NEW r \in reqs, Drop(r) PROVE RssiInv'
  BY <1>23, PassiveKeepsRssi DEF Drop, Passive, SrvListed, AckListed
<1>24. CASE NewClient
  BY <1>24, PassiveKeepsRssi DEF NewClient, Passive, SrvListed, AckListed
<1>25. CASE UNCHANGED vars
  BY <1>25, PassiveKeepsRssi DEF Passive, SrvListed, AckListed
<1> QED
  BY <1>1, <1>2, <1>3, <1>4, <1>5, <1>6, <1>7, <1>8, <1>9, <1>10, <1>11, <1>12, <1>13,
     <1>14, <1>15, <1>16, <1>17, <1>18, <1>19, <1>20, <1>21, <1>22, <1>23, <1>24, <1>25
     DEF Next, MainStep, CallbackStep

(* rssi_state, which close_rssi() trusts, tells whether the rf process     *)
(* publishes whenever no request is under way and the last request to      *)
(* switch it was carried out, however many were refused before, as long as *)
(* every request ended with an answer that was used.                       *)
THEOREM RssiStateRight == Spec => []RssiAgrees
<1>1. Init => RssiInv
  BY DEF Init, RssiInv, Served, SrvListed, AckListed
<1>2. TypeOK /\ InStepInv /\ RssiInv /\ [Next]_vars => RssiInv'
  BY StepKeepsRssi
<1>3. TypeOK /\ RssiInv => RssiAgrees
  BY DEF RssiInv, RssiAgrees, SrvListed, AckListed, TypeOK
<1> QED
  BY <1>1, <1>2, <1>3, BrokerTypes, AnswersTracked, PTL DEF Spec

-----------------------------------------------------------------------------
(* Every step keeps what init_broker() has set up, until a connection      *)
(* breaks.                                                                 *)
LEMMA ListenStep == ListenInv /\ TypeOK /\ [Next]_vars => ListenInv'
<1> SUFFICES ASSUME ListenInv, TypeOK, [Next]_vars, losses' = 0
             PROVE  /\ link' # "down" /\ (connect_stat' = "ok" => link' = "up")
                    /\ mpc' # "connect" => connect_stat' = "ok"
                    /\ mpc' # "connect" /\ ~(mpc' = "issue" /\ op' = "listen")
                          => "respond" \in subs'
  BY DEF ListenInv
<1>1. losses = 0 /\ ~Lose
  <2>1. losses' \in {losses, losses + 1}
    BY DEF Next, MainStep, CallbackStep, Connect, Issue, WaitAck, WaitAnswer, Test, Return, Unack,
           Unlist, Register, Transfer, Teardown, Connected, Lose, Reconnect, AckArrives, AckWake,
           AnswerArrives, Fill, Wake, Walk, OnNewDev, ReportArrives, CbEntry, CbCall, Serve,
           Drop, NewClient
  <2> QED BY <2>1, ReqRespAssumption DEF TypeOK, Lose
<1>2. /\ link # "down" /\ (connect_stat = "ok" => link = "up")
      /\ mpc # "connect" => connect_stat = "ok"
      /\ mpc # "connect" /\ ~(mpc = "issue" /\ op = "listen") => "respond" \in subs
  BY <1>1 DEF ListenInv
<1>3. CASE Connect
  BY <1>2, <1>3 DEF Connect, Begin
<1>4. CASE Issue
  <2>1. link = "up" /\ connect_stat = "ok"
    BY <1>2, <1>4 DEF Issue
  <2>2. op = "listen" => "respond" \in subs'
    BY <1>4, <2>1 DEF Issue, Topic
  <2> QED BY <1>2, <1>4, <2>1, <2>2 DEF Issue
<1>5. CASE Register \/ (\E k \in Kinds : Transfer(k)) \/ Teardown
  BY <1>2, <1>5 DEF Register, Transfer, Teardown, Begin
<1>6. CASE Connected \/ Reconnect
  BY <1>2, <1>6 DEF Connected, Reconnect
<1>7. CASE WaitAck \/ WaitAnswer \/ Unack \/ Unlist
  BY <1>2, <1>7 DEF WaitAck, WaitAnswer, Test, Return, Unack, Unlist
<1>8. CASE UNCHANGED <<link, connect_stat, subs, mpc, op>>
  BY <1>2, <1>8
<1>9. (\E m \in acks : AckArrives(m)) \/ (\E m \in resps : AnswerArrives(m)) \/ ReportArrives
      \/ CallbackStep \/ (\E r \in reqs : Serve(r) \/ Drop(r)) \/ NewClient \/ UNCHANGED vars
      => UNCHANGED <<link, connect_stat, subs, mpc, op>>
  BY DEF CallbackStep, AckArrives, AckWake, AnswerArrives, Fill, Wake, Walk, OnNewDev,
         ReportArrives, CbEntry, CbCall, Serve, Drop, NewClient
<1> QED BY <1>1, <1>3, <1>4, <1>5, <1>6, <1>7, <1>8, <1>9 DEF Next, MainStep

(* devAdapter gets the answers to its requests until the connection to the *)
(* broker breaks for the first time.                                       *)
THEOREM ListeningUntilLoss == Spec => []ListensUntilLoss
<1>1. Init => ListenInv
  BY DEF Init, ListenInv
<1>2. ListenInv => ListensUntilLoss
  BY DEF ListenInv, ListensUntilLoss, Listening
<1> QED
  BY <1>1, <1>2, ListenStep, BrokerTypes, PTL DEF Spec

(* From then on it gets none, for good: the one subscription to the        *)
(* answers is in init_broker(), and connect_callback() does not repeat it. *)
THEOREM DeafForGood == Spec => [](Deaf => []Deaf)
<1>1. Deaf /\ [Next]_vars => Deaf'
  <2> SUFFICES ASSUME Deaf, [Next]_vars PROVE Deaf'
    OBVIOUS
  <2>1. ~Connect
    BY DEF Connect, Deaf
  <2>2. CASE Issue
    BY <2>2 DEF Issue, Topic, Deaf
  <2>3. CASE Register \/ (\E k \in Kinds : Transfer(k)) \/ Teardown
    BY <2>3 DEF Register, Transfer, Teardown, Begin, Deaf
  <2>4. CASE Connected \/ Reconnect \/ Lose
    BY <2>4 DEF Connected, Reconnect, Lose, Deaf
  <2>5. CASE WaitAck \/ WaitAnswer \/ Unack \/ Unlist
    BY <2>5 DEF WaitAck, WaitAnswer, Test, Return, Unack, Unlist, Deaf
  <2>6. (\E m \in acks : AckArrives(m)) \/ (\E m \in resps : AnswerArrives(m)) \/ ReportArrives
        \/ CallbackStep \/ (\E r \in reqs : Serve(r) \/ Drop(r)) \/ NewClient \/ UNCHANGED vars
        => UNCHANGED <<subs, mpc, op>>
    BY DEF CallbackStep, AckArrives, AckWake, AnswerArrives, Fill, Wake, Walk, OnNewDev,
           ReportArrives, CbEntry, CbCall, Serve, Drop, NewClient
  <2> QED BY <2>1, <2>2, <2>3, <2>4, <2>5, <2>6 DEF Next, MainStep, Deaf
<1> QED
  BY <1>1, PTL DEF Spec
=============================================================================
