---------------------------- MODULE MonitorProofs ----------------------------
(***************************************************************************)
(* Proofs about Monitor: its types, that a program it started is in the    *)
(* table or was told to end (NothingLeft), and that the table is true to   *)
(* the processes while they run (EntryTruthful).                           *)
(***************************************************************************)
EXTENDS Monitor, TLAPS

\* A pid that process_mon() got is of nobody any more.
Bodies == \A t \in Reapers : \A c \in Children : hand[t] = c => proc[c] = "gone"

\* The entries that run_actions() has not come to have no process.
NotYet(c) ==
    \/ mpc \in {"init", "mon", "sender", "reap"}
    \/ mpc = "run" /\ act <= c
    \/ mpc \in {"born", "late", "stillborn"} /\ act < c
Forked ==
    /\ mpc \in {"init", "mon", "sender", "reap"} => act = 1
    /\ \A c \in Children : NotYet(c) => proc[c] = "none"

\* kill_all() leaves no entry with a process behind.
Cleared ==
    /\ mpc = "kill" => \A c \in Children : c < act => entry[c] # 1
    /\ mpc \in {"last", "clean", "ended"} => \A c \in Children : entry[c] # 1

LeftInv == Bodies /\ Forked /\ Cleared /\ NothingLeft

\* Where the programs are started, and where they run.
Starting == {"init", "mon", "sender", "reap", "run", "born"}
Running == {"wait", "get"}

\* While the programs are started the other threads wait; while they run, the
\* mon thread waits for any child only as long as all entries have a process.
Quiet ==
    /\ mpc \in Starting \cup Running => idx["main"] = 0 /\ cancel = {}
    /\ mpc \in Starting =>
          /\ st_m = "init" \/ st_m = "exit"
          /\ npc = "none" \/ npc = "wait"
          /\ spc = "none" \/ spc = "wait"
          /\ proc[Shell] = "none"
Started ==
    /\ mpc = "run" => \A c \in Children : c < act => entry[c] = 1
    /\ mpc = "born" => \A c \in Children : c <= act => entry[c] = 1
Marking == idx["mon"] > 0 => npc = "mark"
Fresh == \A c \in Children : entry[c] = 1
Waiting ==
    mpc \in Running =>
        /\ \/ Fresh
           \/ npc = "mark" /\ found["mon"] = 1
           \/ (npc = "wait" \/ npc = "none") /\ st_m # "fork"
        /\ idx["mon"] > 0 => \A c \in Children : c >= idx["mon"] => entry[c] = 1
TruthInv == Quiet /\ Started /\ Marking /\ Waiting /\ EntryTruthful

-----------------------------------------------------------------------------
\* The steps, one by one.
LEMMA Steps ==
    ASSUME [Next]_vars
    PROVE  \/ \E p \in Procs : Die(p)
           \/ \E t \in Reapers : Mark(t)
           \/ Prepare \/ CreateMon \/ CreateSender \/ ReapNow \/ Fork \/ WaitBorn \/ KillProcess
           \/ SetFork \/ WaitExit \/ GetExit \/ CancelThreads \/ Join \/ Close \/ KillOne \/ Clean
           \/ MonWait \/ MonGet \/ MonReap \/ MonMarked \/ MonCancelled
           \/ SendWait \/ Check \/ Command \/ System \/ Transferred
           \/ SetDone \/ GiveUp \/ SendCancelled
           \/ client_born \/ client_exception
           \/ UNCHANGED vars
  BY DEF Next, MainThread, MonThread, SendThread, Reapers

LEMMA ThreadsKeep ==
    ASSUME TypeOK, [Next]_vars PROVE ThreadsOK'
  <1> USE DEF TypeOK, ThreadsOK, reapVars, sendVars
  <1>1. ASSUME NEW p \in Procs, Die(p) PROVE ThreadsOK'
    BY <1>1 DEF Die
  <1>2. ASSUME NEW t \in Reapers, Mark(t) PROVE ThreadsOK'
    BY <1>2 DEF Mark
  <1>3. CASE Prepare \/ CreateMon \/ CreateSender \/ ReapNow \/ Fork
    BY <1>3 DEF Prepare, CreateMon, CreateSender, ReapNow, Fork, Main
  <1>4. CASE WaitBorn \/ KillProcess \/ SetFork \/ WaitExit \/ GetExit
    BY <1>4 DEF WaitBorn, KillProcess, SetFork, WaitExit, GetExit, Main
  <1>5. CASE CancelThreads \/ Join \/ Close \/ KillOne \/ Clean
    BY <1>5 DEF CancelThreads, Join, Close, KillOne, Clean, Main
  <1>6. CASE MonWait \/ MonGet \/ MonReap \/ MonMarked \/ MonCancelled
    BY <1>6 DEF MonWait, MonGet, MonReap, MonMarked, MonCancelled
  <1>7. CASE SendWait \/ Check \/ Command \/ System \/ Transferred
    BY <1>7 DEF SendWait, Check, Command, System, Transferred
  <1>8. CASE SetDone \/ GiveUp \/ SendCancelled
    BY <1>8 DEF SetDone, GiveUp, SendCancelled
  <1>9. CASE client_born \/ client_exception \/ UNCHANGED vars
    BY <1>9 DEF client_born, client_exception, vars
  <1> QED BY <1>1, <1>2, <1>3, <1>4, <1>5, <1>6, <1>7, <1>8, <1>9, Steps

\* The steps whose entry, command or process has to be in range.
LEMMA WaitBornTable ==
    ASSUME TableOK, WaitBorn PROVE TableOK'
  <1>1. mpc = "born" /\ born' = 0 /\ UNCHANGED <<entry, proc, told>>
    BY DEF WaitBorn, Main
  <1>2. (mpc' = "run" /\ act' = act + 1) \/ act' = act
    BY DEF WaitBorn, Main
  <1>3. act \in 1 .. N + 1 /\ act <= N
    BY <1>1 DEF TableOK
  <1>4. act' \in 1 .. N + 1 /\ (mpc' # "run" => act' <= N)
    BY <1>2, <1>3, MonitorAssumption
  <1>5. (mpc \in {"born", "late", "stillborn"} => act <= N)'
    BY <1>4
  <1> QED BY <1>1, <1>4, <1>5 DEF TableOK

LEMMA KillProcessTable ==
    ASSUME TableOK, KillProcess PROVE TableOK'
  <1>1. mpc = "stillborn" /\ mpc' = "exit3" /\ UNCHANGED <<act, proc, born>>
        /\ entry' = [entry EXCEPT ![act] = -1]
    BY DEF KillProcess, Main
  <1>2. told' = told \cup {act} \/ told' = told
    BY DEF KillProcess
  <1>3. act \in Children
    BY <1>1, MonitorAssumption DEF TableOK, Children
  <1>4. told' \subseteq Children
    BY <1>2, <1>3 DEF TableOK
  <1>5. entry' \in [Children -> {-1, 0, 1}]
    BY <1>1, <1>3 DEF TableOK
  <1> QED BY <1>1, <1>4, <1>5 DEF TableOK

LEMMA CloseTable ==
    ASSUME TableOK, Close PROVE TableOK'
  <1>1. mpc' = "kill" /\ act' = 1 /\ UNCHANGED <<entry, proc, told, born>>
    BY DEF Close, Main
  <1>2. act' \in 1 .. N + 1
    BY <1>1, MonitorAssumption
  <1> QED BY <1>1, <1>2 DEF TableOK

LEMMA KillOneTable ==
    ASSUME TableOK, KillOne PROVE TableOK'
  <1>1. act \in Children /\ act' = act + 1 /\ UNCHANGED <<proc, born>>
    BY MonitorAssumption DEF TableOK, KillOne, Children
  <1>2. mpc' = "last" \/ mpc' = "kill"
    BY DEF KillOne, Main
  <1>3. /\ told' = told \cup {act} \/ told' = told
        /\ entry' = [entry EXCEPT ![act] = -1] \/ entry' = entry
    BY DEF KillOne
  <1>4. act' \in 1 .. N + 1
    BY <1>1, MonitorAssumption DEF Children
  <1>5. told' \subseteq Children /\ entry' \in [Children -> {-1, 0, 1}]
    BY <1>1, <1>3 DEF TableOK
  <1>6. ~(mpc' \in {"born", "late", "stillborn"})
    BY <1>2
  <1> QED BY <1>1, <1>4, <1>5, <1>6 DEF TableOK

LEMMA WaitAnyReapers ==
    ASSUME ReapersOK, NEW t \in Reapers, NEW options \in {"WNOHANG", "block"}, WaitAny(t, options)
    PROVE  ReapersOK'
  <1>1. found' = [found EXCEPT ![t] = 0]
    BY DEF WaitAny
  <1>2. \/ hand' = hand /\ idx' = idx
        \/ \E p \in Procs : hand' = [hand EXCEPT ![t] = p] /\ idx' = [idx EXCEPT ![t] = 1]
    BY DEF WaitAny, Zombies
  <1>3. 1 \in 0 .. N /\ \A p \in Procs : p \in -1 .. N
    BY MonitorAssumption DEF Procs, Children, Shell
  <1> QED BY <1>1, <1>2, <1>3 DEF ReapersOK

LEMMA MarkReapers ==
    ASSUME ReapersOK, NEW t \in Reapers, Mark(t) PROVE ReapersOK'
  <1>1. idx[t] > 0 /\ hand' = hand /\ (found' = [found EXCEPT ![t] = 1] \/ found' = found)
    BY DEF Mark
  <1>2. idx' = [idx EXCEPT ![t] = IF idx[t] = N THEN 0 ELSE idx[t] + 1]
    BY DEF Mark
  <1>3. idx[t] \in 0 .. N
    BY DEF ReapersOK
  <1>4. (IF idx[t] = N THEN 0 ELSE idx[t] + 1) \in 0 .. N
    BY <1>3, MonitorAssumption
  <1> QED BY <1>1, <1>2, <1>4 DEF ReapersOK

LEMMA CommandSender ==
    ASSUME SenderOK, Command PROVE SenderOK'
  <1>1. run' = run /\ try' = try /\ Len(run) \in Nat
    BY MonitorAssumption DEF Command, SenderOK
  <1>2. CASE cmd > Len(run)
    <2>1. (spc' = "done" \/ spc' = "check") /\ cmd' = cmd /\ ret' = ret
      BY <1>2 DEF Command, Sender
    <2> QED BY <1>1, <2>1 DEF SenderOK
  <1>3. CASE ~(cmd > Len(run))
    <2>3. cmd \in 1 .. Len(run) /\ cmd + 1 \in 1 .. Len(run) + 1
      BY <1>1, <1>3 DEF SenderOK
    <2>1. (cmd' = cmd \/ (cmd' = cmd + 1 /\ spc' = "send")) /\ (ret' = ret \/ ret' = -1)
      BY <1>3, <2>3 DEF Command, Sender
    <2>2. spc' = "system" \/ spc' = "send" \/ spc' = "file" \/ spc' = "states"
      BY <1>3 DEF Command, Sender
    <2>4. ret' \in {-1, 0}
      BY <2>1 DEF SenderOK
    <2>5. cmd' \in 1 .. Len(run') + 1 /\ (spc' # "send" => cmd' <= Len(run'))
      BY <1>1, <2>1, <2>3
    <2> QED BY <1>1, <2>2, <2>4, <2>5 DEF SenderOK
  <1> QED BY <1>2, <1>3

LEMMA TransferredSender ==
    ASSUME SenderOK, Transferred PROVE SenderOK'
  <1>1. run' = run /\ try' = try /\ (ret' = 0 \/ ret' = -1)
    BY DEF Transferred
  <1>2. spc = "file" \/ spc = "states"
    BY DEF Transferred
  <1>3. Len(run) \in Nat /\ cmd \in 1 .. Len(run)
    BY <1>2, MonitorAssumption DEF SenderOK
  <1>4. \/ (spc' = "states" \/ spc' = "check") /\ cmd' = cmd
        \/ spc' = "send" /\ cmd' = cmd + 1
    BY <1>3 DEF Transferred
  <1>5. cmd' \in 1 .. Len(run') + 1 /\ (spc' # "send" => cmd' <= Len(run'))
    BY <1>1, <1>3, <1>4
  <1> QED BY <1>1, <1>4, <1>5 DEF SenderOK

LEMMA TableKeeps ==
    ASSUME TypeOK, [Next]_vars PROVE TableOK'
  <1> USE MonitorAssumption
      DEF TypeOK, TableOK, ReapersOK, Children, Procs, Shell, Reapers, reapVars, sendVars
  <1>1. ASSUME NEW p \in Procs, Die(p) PROVE TableOK'
    BY <1>1 DEF Die
  <1>2. ASSUME NEW t \in Reapers, Mark(t) PROVE TableOK'
    BY <1>2 DEF Mark, Reap, Zombies
  <1>3. CASE Prepare \/ CreateMon \/ CreateSender
    BY <1>3 DEF Prepare, CreateMon, CreateSender, Main
  <1>4. CASE ReapNow
    BY <1>4 DEF ReapNow, WaitAny, Reap, Zombies, Main
  <1>5. CASE Fork
    BY <1>5 DEF Fork, Main
  <1>6. CASE WaitBorn
    BY <1>6, WaitBornTable
  <1>7. CASE KillProcess
    BY <1>7, KillProcessTable
  <1>8. CASE SetFork \/ WaitExit \/ GetExit
    BY <1>8 DEF SetFork, WaitExit, GetExit, Main
  <1>9. CASE CancelThreads \/ Join \/ Clean
    BY <1>9 DEF CancelThreads, Join, Clean, Main
  <1>10. CASE Close \/ KillOne
    BY <1>10, CloseTable, KillOneTable
  <1>11. CASE MonWait \/ MonGet \/ MonMarked \/ MonCancelled
    BY <1>11 DEF MonWait, MonGet, MonMarked, MonCancelled
  <1>12. CASE MonReap
    BY <1>12 DEF MonReap, WaitAny, Reap, Zombies
  <1>13. CASE SendWait \/ Check \/ Transferred \/ SetDone \/ GiveUp \/ SendCancelled
    BY <1>13 DEF SendWait, Check, Transferred, SetDone, GiveUp, SendCancelled
  <1>14. CASE Command \/ System
    BY <1>14 DEF Command, System, Reap
  <1>15. CASE client_born \/ client_exception \/ UNCHANGED vars
    BY <1>15 DEF client_born, client_exception, vars
  <1> QED
    BY <1>1, <1>2, <1>3, <1>4, <1>5, <1>6, <1>7, <1>8, <1>9, <1>10, <1>11, <1>12, <1>13, <1>14,
       <1>15, Steps

LEMMA ReapersKeep ==
    ASSUME TypeOK, [Next]_vars PROVE ReapersOK'
  <1> USE MonitorAssumption DEF TypeOK, ReapersOK, reapVars, sendVars
  <1>1. ASSUME NEW t \in Reapers, NEW options \in {"WNOHANG", "block"}, WaitAny(t, options)
        PROVE  ReapersOK'
    BY <1>1, WaitAnyReapers
  <1>2. ASSUME NEW t \in Reapers, Mark(t) PROVE ReapersOK'
    BY <1>2, MarkReapers
  <1>3. CASE ReapNow \/ MonReap
    BY <1>1, <1>3 DEF ReapNow, MonReap, Reapers
  <1>4. CASE MonCancelled
    <2>1. idx' = [idx EXCEPT !["mon"] = 0] /\ hand' = hand /\ found' = found
      BY <1>4 DEF MonCancelled
    <2>2. 0 \in 0 .. N /\ idx \in [Reapers -> 0 .. N]
      OBVIOUS
    <2>3. idx' \in [Reapers -> 0 .. N]
      BY <2>1, <2>2
    <2> QED BY <2>1, <2>3
  <1>5. CASE UNCHANGED reapVars
    BY <1>5
  <1>6. ASSUME NEW p \in Procs, Die(p) PROVE UNCHANGED reapVars
    BY <1>6 DEF Die
  <1>7. CASE Prepare \/ CreateMon \/ CreateSender \/ Fork \/ WaitBorn \/ KillProcess \/ SetFork
    BY <1>7 DEF Prepare, CreateMon, CreateSender, Fork, WaitBorn, KillProcess, SetFork
  <1>8. CASE WaitExit \/ GetExit \/ CancelThreads \/ Join \/ Close \/ KillOne \/ Clean
    BY <1>8 DEF WaitExit, GetExit, CancelThreads, Join, Close, KillOne, Clean
  <1>9. CASE MonWait \/ MonGet \/ MonMarked \/ SendWait \/ Check \/ Command \/ System
    BY <1>9 DEF MonWait, MonGet, MonMarked, SendWait, Check, Command, System
  <1>10. CASE Transferred \/ SetDone \/ GiveUp \/ SendCancelled
    BY <1>10 DEF Transferred, SetDone, GiveUp, SendCancelled
  <1>11. CASE client_born \/ client_exception \/ UNCHANGED vars
    BY <1>11 DEF client_born, client_exception, vars
  <1> QED BY <1>2, <1>3, <1>4, <1>5, <1>6, <1>7, <1>8, <1>9, <1>10, <1>11, Steps

LEMMA SenderKeeps ==
    ASSUME TypeOK, [Next]_vars PROVE SenderOK'
  <1> USE MonitorAssumption DEF TypeOK, SenderOK, reapVars, sendVars
  <1>1. Len(run) \in Nat
    OBVIOUS
  <1>2. ASSUME NEW p \in Procs, Die(p) PROVE UNCHANGED sendVars
    BY <1>2 DEF Die
  <1>3. ASSUME NEW t \in Reapers, Mark(t) PROVE UNCHANGED sendVars
    BY <1>3 DEF Mark
  <1>4. CASE UNCHANGED sendVars
    BY <1>4
  <1>5. CASE CreateSender
    BY <1>5 DEF CreateSender
  <1>6. CASE SendWait \/ SetDone \/ GiveUp \/ SendCancelled
    BY <1>6 DEF SendWait, SetDone, GiveUp, SendCancelled, Sender
  <1>7. CASE Check
    BY <1>1, <1>7 DEF Check, Sender
  <1>8. CASE Command
    BY <1>8, CommandSender
  <1>9. CASE System
    BY <1>1, <1>9 DEF System, Sender
  <1>10. CASE Transferred
    BY <1>10, TransferredSender
  <1>11. CASE Prepare \/ CreateMon \/ ReapNow \/ Fork \/ WaitBorn \/ KillProcess \/ SetFork
    BY <1>11 DEF Prepare, CreateMon, ReapNow, Fork, WaitBorn, KillProcess, SetFork
  <1>12. CASE WaitExit \/ GetExit \/ CancelThreads \/ Join \/ Close \/ KillOne \/ Clean
    BY <1>12 DEF WaitExit, GetExit, CancelThreads, Join, Close, KillOne, Clean
  <1>13. CASE MonWait \/ MonGet \/ MonReap \/ MonMarked \/ MonCancelled
    BY <1>13 DEF MonWait, MonGet, MonReap, MonMarked, MonCancelled
  <1>14. CASE client_born \/ client_exception \/ UNCHANGED vars
    BY <1>14 DEF client_born, client_exception, vars
  <1> QED
    BY <1>2, <1>3, <1>4, <1>5, <1>6, <1>7, <1>8, <1>9, <1>10, <1>11, <1>12, <1>13, <1>14, Steps

\* The variables have their types, the entry of mark_terminated() and that of
\* run_actions() are in the table, and send_cmd2dev() is at one of its commands.
THEOREM MonitorTypes == Spec => []TypeOK
  <1>1. Init => TypeOK
    <2> SUFFICES ASSUME Init PROVE TypeOK
      OBVIOUS
    <2>1. ThreadsOK
      BY DEF Init, ThreadsOK
    <2>2. TableOK
      BY MonitorAssumption DEF Init, TableOK, Children, Procs, Shell
    <2>3. ReapersOK
      BY MonitorAssumption DEF Init, ReapersOK
    <2>4. SenderOK
      BY MonitorAssumption DEF Init, SenderOK
    <2> QED BY <2>1, <2>2, <2>3, <2>4 DEF TypeOK
  <1>2. TypeOK /\ [Next]_vars => TypeOK'
    BY ThreadsKeep, TableKeeps, ReapersKeep, SenderKeeps DEF TypeOK
  <1> QED BY <1>1, <1>2, PTL DEF Spec

-----------------------------------------------------------------------------
\* No step but vfork() makes a child, and none revives one.
LEMMA NoRevival ==
    ASSUME TypeOK, [Next]_vars, ~Fork
    PROVE  \A c \in Children :
              proc'[c] = proc[c] \/ (proc[c] # "none" /\ proc'[c] \in {"zombie", "gone"}
                               /\ (proc[c] = "gone" => proc'[c] = "gone"))
  <1> USE DEF TypeOK, TableOK, Children, Procs, Shell
  <1>1. ASSUME NEW p \in Procs, Die(p)
        PROVE  proc[p] = "alive" /\ proc' = [proc EXCEPT ![p] = "zombie"]
    BY <1>1 DEF Die
  <1>2. ASSUME NEW t \in Reapers, Mark(t)
        PROVE  \/ proc' = proc
               \/ \E p \in Procs : proc[p] = "zombie" /\ proc' = [proc EXCEPT ![p] = "gone"]
    BY <1>2 DEF Mark, Reap, Zombies
  <1>3. CASE ReapNow \/ MonReap
    BY <1>3 DEF ReapNow, MonReap, WaitAny, Reap, Zombies
  <1>4. CASE Command
    BY <1>4, MonitorAssumption DEF Command
  <1>5. CASE System
    BY <1>5, MonitorAssumption DEF System, Reap
  <1>6. CASE proc' = proc
    BY <1>6
  <1>7. CASE Prepare \/ CreateMon \/ CreateSender \/ WaitBorn \/ KillProcess \/ SetFork
    BY <1>7 DEF Prepare, CreateMon, CreateSender, WaitBorn, KillProcess, SetFork
  <1>8. CASE WaitExit \/ GetExit \/ CancelThreads \/ Join \/ Close \/ KillOne \/ Clean
    BY <1>8 DEF WaitExit, GetExit, CancelThreads, Join, Close, KillOne, Clean
  <1>9. CASE MonWait \/ MonGet \/ MonMarked \/ MonCancelled \/ SendWait \/ Check
    BY <1>9 DEF MonWait, MonGet, MonMarked, MonCancelled, SendWait, Check
  <1>10. CASE Transferred \/ SetDone \/ GiveUp \/ SendCancelled
    BY <1>10 DEF Transferred, SetDone, GiveUp, SendCancelled
  <1>11. CASE client_born \/ client_exception \/ UNCHANGED vars
    BY <1>11 DEF client_born, client_exception, vars
  <1> QED BY <1>1, <1>2, <1>3, <1>4, <1>5, <1>6, <1>7, <1>8, <1>9, <1>10, <1>11, Steps

\* An entry loses its process when that has ended or is told to.
LEMMA EntryChanges ==
    ASSUME TypeOK, Bodies, [Next]_vars, ~Fork
    PROVE  /\ told \subseteq told'
           /\ \A c \in Children :
                 entry'[c] # entry[c] =>
                     entry'[c] = -1 /\ (entry[c] = 1 => c \in told' \/ proc[c] # "alive")
  <1> USE DEF TypeOK, TableOK
  <1>1. ASSUME NEW t \in Reapers, Mark(t)
        PROVE  /\ told' = told
               /\ \A c \in Children :
                     entry'[c] # entry[c] => entry'[c] = -1 /\ (entry[c] = 1 => proc[c] # "alive")
    <2>1. idx[t] \in Children /\ told' = told
      BY <1>1, MonitorAssumption DEF Mark, ReapersOK, Children
    <2>2. CASE Marks(idx[t], hand[t])
      <3>1. entry' = [entry EXCEPT ![idx[t]] = -1]
        BY <1>1, <2>2 DEF Mark
      <3>2. entry[idx[t]] = 1 => proc[idx[t]] # "alive"
        BY <2>1, <2>2 DEF Marks, Bodies
      <3> QED BY <2>1, <3>1, <3>2
    <2>3. CASE ~Marks(idx[t], hand[t])
      BY <1>1, <2>1, <2>3 DEF Mark
    <2> QED BY <2>2, <2>3
  <1>2. CASE KillProcess
    <2>1. mpc = "stillborn" /\ entry' = [entry EXCEPT ![act] = -1]
          /\ told' = (IF entry[act] = 1 THEN told \cup {act} ELSE told)
      BY <1>2 DEF KillProcess, Main
    <2> QED BY <2>1
  <1>3. CASE KillOne
    BY <1>3 DEF KillOne
  <1>4. CASE entry' = entry /\ told' = told
    BY <1>4
  <1>5. ASSUME NEW p \in Procs, Die(p) PROVE entry' = entry /\ told' = told
    BY <1>5 DEF Die
  <1>6. CASE Prepare \/ CreateMon \/ CreateSender \/ ReapNow \/ WaitBorn \/ SetFork \/ WaitExit
    BY <1>6 DEF Prepare, CreateMon, CreateSender, ReapNow, WaitBorn, SetFork, WaitExit
  <1>7. CASE GetExit \/ CancelThreads \/ Join \/ Close \/ Clean
    BY <1>7 DEF GetExit, CancelThreads, Join, Close, Clean
  <1>8. CASE MonWait \/ MonGet \/ MonReap \/ MonMarked \/ MonCancelled \/ SendWait \/ Check
    BY <1>8 DEF MonWait, MonGet, MonReap, MonMarked, MonCancelled, SendWait, Check
  <1>9. CASE Command \/ System \/ Transferred \/ SetDone \/ GiveUp \/ SendCancelled
    BY <1>9 DEF Command, System, Transferred, SetDone, GiveUp, SendCancelled
  <1>10. CASE client_born \/ client_exception \/ UNCHANGED vars
    BY <1>10 DEF client_born, client_exception, vars
  <1> QED BY <1>1, <1>2, <1>3, <1>4, <1>5, <1>6, <1>7, <1>8, <1>9, <1>10, Steps

LEMMA BodiesKeep ==
    ASSUME TypeOK, Bodies, Forked, [Next]_vars PROVE Bodies'
  <1> USE DEF Bodies
  <1>1. CASE Fork
    <2>1. \A t \in Reapers : hand'[t] = hand[t] /\ hand[t] # act
      <3>1. mpc = "run" /\ act \in Children
        BY <1>1, MonitorAssumption DEF Fork, Main, TypeOK, TableOK, Children
      <3>2. proc[act] = "none"
        BY <3>1, MonitorAssumption DEF Forked, NotYet, Children
      <3> QED BY <1>1, <3>1, <3>2 DEF Fork, reapVars
    <2>2. \A c \in Children : c # act => proc'[c] = proc[c]
      BY <1>1 DEF Fork, TypeOK, TableOK, Procs
    <2> QED BY <2>1, <2>2
  <1>2. ASSUME ~Fork, hand' = hand PROVE Bodies'
    BY <1>2, NoRevival
  <1>3. ASSUME NEW t \in Reapers, NEW options \in {"WNOHANG", "block"}, WaitAny(t, options), ~Fork
        PROVE  Bodies'
    <2>1. \/ hand' = hand
          \/ \E p \in Procs : hand' = [hand EXCEPT ![t] = p] /\ proc' = [proc EXCEPT ![p] = "gone"]
      BY <1>3 DEF WaitAny, Zombies, Reap
    <2>2. ASSUME NEW p \in Procs, hand' = [hand EXCEPT ![t] = p], proc' = [proc EXCEPT ![p] = "gone"]
          PROVE  Bodies'
      <3>1. hand \in [Reapers -> -1 .. N] /\ proc \in [Procs -> {"none", "alive", "zombie", "gone"}]
        BY DEF TypeOK, TableOK, ReapersOK
      <3>2. \A c \in Children : c \in Procs
        BY DEF Procs
      <3> QED BY <2>2, <3>1, <3>2
    <2> QED BY <1>2, <1>3, <2>1, <2>2
  <1>4. CASE (ReapNow \/ MonReap) /\ ~Fork
    BY <1>3, <1>4 DEF ReapNow, MonReap, Reapers
  <1>5. ASSUME NEW p \in Procs, Die(p) PROVE hand' = hand
    BY <1>5 DEF Die, reapVars
  <1>6. ASSUME NEW t \in Reapers, Mark(t) PROVE hand' = hand
    BY <1>6 DEF Mark
  <1>7. CASE Prepare \/ CreateMon \/ CreateSender \/ WaitBorn \/ KillProcess \/ SetFork \/ WaitExit
    <2>1. hand' = hand
      BY <1>7 DEF Prepare, CreateMon, CreateSender, WaitBorn, KillProcess, SetFork, WaitExit, reapVars
    <2> QED BY <1>1, <1>2, <2>1
  <1>8. CASE GetExit \/ CancelThreads \/ Join \/ Close \/ KillOne \/ Clean
    <2>1. hand' = hand
      BY <1>8 DEF GetExit, CancelThreads, Join, Close, KillOne, Clean, reapVars
    <2> QED BY <1>1, <1>2, <2>1
  <1>9. CASE MonWait \/ MonGet \/ MonMarked \/ MonCancelled \/ SendWait \/ Check \/ Command
    <2>1. hand' = hand
      BY <1>9 DEF MonWait, MonGet, MonMarked, MonCancelled, SendWait, Check, Command, reapVars
    <2> QED BY <1>1, <1>2, <2>1
  <1>10. CASE System \/ Transferred \/ SetDone \/ GiveUp \/ SendCancelled
    <2>1. hand' = hand
      BY <1>10 DEF System, Transferred, SetDone, GiveUp, SendCancelled, reapVars
    <2> QED BY <1>1, <1>2, <2>1
  <1>11. CASE client_born \/ client_exception \/ UNCHANGED vars
    <2>1. hand' = hand
      BY <1>11 DEF client_born, client_exception, vars, reapVars
    <2> QED BY <1>1, <1>2, <2>1
  <1> QED
    BY <1>1, <1>2, <1>4, <1>5, <1>6, <1>7, <1>8, <1>9, <1>10, <1>11, Steps

\* Only its own steps move the main thread, and no step but Fork brings it to
\* where it waits for a birth.
LEMMA MainMoves ==
    ASSUME [Next]_vars
    PROVE  \/ mpc' = mpc /\ act' = act
           \/ Prepare \/ CreateMon \/ CreateSender \/ ReapNow \/ Fork \/ WaitBorn \/ KillProcess
           \/ SetFork \/ WaitExit \/ GetExit \/ CancelThreads \/ Join \/ Close \/ KillOne \/ Clean
  <1>1. ASSUME NEW p \in Procs, Die(p) PROVE mpc' = mpc /\ act' = act
    BY <1>1 DEF Die
  <1>2. ASSUME NEW t \in Reapers, Mark(t) PROVE mpc' = mpc /\ act' = act
    BY <1>2 DEF Mark
  <1>3. CASE MonWait \/ MonGet \/ MonReap \/ MonMarked \/ MonCancelled \/ SendWait \/ Check
    BY <1>3 DEF MonWait, MonGet, MonReap, MonMarked, MonCancelled, SendWait, Check
  <1>4. CASE Command \/ System \/ Transferred \/ SetDone \/ GiveUp \/ SendCancelled
    BY <1>4 DEF Command, System, Transferred, SetDone, GiveUp, SendCancelled
  <1>5. CASE client_born \/ client_exception \/ UNCHANGED vars
    BY <1>5 DEF client_born, client_exception, vars
  <1> QED BY <1>1, <1>2, <1>3, <1>4, <1>5, Steps

LEMMA ForkedKeeps ==
    ASSUME TypeOK, Forked, [Next]_vars PROVE Forked'
  <1>1. act \in Nat /\ \A c \in Children : c \in Nat /\ c >= 1
    BY MonitorAssumption DEF TypeOK, TableOK, Children
  <1>2. ASSUME ~Fork, \A c \in Children : NotYet(c)' => NotYet(c),
               mpc' \in {"init", "mon", "sender", "reap"} => act' = 1
        PROVE  Forked'
    BY <1>2, NoRevival DEF Forked
  <1>3. CASE Fork
    <2>1. /\ mpc = "run" /\ act' = act /\ (mpc' = "born" \/ mpc' = "exit3")
          /\ (proc' = [proc EXCEPT ![act] = "alive"] \/ proc' = proc)
      BY <1>3 DEF Fork, Main
    <2>2. \A c \in Children : NotYet(c)' => NotYet(c) /\ c # act
      BY <1>1, <2>1 DEF NotYet
    <2>3. \A c \in Children : c # act => proc'[c] = proc[c]
      BY <2>1 DEF TypeOK, TableOK, Procs
    <2> QED BY <2>1, <2>2, <2>3 DEF Forked
  <1>4. CASE ~Fork
    <2>1. CASE mpc' = mpc /\ act' = act
      BY <1>2, <1>4, <2>1 DEF NotYet, Forked
    <2>2. CASE Prepare \/ CreateMon \/ CreateSender
      <3>1. /\ act' = act
            /\ mpc \in {"init", "mon", "sender"}
            /\ mpc' \in {"mon", "sender", "reap", "close", "kill"}
        BY <2>2 DEF Prepare, CreateMon, CreateSender, Main
      <3> QED BY <1>2, <1>4, <3>1 DEF NotYet, Forked
    <2>3. CASE ReapNow
      <3>1. /\ act' = act
            /\ mpc = "reap" \/ mpc = "late" \/ mpc = "last"
            /\ mpc = "reap" => mpc' = "run"
            /\ mpc = "late" => mpc' = "stillborn"
            /\ mpc = "last" => mpc' = "clean"
        BY <2>3 DEF ReapNow, Main
      <3> QED BY <1>2, <1>4, <3>1 DEF NotYet, Forked
    <2>4. CASE WaitBorn
      <3>1. /\ mpc = "born"
            /\ (mpc' = "run" /\ act' = act + 1) \/ (mpc' = "late" /\ act' = act)
        BY <2>4 DEF WaitBorn, Main
      <3> QED BY <1>1, <1>2, <1>4, <3>1 DEF NotYet
    <2>5. CASE KillProcess \/ SetFork \/ WaitExit \/ GetExit \/ CancelThreads
      <3>1. mpc' \in {"exit3", "wait", "get", "join"}
        BY <2>5 DEF KillProcess, SetFork, WaitExit, GetExit, CancelThreads, Main
      <3> QED BY <1>2, <1>4, <3>1 DEF NotYet
    <2>6. CASE Join \/ Close \/ KillOne \/ Clean
      <3>1. mpc' \in {"close", "kill", "last", "ended"}
        BY <2>6 DEF Join, Close, KillOne, Clean, Main
      <3> QED BY <1>2, <1>4, <3>1 DEF NotYet
    <2> QED BY <1>4, <2>1, <2>2, <2>3, <2>4, <2>5, <2>6, MainMoves
  <1> QED BY <1>3, <1>4

LEMMA ClearedKeeps ==
    ASSUME TypeOK, Bodies, Forked, Cleared, [Next]_vars PROVE Cleared'
  <1>1. act \in Nat /\ \A c \in Children : c \in Nat /\ 1 <= c /\ c <= N
    BY MonitorAssumption DEF TypeOK, TableOK, Children
  <1>2. CASE Fork
    BY <1>2 DEF Fork, Main, Cleared
  <1>3. ASSUME ~Fork PROVE \A c \in Children : entry[c] # 1 => entry'[c] # 1
    BY <1>3, EntryChanges
  <1>4. ASSUME ~Fork, mpc' \notin {"kill", "last", "clean", "ended"} PROVE Cleared'
    BY <1>4 DEF Cleared
  <1>5. CASE ~Fork
    <2>1. CASE mpc' = mpc /\ act' = act
      BY <1>3, <1>5, <2>1 DEF Cleared
    <2>2. CASE Prepare
      <3>1. mpc = "init" /\ act' = act /\ mpc' \in {"mon", "close", "kill"}
        BY <2>2 DEF Prepare, Main
      <3> QED BY <1>1, <3>1 DEF Cleared, Forked
    <2>3. CASE CreateMon \/ CreateSender \/ WaitBorn \/ KillProcess \/ SetFork
      <3>1. mpc' \in {"sender", "reap", "close", "run", "late", "exit3", "wait"}
        BY <2>3 DEF CreateMon, CreateSender, WaitBorn, KillProcess, SetFork, Main
      <3> QED BY <1>4, <1>5, <3>1
    <2>4. CASE WaitExit \/ GetExit \/ CancelThreads \/ Join
      <3>1. mpc' \in {"get", "exit3", "wait", "join", "close"}
        BY <2>4 DEF WaitExit, GetExit, CancelThreads, Join, Main
      <3> QED BY <1>4, <1>5, <3>1
    <2>5. CASE ReapNow
      <3>1. mpc' = "clean" => mpc = "last"
        BY <2>5 DEF ReapNow, Main
      <3>2. mpc' \in {"run", "stillborn", "clean"}
        BY <2>5 DEF ReapNow, Main
      <3> QED BY <1>3, <1>5, <3>1, <3>2 DEF Cleared
    <2>6. CASE Close
      <3>1. mpc' = "kill" /\ act' = 1
        BY <2>6 DEF Close, Main
      <3> QED BY <1>1, <3>1 DEF Cleared
    <2>7. CASE KillOne
      <3>1. /\ mpc = "kill" /\ act \in Children /\ act' = act + 1
            /\ (mpc' = "last" /\ act = N) \/ mpc' = "kill"
        BY <1>1, <2>7, MonitorAssumption DEF KillOne, Main, TypeOK, TableOK, Children
      <3>2. \A c \in Children : c < act => entry'[c] # 1
        BY <1>3, <1>5, <3>1 DEF Cleared
      <3>3. entry'[act] # 1
        BY <2>7, <3>1 DEF KillOne, TypeOK, TableOK
      <3>4. \A c \in Children : c < act + 1 => entry'[c] # 1
        BY <1>1, <3>2, <3>3
      <3>5. act = N => \A c \in Children : entry'[c] # 1
        BY <1>1, <3>4
      <3> QED BY <3>1, <3>4, <3>5 DEF Cleared
    <2>8. CASE Clean
      <3>1. mpc = "clean" /\ mpc' = "ended"
        BY <2>8 DEF Clean, Main
      <3> QED BY <1>3, <1>5, <3>1 DEF Cleared
    <2> QED BY <1>5, <2>1, <2>2, <2>3, <2>4, <2>5, <2>6, <2>7, <2>8, MainMoves
  <1> QED BY <1>2, <1>5

LEMMA NothingLeftKeeps ==
    ASSUME TypeOK, LeftInv, Cleared', [Next]_vars PROVE NothingLeft'
  <1> USE DEF LeftInv
  <1>1. CASE Fork
    <2>1. act \in Children /\ mpc = "run" /\ told' = told /\ mpc' # "ended"
      BY <1>1, MonitorAssumption DEF Fork, Main, TypeOK, TableOK, Children
    <2>2. proc[act] = "none"
      BY <2>1, MonitorAssumption DEF Forked, NotYet, Children
    <2>3. \A c \in Children : c # act => proc'[c] = proc[c] /\ entry'[c] = entry[c]
      BY <1>1 DEF Fork, TypeOK, TableOK, Procs
    <2>4. entry'[act] = 1 \/ proc'[act] = proc[act]
      BY <1>1, <2>1 DEF Fork, TypeOK, TableOK
    <2> QED BY <2>1, <2>2, <2>3, <2>4 DEF NothingLeft
  <1>2. CASE ~Fork
    <2> SUFFICES ASSUME NEW c \in Children, proc'[c] = "alive", entry'[c] # 1 \/ mpc' = "ended"
                 PROVE  c \in told'
      BY DEF NothingLeft
    <2>1. proc[c] = "alive"
      BY <1>2, NoRevival
    <2>2. entry'[c] # 1
      BY DEF Cleared
    <2>3. CASE entry[c] # 1
      BY <1>2, <2>1, <2>3, EntryChanges DEF NothingLeft
    <2>4. CASE entry[c] = 1
      BY <1>2, <2>1, <2>2, <2>4, EntryChanges
    <2> QED BY <2>3, <2>4
  <1> QED BY <1>1, <1>2

\* A program that runs is in the table or was told to end, on every path of
\* main() and whatever the threads do meanwhile: the monitor leaves none behind.
THEOREM NoneLeftBehind == Spec => []NothingLeft
  <1>1. Init => LeftInv
    <2> SUFFICES ASSUME Init PROVE LeftInv
      OBVIOUS
    <2>1. \A c \in Children : proc[c] = "none" /\ c # -1
      BY MonitorAssumption DEF Init, Procs, Children
    <2>2. mpc = "init" /\ act = 1 /\ \A t \in Reapers : hand[t] = -1
      BY DEF Init
    <2> QED BY <2>1, <2>2 DEF LeftInv, Bodies, Forked, Cleared, NothingLeft
  <1>2. TypeOK /\ LeftInv /\ [Next]_vars => LeftInv'
    BY BodiesKeep, ForkedKeeps, ClearedKeeps, NothingLeftKeeps DEF LeftInv
  <1>3. LeftInv => NothingLeft
    BY DEF LeftInv
  <1> QED BY <1>1, <1>2, <1>3, MonitorTypes, PTL DEF Spec

-----------------------------------------------------------------------------
\* The mon and send threads have no step while the programs are started.
LEMMA StartSteps ==
    ASSUME Quiet, Marking, [Next]_vars, mpc \in Starting
    PROVE  \/ \E p \in Procs : Die(p)
           \/ Prepare \/ CreateMon \/ CreateSender \/ ReapNow \/ Fork \/ WaitBorn \/ SetFork
           \/ client_born \/ client_exception \/ UNCHANGED vars
  <1>1. /\ idx["main"] = 0 /\ cancel = {} /\ ~(idx["mon"] > 0)
        /\ st_m # "fork" /\ (npc = "none" \/ npc = "wait") /\ (spc = "none" \/ spc = "wait")
    BY DEF Quiet, Marking
  <1>2. ASSUME NEW t \in Reapers, Mark(t) PROVE FALSE
    BY <1>1, <1>2 DEF Mark, Reapers
  <1>3. ASSUME KillProcess \/ WaitExit \/ GetExit \/ CancelThreads \/ Join \/ Close \/ KillOne \/ Clean
        PROVE  FALSE
    BY <1>3 DEF KillProcess, WaitExit, GetExit, CancelThreads, Join, Close, KillOne, Clean, Main,
                Starting
  <1>4. ASSUME MonWait \/ MonGet \/ MonReap \/ MonMarked \/ MonCancelled PROVE FALSE
    BY <1>1, <1>4 DEF MonWait, MonGet, MonReap, MonMarked, MonCancelled
  <1>5. ASSUME SendWait \/ Check \/ Command \/ System \/ Transferred PROVE FALSE
    BY <1>1, <1>5 DEF SendWait, Check, Command, System, Transferred, Sender
  <1>6. ASSUME SetDone \/ GiveUp \/ SendCancelled PROVE FALSE
    BY <1>1, <1>6 DEF SetDone, GiveUp, SendCancelled, Sender
  <1> QED BY <1>2, <1>3, <1>4, <1>5, <1>6, Steps

\* The main thread only waits while they run.
LEMMA RunSteps ==
    ASSUME Quiet, Marking, [Next]_vars, mpc \in Running
    PROVE  \/ \E p \in Procs : Die(p)
           \/ Mark("mon") /\ npc = "mark"
           \/ WaitExit \/ GetExit \/ MonWait \/ MonGet \/ MonReap \/ MonMarked
           \/ SendWait \/ Check \/ Command \/ System \/ Transferred \/ SetDone \/ GiveUp
           \/ client_born \/ client_exception \/ UNCHANGED vars
  <1>1. idx["main"] = 0 /\ cancel = {}
    BY DEF Quiet
  <1>2. ASSUME NEW t \in Reapers, Mark(t) PROVE Mark("mon") /\ npc = "mark"
    <2>1. idx[t] > 0
      BY <1>2 DEF Mark
    <2>2. t = "mon"
      BY <1>1, <2>1 DEF Reapers
    <2> QED BY <1>2, <2>1, <2>2 DEF Marking
  <1>3. ASSUME Prepare \/ CreateMon \/ CreateSender \/ ReapNow \/ Fork \/ WaitBorn \/ KillProcess
        PROVE  FALSE
    BY <1>3 DEF Prepare, CreateMon, CreateSender, ReapNow, Fork, WaitBorn, KillProcess, Main, Running
  <1>4. ASSUME SetFork \/ CancelThreads \/ Join \/ Close \/ KillOne \/ Clean PROVE FALSE
    BY <1>4 DEF SetFork, CancelThreads, Join, Close, KillOne, Clean, Main, Running
  <1>5. ASSUME MonCancelled \/ SendCancelled PROVE FALSE
    BY <1>1, <1>5 DEF MonCancelled, SendCancelled
  <1> QED BY <1>2, <1>3, <1>4, <1>5, Steps

\* There is no way back to the start, and one way to where the programs run.
LEMMA NoWayBack ==
    ASSUME [Next]_vars
    PROVE  /\ mpc' \in Starting => mpc \in Starting
           /\ mpc' \in Running => mpc \in Running \/ SetFork
  <1> USE DEF Starting, Running
  <1>1. CASE mpc' = mpc
    BY <1>1
  <1>2. CASE Prepare \/ CreateMon \/ CreateSender \/ ReapNow
    BY <1>2 DEF Prepare, CreateMon, CreateSender, ReapNow, Main
  <1>3. CASE Fork \/ WaitBorn \/ KillProcess \/ SetFork
    BY <1>3 DEF Fork, WaitBorn, KillProcess, SetFork, Main
  <1>4. CASE WaitExit \/ GetExit \/ CancelThreads \/ Join
    BY <1>4 DEF WaitExit, GetExit, CancelThreads, Join, Main
  <1>5. CASE Close \/ KillOne \/ Clean
    BY <1>5 DEF Close, KillOne, Clean, Main
  <1> QED BY <1>1, <1>2, <1>3, <1>4, <1>5, MainMoves

LEMMA MarkingKeeps ==
    ASSUME TypeOK, Quiet, Marking, [Next]_vars PROVE Marking'
  <1> USE DEF Marking
  <1>1. ASSUME idx'["mon"] = idx["mon"], npc' = npc \/ npc # "mark" PROVE Marking'
    BY <1>1
  <1>2. ASSUME NEW p \in Procs, Die(p) PROVE Marking'
    BY <1>2 DEF Die, reapVars
  <1>3. ASSUME NEW t \in Reapers, Mark(t) PROVE Marking'
    <2>1. npc' = npc /\ idx[t] > 0
      BY <1>3 DEF Mark
    <2>2. t = "main" => idx'["mon"] = idx["mon"]
      BY <1>3 DEF Mark, TypeOK, ReapersOK, Reapers
    <2> QED BY <2>1, <2>2 DEF Reapers
  <1>4. CASE CreateMon
    <2>1. mpc = "mon" /\ idx' = idx
      BY <1>4 DEF CreateMon, Main, reapVars
    <2>2. npc # "mark"
      BY <2>1 DEF Quiet, Starting
    <2> QED BY <1>1, <2>1, <2>2
  <1>5. CASE ReapNow
    <2>1. npc' = npc /\ idx'["mon"] = idx["mon"]
      BY <1>5 DEF ReapNow, WaitAny, TypeOK, ReapersOK, Reapers
    <2> QED BY <1>1, <2>1
  <1>6. CASE Prepare \/ CreateSender \/ Fork \/ WaitBorn \/ KillProcess \/ SetFork
    BY <1>6 DEF Prepare, CreateSender, Fork, WaitBorn, KillProcess, SetFork, reapVars
  <1>7. CASE WaitExit \/ GetExit \/ CancelThreads \/ Join \/ Close \/ KillOne \/ Clean
    BY <1>7 DEF WaitExit, GetExit, CancelThreads, Join, Close, KillOne, Clean, reapVars
  <1>8. CASE MonWait \/ MonGet \/ MonMarked
    <2>1. idx' = idx /\ (npc # "mark" \/ idx["mon"] = 0)
      BY <1>8 DEF MonWait, MonGet, MonMarked, reapVars
    <2> QED BY <2>1
  <1>9. CASE MonReap
    BY <1>9 DEF MonReap
  <1>10. CASE MonCancelled
    <2>1. idx'["mon"] = 0
      BY <1>10 DEF MonCancelled, TypeOK, ReapersOK, Reapers
    <2> QED BY <2>1
  <1>11. CASE SendWait \/ Check \/ Command \/ System \/ Transferred
    BY <1>11 DEF SendWait, Check, Command, System, Transferred, reapVars
  <1>12. CASE SetDone \/ GiveUp \/ SendCancelled \/ client_born \/ client_exception
    BY <1>12 DEF SetDone, GiveUp, SendCancelled, client_born, client_exception, reapVars
  <1>13. CASE UNCHANGED vars
    BY <1>13 DEF vars, reapVars
  <1> QED
    BY <1>2, <1>3, <1>4, <1>5, <1>6, <1>7, <1>8, <1>9, <1>10, <1>11, <1>12, <1>13, Steps

LEMMA QuietKeeps ==
    ASSUME TypeOK, Forked, Quiet, Marking, [Next]_vars PROVE Quiet'
  <1> DEFINE Alone == idx["main"] = 0 /\ cancel = {}
             Others == /\ st_m = "init" \/ st_m = "exit"
                       /\ npc = "none" \/ npc = "wait"
                       /\ spc = "none" \/ spc = "wait"
                       /\ proc[Shell] = "none"
  <1>1. CASE mpc \in Starting
    <2>1. Alone /\ Others
      BY <1>1 DEF Quiet
    <2>2. ASSUME Alone', Others' \/ mpc' \notin Starting PROVE Quiet'
      BY <2>2 DEF Quiet
    <2>3. ASSUME NEW p \in Procs, Die(p) PROVE Quiet'
      <3>1. proc[p] = "alive" /\ proc' = [proc EXCEPT ![p] = "zombie"]
        BY <2>3 DEF Die
      <3>2. proc'[Shell] = "none"
        BY <2>1, <3>1 DEF TypeOK, TableOK, Procs
      <3> QED BY <2>1, <2>2, <2>3, <3>2 DEF Die, reapVars, sendVars
    <2>4. CASE Prepare \/ CreateMon \/ CreateSender
      BY <2>1, <2>2, <2>4 DEF Prepare, CreateMon, CreateSender, reapVars, sendVars
    <2>5. CASE ReapNow
      <3>1. mpc = "reap" /\ UNCHANGED <<st_m, npc, cancel, sendVars>>
        BY <1>1, <2>5 DEF ReapNow, Main, Starting
      <3>2. Zombies = {}
        BY <2>1, <3>1 DEF Zombies, Procs, Forked, NotYet
      <3>3. UNCHANGED <<proc, idx>>
        BY <2>5, <3>2 DEF ReapNow, WaitAny
      <3> QED BY <2>1, <2>2, <3>1, <3>3 DEF sendVars
    <2>6. CASE Fork
      <3>1. act # Shell
        BY MonitorAssumption DEF TypeOK, TableOK, Shell
      <3>2. proc'[Shell] = proc[Shell]
        BY <2>6, <3>1 DEF Fork, TypeOK, TableOK, Procs
      <3> QED BY <2>1, <2>2, <2>6, <3>2 DEF Fork, reapVars, sendVars
    <2>7. CASE WaitBorn
      BY <2>1, <2>2, <2>7 DEF WaitBorn, reapVars, sendVars
    <2>8. CASE SetFork
      <3>1. mpc' \notin Starting
        BY <2>8 DEF SetFork, Main, Starting
      <3> QED BY <2>1, <2>2, <2>8, <3>1 DEF SetFork, reapVars
    <2>9. CASE client_born \/ client_exception
      BY <2>1, <2>2, <2>9 DEF client_born, client_exception, reapVars, sendVars
    <2>10. CASE UNCHANGED vars
      BY <2>1, <2>2, <2>10 DEF vars, reapVars, sendVars
    <2> QED BY <1>1, <2>3, <2>4, <2>5, <2>6, <2>7, <2>8, <2>9, <2>10, StartSteps
  <1>2. CASE mpc \in Running
    <2>1. Alone
      BY <1>2 DEF Quiet
    <2>2. mpc' \notin Starting
      BY <1>2, NoWayBack DEF Starting, Running
    <2>3. ASSUME Alone' PROVE Quiet'
      BY <2>2, <2>3 DEF Quiet
    <2>4. ASSUME NEW p \in Procs, Die(p) PROVE Quiet'
      BY <2>1, <2>3, <2>4 DEF Die, reapVars
    <2>5. CASE Mark("mon")
      BY <2>1, <2>3, <2>5 DEF Mark, TypeOK, ReapersOK, Reapers
    <2>6. CASE MonReap
      BY <2>1, <2>3, <2>6 DEF MonReap, WaitAny, TypeOK, ReapersOK, Reapers
    <2>7. CASE WaitExit \/ GetExit \/ MonWait \/ MonGet \/ MonMarked
      BY <2>1, <2>3, <2>7 DEF WaitExit, GetExit, MonWait, MonGet, MonMarked, reapVars
    <2>8. CASE SendWait \/ Check \/ Command \/ System \/ Transferred \/ SetDone \/ GiveUp
      BY <2>1, <2>3, <2>8 DEF SendWait, Check, Command, System, Transferred, SetDone, GiveUp, reapVars
    <2>9. CASE client_born \/ client_exception \/ UNCHANGED vars
      BY <2>1, <2>3, <2>9 DEF client_born, client_exception, vars, reapVars
    <2> QED BY <1>2, <2>4, <2>5, <2>6, <2>7, <2>8, <2>9, RunSteps
  <1>3. CASE mpc \notin Starting \cup Running
    <2>1. mpc' \notin Starting \cup Running
      <3>1. ~SetFork
        BY <1>3 DEF SetFork, Main, Starting
      <3> QED BY <1>3, <3>1, NoWayBack
    <2> QED BY <2>1 DEF Quiet
  <1> QED BY <1>1, <1>2, <1>3

LEMMA StartedKeeps ==
    ASSUME TypeOK, Forked, Quiet, Marking, Started, [Next]_vars PROVE Started'
  <1>1. act \in Nat /\ \A c \in Children : c \in Nat /\ c >= 1
    BY MonitorAssumption DEF TypeOK, TableOK, Children
  <1>2. CASE mpc \in Starting
    <2>1. CASE UNCHANGED <<mpc, act, entry>>
      BY <2>1 DEF Started
    <2>2. ASSUME NEW p \in Procs, Die(p) PROVE UNCHANGED <<mpc, act, entry>>
      BY <2>2 DEF Die
    <2>3. CASE Prepare \/ CreateMon \/ CreateSender \/ SetFork
      <3>1. mpc' # "run" /\ mpc' # "born"
        BY <2>3 DEF Prepare, CreateMon, CreateSender, SetFork, Main
      <3> QED BY <3>1 DEF Started
    <2>4. CASE ReapNow
      <3>1. mpc = "reap" /\ mpc' = "run" /\ act' = act
        BY <1>2, <2>4 DEF ReapNow, Main, Starting
      <3> QED BY <1>1, <3>1 DEF Started, Forked
    <2>5. CASE Fork
      <3>1. /\ mpc = "run" /\ act' = act
            /\ mpc' = "exit3" \/ (mpc' = "born" /\ entry' = [entry EXCEPT ![act] = 1])
        BY <2>5 DEF Fork, Main
      <3>2. mpc' = "born" => \A c \in Children : c <= act => entry'[c] = 1
        BY <1>1, <3>1 DEF Started, TypeOK, TableOK
      <3> QED BY <3>1, <3>2 DEF Started
    <2>6. CASE WaitBorn
      <3>1. mpc = "born" /\ entry' = entry /\ (mpc' = "late" \/ (mpc' = "run" /\ act' = act + 1))
        BY <2>6 DEF WaitBorn, Main
      <3>2. mpc' = "run" => \A c \in Children : c < act' => entry'[c] = 1
        BY <1>1, <3>1 DEF Started
      <3> QED BY <3>1, <3>2 DEF Started
    <2>7. CASE client_born \/ client_exception \/ UNCHANGED vars
      BY <2>1, <2>7 DEF client_born, client_exception, vars
    <2> QED BY <1>2, <2>1, <2>2, <2>3, <2>4, <2>5, <2>6, <2>7, StartSteps
  <1>3. CASE mpc \notin Starting
    <2>1. mpc' \notin Starting
      BY <1>3, NoWayBack
    <2> QED BY <2>1 DEF Started, Starting
  <1> QED BY <1>2, <1>3

LEMMA WaitingKeeps ==
    ASSUME TypeOK, Quiet, Started, Marking, Waiting, [Next]_vars PROVE Waiting'
  <1> DEFINE Known == \/ Fresh
                      \/ npc = "mark" /\ found["mon"] = 1
                      \/ (npc = "wait" \/ npc = "none") /\ st_m # "fork"
             Ahead == idx["mon"] > 0 => \A c \in Children : c >= idx["mon"] => entry[c] = 1
  <1>1. ASSUME mpc' \in Running => Known' /\ Ahead' PROVE Waiting'
    BY <1>1 DEF Waiting
  <1>2. CASE SetFork
    <2>1. mpc = "run" /\ act > N /\ entry' = entry
      BY <1>2 DEF SetFork, Main
    <2>2. Fresh'
      BY <2>1, MonitorAssumption DEF Started, Fresh, Children, TypeOK, TableOK
    <2> QED BY <1>1, <2>2 DEF Fresh
  <1>3. CASE mpc \in Running
    <2>1. Known /\ Ahead
      BY <1>3 DEF Waiting
    <2>2. ASSUME UNCHANGED <<entry, idx, found, npc>>, st_m' = st_m \/ st_m' # "fork"
          PROVE  Waiting'
      BY <1>1, <2>1, <2>2 DEF Fresh
    <2>3. ASSUME NEW p \in Procs, Die(p) PROVE Waiting'
      BY <2>2, <2>3 DEF Die, reapVars
    <2>4. CASE Mark("mon") /\ npc = "mark"
      <3>1. idx["mon"] \in Children /\ npc' = "mark"
        BY <2>4, MonitorAssumption DEF Mark, TypeOK, ReapersOK, Reapers, Children
      <3>2. \/ entry' = entry /\ found' = found
            \/ entry' = [entry EXCEPT ![idx["mon"]] = -1] /\ found' = [found EXCEPT !["mon"] = 1]
        BY <2>4 DEF Mark
      <3>3. idx'["mon"] = IF idx["mon"] = N THEN 0 ELSE idx["mon"] + 1
        BY <2>4 DEF Mark, TypeOK, ReapersOK, Reapers
      <3>4. Known'
        BY <2>1, <2>4, <3>1, <3>2 DEF Fresh, TypeOK, ReapersOK, Reapers
      <3>5. \A c \in Children : c # idx["mon"] => entry'[c] = entry[c]
        BY <3>2 DEF TypeOK, TableOK
      <3>6. Ahead'
        BY <2>1, <3>1, <3>3, <3>5, MonitorAssumption DEF Children
      <3> QED BY <1>1, <3>4, <3>6
    <2>5. CASE MonWait
      <3>1. Fresh /\ entry' = entry /\ idx' = idx
        BY <2>1, <2>5 DEF MonWait, reapVars
      <3> QED BY <1>1, <2>1, <3>1 DEF Fresh
    <2>6. CASE MonGet \/ MonReap
      <3>1. Fresh /\ entry' = entry
        BY <2>1, <2>6 DEF MonGet, MonReap
      <3> QED BY <1>1, <3>1 DEF Fresh
    <2>7. CASE MonMarked
      <3>1. /\ npc' = "wait" /\ entry' = entry /\ idx["mon"] = 0 /\ idx' = idx
            /\ found["mon"] = 1 => st_m' = "exit"
            /\ found["mon"] # 1 => Fresh
        BY <2>1, <2>7 DEF MonMarked, reapVars
      <3> QED BY <1>1, <2>1, <3>1 DEF Fresh
    <2>8. CASE WaitExit \/ GetExit \/ SendWait \/ Check
      BY <2>2, <2>8 DEF WaitExit, GetExit, SendWait, Check, reapVars
    <2>9. CASE Command \/ System \/ Transferred \/ SetDone \/ GiveUp
      BY <2>2, <2>9 DEF Command, System, Transferred, SetDone, GiveUp, reapVars
    <2>10. CASE client_born \/ client_exception \/ UNCHANGED vars
      BY <2>2, <2>10 DEF client_born, client_exception, vars, reapVars
    <2> QED BY <1>3, <2>3, <2>4, <2>5, <2>6, <2>7, <2>8, <2>9, <2>10, RunSteps
  <1>4. CASE mpc \notin Running /\ ~SetFork
    <2>1. mpc' \notin Running
      BY <1>4, NoWayBack
    <2> QED BY <1>1, <2>1
  <1> QED BY <1>2, <1>3, <1>4

Truth ==
    \A c \in Children :
        entry[c] = 1 /\ proc[c] = "gone" => hand["mon"] = c /\ idx["mon"] \in 1 .. c

LEMMA TruthfulKeeps ==
    ASSUME TypeOK, Bodies, Forked, TruthInv, [Next]_vars PROVE EntryTruthful'
  <1> USE DEF TruthInv
  <1> DEFINE Shown == mpc \in (Starting \ {"init", "mon", "sender"}) \cup Running
  <1>1. ASSUME Shown' => Truth' PROVE EntryTruthful'
    BY <1>1 DEF EntryTruthful, Starting, Running, Truth
  <1>2. Shown => Truth
    BY DEF EntryTruthful, Starting, Running, Truth
  <1>3. ASSUME Truth, entry' = entry, hand'["mon"] = hand["mon"], idx'["mon"] = idx["mon"],
               \A c \in Children : proc'[c] = "gone" => proc[c] = "gone"
        PROVE  Truth'
    BY <1>3 DEF Truth
  <1>8. ASSUME Truth, UNCHANGED <<entry, proc, hand, idx>> PROVE Truth'
    BY <1>8 DEF Truth
  <1>4. ASSUME NEW p \in Procs, Die(p)
        PROVE  \A c \in Children : proc'[c] = "gone" => proc[c] = "gone"
    BY <1>4 DEF Die, TypeOK, TableOK
  <1>5. CASE mpc \in Starting
    <2>1. ASSUME mpc \in {"init", "mon", "sender"} PROVE Truth
      BY <2>1 DEF Forked, NotYet, Truth
    <2>2. Truth
      BY <1>2, <1>5, <2>1
    <2>3. ASSUME NEW p \in Procs, Die(p) PROVE Truth'
      BY <1>3, <1>4, <2>2, <2>3 DEF Die, reapVars
    <2>4. CASE Prepare \/ CreateMon \/ CreateSender \/ WaitBorn \/ SetFork
      <3>1. UNCHANGED <<entry, proc, hand, idx>>
        BY <2>4 DEF Prepare, CreateMon, CreateSender, WaitBorn, SetFork, reapVars
      <3> QED BY <1>1, <1>8, <2>2, <3>1
    <2>5. CASE ReapNow
      <3>1. mpc = "reap" /\ entry' = entry
        BY <1>5, <2>5 DEF ReapNow, Main, Starting
      <3>2. Zombies = {}
        BY <1>5, <3>1 DEF Zombies, Procs, Forked, NotYet, Quiet
      <3>3. UNCHANGED <<proc, hand, idx>>
        BY <2>5, <3>2 DEF ReapNow, WaitAny
      <3> QED BY <1>1, <1>8, <2>2, <3>1, <3>3
    <2>6. CASE Fork
      <3>1. mpc = "run" /\ act \in Children /\ hand' = hand /\ idx' = idx
        BY <2>6, MonitorAssumption DEF Fork, Main, reapVars, TypeOK, TableOK, Children
      <3>2. \A c \in Children : c # act => proc'[c] = proc[c] /\ entry'[c] = entry[c]
        BY <2>6 DEF Fork, TypeOK, TableOK, Procs
      <3>3. proc[act] = "none"
        BY <3>1, MonitorAssumption DEF Forked, NotYet, Children
      <3>4. proc'[act] # "gone"
        BY <2>6, <3>1, <3>3 DEF Fork, TypeOK, TableOK, Procs
      <3> QED BY <1>1, <2>2, <3>1, <3>2, <3>4 DEF Truth
    <2>7. CASE client_born \/ client_exception \/ UNCHANGED vars
      <3>1. UNCHANGED <<entry, proc, hand, idx>>
        BY <2>7 DEF client_born, client_exception, vars, reapVars
      <3> QED BY <1>1, <1>8, <2>2, <3>1
    <2> QED BY <1>1, <1>5, <2>3, <2>4, <2>5, <2>6, <2>7, StartSteps
  <1>6. CASE mpc \in Running
    <2>1. Truth
      BY <1>2, <1>6
    <2>2. ASSUME NEW p \in Procs, Die(p) PROVE Truth'
      BY <1>3, <1>4, <2>1, <2>2 DEF Die, reapVars
    <2>3. CASE Mark("mon") /\ npc = "mark"
      <3>1. idx["mon"] \in Children /\ hand' = hand
        BY <2>3, MonitorAssumption DEF Mark, TypeOK, ReapersOK, Reapers, Children
      <3>2. entry[idx["mon"]] = 1
        BY <1>6, <3>1, MonitorAssumption DEF Waiting, Children
      <3>3. \/ proc' = proc
            \/ idx["mon"] \in Zombies /\ proc' = [proc EXCEPT ![idx["mon"]] = "gone"]
        BY <2>3, <3>2 DEF Mark, Reap
      <3>4. Marks(idx["mon"], hand["mon"]) => entry'[idx["mon"]] = -1
        BY <2>3, <3>1 DEF Mark, TypeOK, TableOK
      <3>5. entry'[idx["mon"]] # 1 \/ proc'[idx["mon"]] # "gone"
        <4>1. CASE Marks(idx["mon"], hand["mon"])
          BY <3>4, <4>1
        <4>2. CASE ~Marks(idx["mon"], hand["mon"])
          <5>1. hand["mon"] # idx["mon"] /\ proc[idx["mon"]] # "zombie"
            BY <3>2, <4>2 DEF Marks
          <5>2. proc[idx["mon"]] # "gone"
            BY <2>1, <3>1, <3>2, <5>1 DEF Truth
          <5> QED BY <3>3, <5>1, <5>2 DEF Zombies
        <4> QED BY <4>1, <4>2
      <3>6. \A c \in Children : c # idx["mon"] => proc'[c] = proc[c] /\ entry'[c] = entry[c]
        BY <2>3, <3>3 DEF Mark, TypeOK, TableOK, Procs
      <3>7. idx'["mon"] = IF idx["mon"] = N THEN 0 ELSE idx["mon"] + 1
        BY <2>3 DEF Mark, TypeOK, ReapersOK, Reapers
      <3>8. \A c \in Children : c # idx["mon"] /\ entry'[c] = 1 /\ proc'[c] = "gone" =>
               hand'["mon"] = c /\ idx["mon"] \in 1 .. c
        BY <2>1, <3>1, <3>6 DEF Truth
      <3>9. \A c \in Children : c # idx["mon"] /\ idx["mon"] \in 1 .. c => idx'["mon"] \in 1 .. c
        BY <3>1, <3>7, MonitorAssumption DEF Children
      <3> QED BY <1>1, <3>5, <3>8, <3>9 DEF Truth
    <2>4. CASE MonReap
      <3>1. entry' = entry /\ idx["mon"] = 0
        BY <2>4 DEF MonReap, WaitAny
      <3>2. \A c \in Children : ~(entry[c] = 1 /\ proc[c] = "gone")
        BY <2>1, <3>1 DEF Truth
      <3>3. \/ UNCHANGED <<proc, hand, idx>>
            \/ \E p \in Procs : /\ proc' = [proc EXCEPT ![p] = "gone"]
                                /\ hand' = [hand EXCEPT !["mon"] = p]
                                /\ idx' = [idx EXCEPT !["mon"] = 1]
        BY <2>4 DEF MonReap, WaitAny, Reap, Zombies
      <3>4. CASE UNCHANGED <<proc, hand, idx>>
        BY <1>1, <1>8, <2>1, <3>1, <3>4
      <3>5. ASSUME NEW p \in Procs, proc' = [proc EXCEPT ![p] = "gone"],
                   hand' = [hand EXCEPT !["mon"] = p], idx' = [idx EXCEPT !["mon"] = 1]
            PROVE  Truth'
        <4>1. hand'["mon"] = p /\ idx'["mon"] = 1
          BY <3>5 DEF TypeOK, ReapersOK, Reapers
        <4>2. \A c \in Children : c # p => proc'[c] = proc[c]
          BY <3>5 DEF TypeOK, TableOK
        <4>3. \A c \in Children : 1 \in 1 .. c
          BY MonitorAssumption DEF Children
        <4> QED BY <3>1, <3>2, <4>1, <4>2, <4>3 DEF Truth
      <3> QED BY <1>1, <3>3, <3>4, <3>5
    <2>5. CASE Command \/ System
      <3>1. UNCHANGED <<entry, hand, idx>>
        BY <2>5 DEF Command, System, reapVars
      <3>2. \/ proc' = proc \/ proc' = [proc EXCEPT ![Shell] = "alive"]
            \/ proc' = [proc EXCEPT ![Shell] = "gone"]
        BY <2>5 DEF Command, System, Reap
      <3>3. \A c \in Children : c # Shell
        BY MonitorAssumption DEF Children, Shell
      <3>4. \A c \in Children : proc'[c] = proc[c]
        BY <3>2, <3>3 DEF TypeOK, TableOK, Procs
      <3> QED BY <1>1, <1>3, <2>1, <3>1, <3>4
    <2>6. CASE WaitExit \/ GetExit \/ MonWait \/ MonGet \/ MonMarked \/ SendWait \/ Check
      <3>1. UNCHANGED <<entry, proc, hand, idx>>
        BY <2>6 DEF WaitExit, GetExit, MonWait, MonGet, MonMarked, SendWait, Check, reapVars
      <3> QED BY <1>1, <1>8, <2>1, <3>1
    <2>7. CASE Transferred \/ SetDone \/ GiveUp
      <3>1. UNCHANGED <<entry, proc, hand, idx>>
        BY <2>7 DEF Transferred, SetDone, GiveUp, reapVars
      <3> QED BY <1>1, <1>8, <2>1, <3>1
    <2>8. CASE client_born \/ client_exception \/ UNCHANGED vars
      <3>1. UNCHANGED <<entry, proc, hand, idx>>
        BY <2>8 DEF client_born, client_exception, vars, reapVars
      <3> QED BY <1>1, <1>8, <2>1, <3>1
    <2> QED BY <1>1, <1>6, <2>2, <2>3, <2>4, <2>5, <2>6, <2>7, <2>8, RunSteps
  <1>7. CASE mpc \notin Starting \cup Running
    <2>1. ~SetFork
      BY <1>7 DEF SetFork, Main, Starting
    <2>2. mpc' \notin Starting \cup Running
      BY <1>7, <2>1, NoWayBack
    <2> QED BY <1>1, <2>2
  <1> QED BY <1>5, <1>6, <1>7

\* While the programs are started and run, an entry with a pid stands for a
\* process that nobody has waited for, or the mon thread is about to clear it,
\* though process_mon() and mark_terminated() wait for any child.
THEOREM TableTruthful == Spec => []EntryTruthful
  <1>1. Init => LeftInv /\ TruthInv
    <2> SUFFICES ASSUME Init PROVE LeftInv /\ TruthInv
      OBVIOUS
    <2>1. \A c \in Children : proc[c] = "none" /\ c # -1
      BY MonitorAssumption DEF Init, Procs, Children
    <2>2. mpc = "init" /\ act = 1 /\ \A t \in Reapers : hand[t] = -1 /\ idx[t] = 0
      BY DEF Init
    <2>3. st_m = "init" /\ npc = "none" /\ spc = "none" /\ cancel = {} /\ proc[Shell] = "none"
      BY DEF Init, Procs
    <2>4. LeftInv
      BY <2>1, <2>2 DEF LeftInv, Bodies, Forked, Cleared, NothingLeft
    <2>5. TruthInv
      BY <2>2, <2>3 DEF TruthInv, Quiet, Started, Marking, Waiting, EntryTruthful, Reapers, Running
    <2> QED BY <2>4, <2>5
  <1>2. TypeOK /\ LeftInv /\ TruthInv /\ [Next]_vars => LeftInv' /\ TruthInv'
    BY BodiesKeep, ForkedKeeps, ClearedKeeps, NothingLeftKeeps,
       QuietKeeps, StartedKeeps, MarkingKeeps, WaitingKeeps, TruthfulKeeps DEF LeftInv, TruthInv
  <1>3. TruthInv => EntryTruthful
    BY DEF TruthInv
  <1> QED BY <1>1, <1>2, <1>3, MonitorTypes, PTL DEF Spec
=============================================================================
