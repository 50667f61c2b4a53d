------------------------------- MODULE Monitor -------------------------------
(***************************************************************************)
(* The monitor of code/example/mon.c: it starts the programs of a table,   *)
(* sends them the commands of another, and ends, with all it started, when *)
(* one of them ends, reports an exception or does not take its commands.   *)
(* Its main thread, the mon thread, which waits for children to end, and   *)
(* the send thread meet in a state machine, the table and waitpid().       *)
(*                                                                         *)
(* The functions of mon_cf_parse.h and cf_ops.h that are not in the        *)
(* repository are taken for what main and the threads use them for:        *)
(* waite_statemachine() returns when the state is the one waited for or    *)
(* after a time, waite_client_running() when a client was born or after a  *)
(* time, and kill_process() ends a process and clears its entry.           *)
(*                                                                         *)
(* Nothing sets ST_M_QUIT, so the loop that would start all again is left  *)
(* out with ST_M_PARSE_RUN.                                                *)
(***************************************************************************)
EXTENDS Integers, Sequences

CONSTANTS N,      \* entries of the table of programs
          Retry,  \* how often the commands are tried
          Runs    \* the tables of commands

Children == 1 .. N
Shell == 0                    \* the child that system() makes
Procs == Children \cup {Shell}
Reapers == {"main", "mon"}    \* the threads that call process_mon()

\* A command goes to the shell or to a device; that one may have a file to be
\* sent, and states to be compared.
Commands == {"shell", "nothing", "file", "states", "both"}

ASSUME MonitorAssumption ==
    /\ N \in Nat \ {0} /\ Retry \in Nat \ {0} /\ Runs \subseteq Seq(Commands) /\ Runs # {}

VARIABLES st_m,    \* the state machine
          mpc, npc, spc,  \* positions of the main, mon and send threads
          act,     \* entry the main thread is at
          entry,   \* pid of an entry: 1 stands for that of its process
          proc,    \* the processes
          told,    \* children that were sent a signal to end
          born,    \* child.running
          cancel,  \* threads that were cancelled
          hand,    \* pid that a process_mon() got
          idx,     \* entry its mark_terminated() is at, 0 for none
          found,   \* whether it marked one
          run,     \* the commands
          try, cmd, ret  \* of send_thread() and send_cmd2dev()

sendVars == <<spc, run, try, cmd, ret>>
reapVars == <<hand, idx, found>>
vars == <<st_m, mpc, npc, act, entry, proc, told, born, cancel, reapVars, sendVars>>

\* global_args_init()
Init ==
    /\ st_m = "init"
    /\ mpc = "init" /\ npc = "none" /\ spc = "none" /\ act = 1
    /\ entry \in [Children -> {-1, 0}]
    /\ proc = [p \in Procs |-> "none"]
    /\ told = {} /\ born = 0 /\ cancel = {}
    /\ hand = [t \in Reapers |-> -1]
    /\ idx = [t \in Reapers |-> 0]
    /\ found = [t \in Reapers |-> 0]
    /\ run \in Runs /\ try = 0 /\ cmd = 1 /\ ret = 0

-----------------------------------------------------------------------------
\* The children, and waitpid()

Zombies == {p \in Procs : proc[p] = "zombie"}
Kids == {p \in Procs : proc[p] \in {"alive", "zombie"}}

Die(p) ==
    /\ proc[p] = "alive"
    /\ proc' = [proc EXCEPT ![p] = "zombie"]
    /\ UNCHANGED <<st_m, mpc, npc, act, entry, told, born, cancel, reapVars, sendVars>>

Reap(p) == proc' = [proc EXCEPT ![p] = "gone"]

\* process_mon(): waitpid(-1) of thread t
WaitAny(t, options) ==
    /\ idx[t] = 0
    /\ found' = [found EXCEPT ![t] = 0]
    /\ \/ \E p \in Zombies :
              Reap(p) /\ hand' = [hand EXCEPT ![t] = p] /\ idx' = [idx EXCEPT ![t] = 1]
       \/ /\ Zombies = {} /\ (options = "WNOHANG" \/ Kids = {})
          /\ UNCHANGED <<proc, hand, idx>>

\* The process of an entry, or, where the entry has none, waitpid(0) and
\* waitpid(-1), which are for any child.
Marks(c, pid) ==
    \/ entry[c] = 1 /\ (pid = c \/ proc[c] = "zombie")
    \/ entry[c] = 0 /\ Zombies = {} /\ Kids # {}
    \/ entry[c] = -1 /\ Kids = {}

\* The process of an entry is looked for with waitpid(-1).
MutMark(t) ==
    /\ idx[t] > 0
    /\ LET c == idx[t]
           own == entry[c] = 1 /\ hand[t] = c IN
       /\ IF own THEN entry' = [entry EXCEPT ![c] = -1] /\ found' = [found EXCEPT ![t] = 1]
          ELSE UNCHANGED <<entry, found>>
       /\ IF own \/ Zombies = {} THEN UNCHANGED proc ELSE \E p \in Zombies : Reap(p)
       /\ idx' = [idx EXCEPT ![t] = IF c = N THEN 0 ELSE c + 1]
    /\ UNCHANGED <<st_m, mpc, npc, act, told, born, cancel, hand, sendVars>>

\* mark_terminated(): an entry
Mark(t) ==
    /\ idx[t] > 0
    /\ LET c == idx[t]
           waited == IF entry[c] = 1 THEN Zombies \cap {c} ELSE Zombies IN
       /\ IF Marks(c, hand[t])
          THEN entry' = [entry EXCEPT ![c] = -1] /\ found' = [found EXCEPT ![t] = 1]
          ELSE UNCHANGED <<entry, found>>
       /\ IF waited = {} THEN UNCHANGED proc ELSE \E p \in waited : Reap(p)
       /\ idx' = [idx EXCEPT ![t] = IF c = N THEN 0 ELSE c + 1]
    /\ UNCHANGED <<st_m, mpc, npc, act, told, born, cancel, hand, sendVars>>

-----------------------------------------------------------------------------
\* main()

\* A step of the main thread from one position to another.
Main(from, to) == mpc = from /\ idx["main"] = 0 /\ mpc' = to

\* init_broker(), register_callback() and parse_inittab() may fail.
Prepare ==
    /\ \E to \in {"mon", "close", "kill"} : Main("init", to)
    /\ UNCHANGED <<st_m, npc, act, entry, proc, told, born, cancel, reapVars, sendVars>>

CreateMon ==
    /\ \/ Main("mon", "sender") /\ npc' = "wait"
       \/ Main("mon", "close") /\ UNCHANGED npc
    /\ UNCHANGED <<st_m, act, entry, proc, told, born, cancel, reapVars, sendVars>>

CreateSender ==
    /\ \/ Main("sender", "reap") /\ spc' = "wait"
       \/ Main("sender", "close") /\ UNCHANGED spc
    /\ UNCHANGED <<st_m, npc, act, entry, proc, told, born, cancel, reapVars, run, try, cmd, ret>>

\* process_mon(WNOHANG) of main(), run_actions() and kill_all()
ReapNow ==
    /\ \/ Main("reap", "run") \/ Main("late", "stillborn") \/ Main("last", "clean")
    /\ WaitAny("main", "WNOHANG")
    /\ UNCHANGED <<st_m, npc, act, entry, told, born, cancel, sendVars>>

\* vfork() for the next entry of run_actions()
Fork ==
    /\ act <= N
    /\ \/ /\ Main("run", "born")
          /\ entry' = [entry EXCEPT ![act] = 1] /\ proc' = [proc EXCEPT ![act] = "alive"]
       \/ Main("run", "exit3") /\ entry' = [entry EXCEPT ![act] = -1] /\ UNCHANGED proc
    /\ UNCHANGED <<st_m, npc, act, told, born, cancel, reapVars, sendVars>>

\* waite_client_running()
WaitBorn ==
    /\ IF born = 1 THEN Main("born", "run") /\ act' = act + 1
                   ELSE Main("born", "late") /\ UNCHANGED act
    /\ born' = 0
    /\ UNCHANGED <<st_m, npc, entry, proc, told, cancel, reapVars, sendVars>>

\* The entry is cleared, the process goes on.
MutKillProcess ==
    /\ Main("stillborn", "exit3")
    /\ entry' = [entry EXCEPT ![act] = -1]
    /\ UNCHANGED <<st_m, npc, act, proc, told, born, cancel, reapVars, sendVars>>

\* kill_process() of the child that was not born in time
KillProcess ==
    /\ Main("stillborn", "exit3")
    /\ told' = IF entry[act] = 1 THEN told \cup {act} ELSE told
    /\ entry' = [entry EXCEPT ![act] = -1]
    /\ UNCHANGED <<st_m, npc, act, proc, born, cancel, reapVars, sendVars>>

SetFork ==
    /\ act > N
    /\ Main("run", "wait")
    /\ st_m' = "fork"
    /\ UNCHANGED <<npc, act, entry, proc, told, born, cancel, reapVars, sendVars>>

\* waite_statemachine_forever()
WaitExit ==
    /\ Main("wait", "get")
    /\ st_m = "exit"
    /\ UNCHANGED <<st_m, npc, act, entry, proc, told, born, cancel, reapVars, sendVars>>

\* ... and what the state is by then
GetExit ==
    /\ Main("get", IF st_m = "exit" THEN "exit3" ELSE "wait")
    /\ UNCHANGED <<st_m, npc, act, entry, proc, told, born, cancel, reapVars, sendVars>>

\* The threads are cancelled.
CancelThreads ==
    /\ Main("exit3", "join")
    /\ cancel' = {"mon", "sender"}
    /\ UNCHANGED <<st_m, npc, act, entry, proc, told, born, reapVars, sendVars>>

\* Only the send thread is joined.
Join ==
    /\ Main("join", "close")
    /\ spc = "ended"
    /\ UNCHANGED <<st_m, npc, act, entry, proc, told, born, cancel, reapVars, sendVars>>

\* unregister_callback() for another name than that of the registration changes
\* nothing; close_broker() ends the callbacks.
Close ==
    /\ Main("close", "kill")
    /\ act' = 1
    /\ UNCHANGED <<st_m, npc, entry, proc, told, born, cancel, reapVars, sendVars>>

\* kill_all(): an entry
KillOne ==
    /\ act <= N
    /\ Main("kill", IF act = N THEN "last" ELSE "kill") /\ act' = act + 1
    /\ IF entry[act] = 1
       THEN told' = told \cup {act} /\ entry' = [entry EXCEPT ![act] = -1]
       ELSE UNCHANGED <<told, entry>>
    /\ UNCHANGED <<st_m, npc, proc, born, cancel, reapVars, sendVars>>

\* clean_inittab(), global_args_clean() and the end of the program
Clean ==
    /\ Main("clean", "ended")
    /\ UNCHANGED <<st_m, npc, act, entry, proc, told, born, cancel, reapVars, sendVars>>

MainThread ==
    \/ Prepare \/ CreateMon \/ CreateSender \/ ReapNow \/ Fork \/ WaitBorn \/ KillProcess
    \/ SetFork \/ WaitExit \/ GetExit \/ CancelThreads \/ Join \/ Close \/ KillOne \/ Clean
    \/ Mark("main")

-----------------------------------------------------------------------------
\* mon_thread()

\* waite_statemachine() and get_statemachine()
MonWait ==
    /\ npc = "wait" /\ st_m = "fork"
    /\ npc' = "get"
    /\ UNCHANGED <<st_m, mpc, act, entry, proc, told, born, cancel, reapVars, sendVars>>

MonGet ==
    /\ npc = "get"
    /\ npc' = IF st_m \in {"fork", "done"} THEN "waitpid" ELSE "wait"
    /\ UNCHANGED <<st_m, mpc, act, entry, proc, told, born, cancel, reapVars, sendVars>>

\* process_mon() that blocks
MonReap ==
    /\ npc = "waitpid"
    /\ WaitAny("mon", "block")
    /\ npc' = "mark"
    /\ UNCHANGED <<st_m, mpc, act, entry, told, born, cancel, sendVars>>

\* The end of a program counts only before the commands are done.
MutMonMarked ==
    /\ npc = "mark" /\ idx["mon"] = 0
    /\ npc' = "wait"
    /\ st_m' = IF found["mon"] = 1 /\ st_m = "fork" THEN "exit" ELSE st_m
    /\ UNCHANGED <<mpc, act, entry, proc, told, born, cancel, reapVars, sendVars>>

\* It sets ST_M_EXIT when an entry was marked.
MonMarked ==
    /\ npc = "mark" /\ idx["mon"] = 0
    /\ npc' = "wait"
    /\ st_m' = IF found["mon"] = 1 THEN "exit" ELSE st_m
    /\ UNCHANGED <<mpc, act, entry, proc, told, born, cancel, reapVars, sendVars>>

\* Every one of its calls may end it once it is cancelled.
MonCancelled ==
    /\ "mon" \in cancel /\ npc \in {"wait", "waitpid", "mark"}
    /\ npc' = "ended" /\ idx' = [idx EXCEPT !["mon"] = 0]
    /\ UNCHANGED <<st_m, mpc, act, entry, proc, told, born, cancel, hand, found, sendVars>>

MonThread ==
    \/ MonWait \/ MonGet \/ MonReap \/ MonMarked \/ MonCancelled
    \/ npc = "mark" /\ Mark("mon")

-----------------------------------------------------------------------------
\* send_thread()

Sender(from, to) == spc = from /\ spc' = to

SendWait ==
    /\ Sender("wait", "check")
    /\ st_m = "fork"
    /\ UNCHANGED <<st_m, mpc, npc, act, entry, proc, told, born, cancel, reapVars, run, try, cmd, ret>>

\* The commands are tried until they work.
MutCheck ==
    /\ Sender("check", IF st_m = "fork" THEN "send" ELSE "ended")
    /\ try' = try + 1
    /\ cmd' = 1 /\ ret' = 0
    /\ UNCHANGED <<st_m, mpc, npc, act, entry, proc, told, born, cancel, reapVars, run>>

\* The next try, unless a process ended meanwhile.
Check ==
    /\ Sender("check", IF try = Retry THEN "over" ELSE IF st_m = "fork" THEN "send" ELSE "ended")
    /\ try' = IF try = Retry THEN try ELSE try + 1
    /\ cmd' = 1 /\ ret' = 0
    /\ UNCHANGED <<st_m, mpc, npc, act, entry, proc, told, born, cancel, reapVars, run>>

\* The next command of send_cmd2dev(). A file that is not there is no reason to
\* stop, but what read_config_file() returned is kept.  The state is never
\* ST_M_DONE at its start: only this thread sets that.
Command ==
    /\ IF cmd > Len(run)
       THEN Sender("send", IF ret = 0 THEN "done" ELSE "check") /\ UNCHANGED <<cmd, ret, proc>>
       ELSE \/ /\ run[cmd] = "shell" /\ Sender("send", "system")
               /\ proc' = [proc EXCEPT ![Shell] = "alive"] /\ UNCHANGED <<cmd, ret>>
            \/ /\ run[cmd] = "nothing" /\ Sender("send", "send")
               /\ ret' = -1 /\ cmd' = cmd + 1 /\ UNCHANGED proc
            \/ /\ run[cmd] \in {"file", "both"} /\ Sender("send", "file")
               /\ UNCHANGED <<cmd, ret, proc>>
            \/ run[cmd] = "states" /\ Sender("send", "states") /\ UNCHANGED <<cmd, ret, proc>>
    /\ UNCHANGED <<st_m, mpc, npc, act, entry, told, born, cancel, reapVars, run, try>>

\* system() waits for its child, which the mon thread may have waited for.
System ==
    /\ Sender("system", "send")
    /\ proc[Shell] \in {"zombie", "gone"}
    /\ Reap(Shell)
    /\ cmd' = cmd + 1
    /\ UNCHANGED <<st_m, mpc, npc, act, entry, told, born, cancel, reapVars, run, try, ret>>

\* dev_transfer() without a time: of the file, then of the states, each of which
\* get_return_json_data() and compare_ret_val() take or refuse.
Transferred ==
    /\ \/ /\ ret' = 0
          /\ \/ spc = "file" /\ run[cmd] = "both" /\ spc' = "states" /\ UNCHANGED cmd
             \/ spc = "file" /\ run[cmd] = "file" /\ spc' = "send" /\ cmd' = cmd + 1
             \/ spc = "states" /\ spc' = "send" /\ cmd' = cmd + 1
       \/ spc \in {"file", "states"} /\ spc' = "check" /\ ret' = -1 /\ UNCHANGED cmd
    /\ UNCHANGED <<st_m, mpc, npc, act, entry, proc, told, born, cancel, reapVars, run, try>>

\* ST_M_DONE, whatever the state was
SetDone ==
    /\ Sender("done", "ended")
    /\ st_m' = "done"
    /\ UNCHANGED <<mpc, npc, act, entry, proc, told, born, cancel, reapVars, run, try, cmd, ret>>

\* No try worked.
GiveUp ==
    /\ Sender("over", "ended")
    /\ st_m' = IF st_m = "done" THEN st_m ELSE "exit"
    /\ UNCHANGED <<mpc, npc, act, entry, proc, told, born, cancel, reapVars, run, try, cmd, ret>>

SendCancelled ==
    /\ "sender" \in cancel /\ spc \in {"wait", "send", "system", "file", "states"}
    /\ spc' = "ended"
    /\ UNCHANGED <<st_m, mpc, npc, act, entry, proc, told, born, cancel, reapVars, run, try, cmd, ret>>

SendThread == SendWait \/ Check \/ Command \/ System \/ SetDone \/ GiveUp \/ SendCancelled

-----------------------------------------------------------------------------
\* The callbacks, until close_broker()
Listening == mpc \notin {"init", "kill", "last", "clean", "ended"}

client_born ==
    /\ Listening
    /\ born' = 1
    /\ UNCHANGED <<st_m, mpc, npc, act, entry, proc, told, cancel, reapVars, sendVars>>

client_exception ==
    /\ Listening
    /\ st_m' = "exit"
    /\ UNCHANGED <<mpc, npc, act, entry, proc, told, born, cancel, reapVars, sendVars>>

Next ==
    /\ mpc # "ended"
    /\ \/ MainThread \/ MonThread \/ SendThread \/ Transferred
       \/ client_born \/ client_exception
       \/ \E p \in Procs : Die(p)

\* The threads go on; a child need not end, nor a device answer.
Spec ==
    /\ Init /\ [][Next]_vars
    /\ WF_vars(mpc # "ended" /\ MainThread)
    /\ WF_vars(mpc # "ended" /\ MonThread)
    /\ WF_vars(mpc # "ended" /\ SendThread)

-----------------------------------------------------------------------------
ThreadsOK ==
    /\ st_m \in {"init", "fork", "done", "exit"}
    /\ mpc \in {"init", "mon", "sender", "reap", "run", "born", "late", "stillborn", "wait",
                "get", "exit3", "join", "close", "kill", "last", "clean", "ended"}
    /\ npc \in {"none", "wait", "get", "waitpid", "mark", "ended"}
    /\ cancel \subseteq {"mon", "sender"}

TableOK ==
    /\ act \in 1 .. N + 1
    /\ mpc \in {"born", "late", "stillborn"} => act <= N
    /\ entry \in [Children -> {-1, 0, 1}]
    /\ proc \in [Procs -> {"none", "alive", "zombie", "gone"}]
    /\ told \subseteq Children /\ born \in {0, 1}

ReapersOK ==
    /\ hand \in [Reapers -> -1 .. N] /\ idx \in [Reapers -> 0 .. N]
    /\ found \in [Reapers -> {0, 1}]

SenderOK ==
    /\ spc \in {"none", "wait", "check", "send", "system", "file", "states", "done", "over", "ended"}
    /\ run \in Runs /\ try \in 0 .. Retry /\ cmd \in 1 .. Len(run) + 1 /\ ret \in {-1, 0}
    /\ spc \in {"system", "file", "states"} => cmd <= Len(run)

TypeOK == ThreadsOK /\ TableOK /\ ReapersOK /\ SenderOK

\* While the programs run, an entry with a pid stands for a process that nobody
\* has waited for yet: the mon thread is about to clear it otherwise.  Two
\* threads wait for any child, and system() makes one that is in no entry.
EntryTruthful ==
    mpc \in {"reap", "run", "born", "wait", "get"} =>
        \A c \in Children :
            entry[c] = 1 /\ proc[c] = "gone" => hand["mon"] = c /\ idx["mon"] \in 1 .. c

\* A program that runs is in the table, where kill_all() finds it, or was told
\* to end: when the monitor ends, on whichever path, it leaves none behind.
NothingLeft ==
    \A c \in Children :
        proc[c] = "alive" /\ (entry[c] # 1 \/ mpc = "ended") => c \in told

\* ST_M_EXIT is lost when the send thread, in the middle of its commands, goes
\* on to set ST_M_DONE.  Once it is not, ST_M_EXIT ends the monitor, and so does
\* the end of a program that the mon thread waits for.
TroubleEnds ==
    \/ st_m = "exit" /\ mpc = "wait" /\ spc \notin {"send", "system", "file", "states", "done"}
    \/ st_m = "done" /\ npc = "waitpid" /\ mpc = "wait" /\ Zombies \cap Children # {}
    ~> mpc = "ended"
=============================================================================
