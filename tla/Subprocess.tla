----------------------------- MODULE Subprocess -----------------------------
(***************************************************************************)
(* How rktio keeps track of subprocesses on Unix with several OS threads   *)
(* (rktio/rktio_process.c with CENTRALIZED_SIGCHILD).  Places, each in its *)
(* own OS thread, start processes, poll them, kill them and forget them; a *)
(* worker thread receives every SIGCHLD, reaps what it may and passes      *)
(* statuses on to the places.                                              *)
(*                                                                         *)
(* child_status_lock is held only for a few assignments, so what is done   *)
(* under it is one step.  child_wait_lock is held across calls of waitpid  *)
(* and kill, and is a variable.  The kernel is external: processes, their  *)
(* groups, waitpid with WNOHANG, and one pending SIGCHLD.                  *)
(*                                                                         *)
(* A place runs one operation at a time (rktio is used in atomic mode) and *)
(* does not exit.                                                          *)
(*                                                                         *)
(* Processes are numbered in the order in which they are started, and so   *)
(* are their process values; a status is the number of the process it      *)
(* comes from.  The kernel may use the id of a process again as soon as    *)
(* the process has been reaped, when its process value may still wait for  *)
(* the status; the code knows processes only by their ids.                 *)
(***************************************************************************)
EXTENDS Integers, FiniteSets, FiniteSetsExt, Sequences, SequencesExt

CONSTANTS
    Places,     \* OS threads with an rktio_t; also its signal handle
    Pids,
    MaxForks,   \* bound: how many processes are started
    Nobody

ASSUME SubprocessAssumption ==
    /\ IsFiniteSet(Places) /\ IsFiniteSet(Pids) /\ MaxForks \in Nat
    /\ Nobody \notin Places /\ Nobody \notin Pids /\ Nobody # "worker"
    /\ "worker" \notin Places

Procs == 1..MaxForks

VARIABLES
    os,         \* the kernel's view of each pid: free, running or zombie
    group,      \* its process group: ours, or another one
    proc,       \* the process that has the pid, 0 for none
    forks,      \* how many processes were started
    sigchld,    \* whether a SIGCHLD is pending
    pid,        \* of each rktio_process_t: its pid,
    owner,      \* the place it belongs to, until it is done or forgotten,
    in_group,   \* its in_group,
    result,     \* and its status once it is done, 0 before
    child_statuses,
    unused_pid_statuses,
    refcount,   \* signal_fds: the references to each place's signal handle
    signalled,  \* places with a byte in the pipe of their signal handle
    pending_children,
    child_wait_lock,
    pc, cur,    \* what each place is doing, and with which process value
    status,     \* the status that its waitpid returned, 0 for none
    wpc,        \* what the worker is doing
    unused_status,  \* its position in unused_pid_statuses, past the end for NULL
    wpid, wstatus,  \* the pid it has reaped, and the status
    reused      \* history: whether a process got a pid that a process value had
                \* which was not done

kernel == <<os, group, proc, forks, sigchld>>
values == <<pid, owner, in_group, result>>
tables == <<child_statuses, unused_pid_statuses, refcount, signalled, pending_children>>
place  == <<pc, cur, status>>
worker == <<wpc, unused_status, wpid, wstatus>>
vars == <<kernel, values, tables, child_wait_lock, place, worker, reused>>

None == [present |-> FALSE]
Record(done, s, grouped, fd) ==
    [present |-> TRUE, done |-> done, status |-> s, in_group |-> grouped, signal_fd |-> fd]

Wanted(c) == \E v \in Procs : owner[v] # Nobody /\ pid[v] = c
Unused == {unused_pid_statuses[i] : i \in 1..Len(unused_pid_statuses)}
WaitFree == child_wait_lock = Nobody
Goto(p, l) == pc' = [pc EXCEPT ![p] = l]
Idle(p) == Goto(p, "idle") /\ cur' = [cur EXCEPT ![p] = Nobody]
-----------------------------------------------------------------------------
(* The kernel. *)

Exit(c) ==
    /\ os[c] = "running"
    /\ os' = [os EXCEPT ![c] = "zombie"]
    /\ sigchld' = TRUE
    /\ UNCHANGED <<group, proc, forks, values, tables, child_wait_lock, place, worker, reused>>

\* setpgid in the child: before its exec if it was asked for, or by the program
\* that it runs.
Regroup(c) ==
    /\ os[c] = "running" /\ group[c] = "ours"
    /\ group' = [group EXCEPT ![c] = "other"]
    /\ UNCHANGED <<os, proc, forks, sigchld, values, tables, child_wait_lock, place, worker, reused>>

\* A successful waitpid.
Reap(c) ==
    /\ os' = [os EXCEPT ![c] = "free"]
    /\ group' = [group EXCEPT ![c] = "ours"]
    /\ proc' = [proc EXCEPT ![c] = 0]
    /\ UNCHANGED <<forks, sigchld>>
-----------------------------------------------------------------------------
(* Statuses, under child_status_lock. *)

\* remove_group_signal_fd.
RemoveGroupSignalFd(p) ==
    refcount' = IF refcount[p] > 0 THEN [refcount EXCEPT ![p] = @ - 1] ELSE refcount

\* add_child_status.
AddChildStatus(c, s) ==
    LET st == child_statuses[c]
    IN  /\ child_statuses' = [child_statuses EXCEPT ![c] =
              IF st.present THEN [st EXCEPT !.done = TRUE, !.status = s]
              ELSE Record(TRUE, s, FALSE, Nobody)]
        /\ IF st.present /\ st.in_group /\ st.signal_fd # Nobody
           THEN RemoveGroupSignalFd(st.signal_fd) ELSE UNCHANGED refcount
        /\ signalled' = IF st.present THEN signalled \cup ({st.signal_fd} \ {Nobody}) ELSE signalled

Known(c) == child_statuses[c].present /\ child_statuses[c].done

\* A process value is done or freed.
Drop(v) ==
    /\ owner' = [owner EXCEPT ![v] = Nobody]
    /\ in_group' = [in_group EXCEPT ![v] = FALSE]
    /\ pid' = [pid EXCEPT ![v] = Nobody]

\* raw_get_child_status finds the status of a process that is done, and the
\* process value takes it over.
Take(v) ==
    /\ result' = [result EXCEPT ![v] = child_statuses[pid[v]].status]
    /\ Drop(v)
    /\ child_statuses' = [child_statuses EXCEPT ![pid[v]] = None]
    /\ UNCHANGED <<unused_pid_statuses, refcount, signalled, pending_children>>
-----------------------------------------------------------------------------
(* rktio_process. *)

\* centralized_starting_child.
StartingChild(p) ==
    /\ pc[p] = "idle" /\ WaitFree
    /\ pending_children' = pending_children + 1
    /\ Goto(p, "fork")
    /\ UNCHANGED <<kernel, values, child_statuses, unused_pid_statuses, refcount, signalled,
                   child_wait_lock, cur, status, worker, reused>>

\* The kernel takes any pid that no process has which has not been reaped.
Fork(p) ==
    LET v == forks + 1 IN
    /\ pc[p] = "fork" /\ forks < MaxForks
    /\ \E c \in Pids, grouped \in BOOLEAN :
        /\ os[c] = "free"
        /\ os' = [os EXCEPT ![c] = "running"]
        /\ group' = [group EXCEPT ![c] = "ours"]
        /\ proc' = [proc EXCEPT ![c] = v]
        /\ pid' = [pid EXCEPT ![v] = c]
        /\ in_group' = [in_group EXCEPT ![v] = grouped]
        /\ reused' = (reused \/ Wanted(c))
        /\ Goto(p, IF grouped THEN "setpgid" ELSE "register")
    /\ forks' = v
    /\ owner' = [owner EXCEPT ![v] = p]
    /\ cur' = [cur EXCEPT ![p] = v]
    /\ UNCHANGED <<sigchld, result, tables, child_wait_lock, status, worker>>

ForkFails(p) ==
    /\ pc[p] = "fork"
    /\ Goto(p, "ended")
    /\ UNCHANGED <<kernel, values, tables, child_wait_lock, cur, status, worker, reused>>

\* setpgid in the parent: one of the two is early enough.
Setpgid(p) ==
    LET c == pid[cur[p]] IN
    /\ pc[p] = "setpgid"
    /\ group' = IF os[c] = "running" THEN [group EXCEPT ![c] = "other"] ELSE group
    /\ Goto(p, "register")
    /\ UNCHANGED <<os, proc, forks, sigchld, values, tables, child_wait_lock, cur, status, worker, reused>>

\* centralized_register_child.  A record that it finds may be one that the worker
\* made because the process has ended already, or one of an earlier process.
RegisterChild(p) ==
    LET v == cur[p]
        c == pid[v]
    IN
    /\ pc[p] = "register"
    /\ IF child_statuses[c].present
       THEN UNCHANGED <<child_statuses, refcount>>
       ELSE /\ child_statuses' = [child_statuses EXCEPT ![c] = Record(FALSE, 0, in_group[v], p)]
            /\ refcount' = IF in_group[v] THEN [refcount EXCEPT ![p] = @ + 1] ELSE refcount
    /\ Idle(p)
    /\ UNCHANGED <<kernel, values, unused_pid_statuses, signalled, pending_children,
                   child_wait_lock, status, worker, reused>>

\* centralized_ended_child.
EndedChild(p) ==
    /\ pc[p] = "ended" /\ WaitFree
    /\ pending_children' = pending_children - 1
    /\ Idle(p)
    /\ UNCHANGED <<kernel, values, child_statuses, unused_pid_statuses, refcount, signalled,
                   child_wait_lock, status, worker, reused>>
-----------------------------------------------------------------------------
(* rktio_poll_process_done and rktio_process_status; sleeping until some       *)
(* process may be done.                                                       *)

\* A place asks for the status of a process, and sleeps if it is not done.
Poll(p) ==
    /\ pc[p] = "idle"
    /\ \E v \in Procs : owner[v] = p /\ cur' = [cur EXCEPT ![p] = v]
    /\ Goto(p, "poll")
    /\ UNCHANGED <<kernel, values, tables, child_wait_lock, status, worker, reused>>

\* centralized_get_child_status: first waitpid, for this pid.
PollReaps(p) ==
    LET c == pid[cur[p]] IN
    /\ pc[p] = "poll" /\ os[c] = "zombie"
    /\ Reap(c)
    /\ status' = [status EXCEPT ![p] = proc[c]]
    /\ Goto(p, "add")
    /\ UNCHANGED <<values, tables, child_wait_lock, cur, worker, reused>>

PollReapsNot(p) ==
    /\ pc[p] = "poll" /\ os[pid[cur[p]]] # "zombie"
    /\ Goto(p, "get")
    /\ UNCHANGED <<kernel, values, tables, child_wait_lock, cur, status, worker, reused>>

PollAdds(p) ==
    /\ pc[p] = "add"
    /\ AddChildStatus(pid[cur[p]], status[p])
    /\ status' = [status EXCEPT ![p] = 0]
    /\ Goto(p, "get")
    /\ UNCHANGED <<kernel, values, unused_pid_statuses, pending_children, child_wait_lock, cur, worker, reused>>

PollTakes(p) ==
    /\ pc[p] = "get" /\ Known(pid[cur[p]])
    /\ Take(cur[p])
    /\ Goto(p, "ended")
    /\ UNCHANGED <<kernel, child_wait_lock, cur, status, worker, reused>>

PollFails(p) ==
    /\ pc[p] = "get" /\ ~Known(pid[cur[p]])
    /\ Goto(p, "asleep")
    /\ UNCHANGED <<kernel, values, tables, child_wait_lock, cur, status, worker, reused>>

\* The place wakes up, empties the pipe and polls again.
Wake(p) ==
    /\ pc[p] = "asleep" /\ p \in signalled
    /\ signalled' = signalled \ {p}
    /\ Goto(p, "poll")
    /\ UNCHANGED <<kernel, values, child_statuses, unused_pid_statuses, refcount, pending_children,
                   child_wait_lock, cur, status, worker, reused>>

\* Something else wakes it, and it does something else.
Disturb(p) ==
    /\ pc[p] = "asleep"
    /\ Idle(p)
    /\ UNCHANGED <<kernel, values, tables, child_wait_lock, status, worker, reused>>
-----------------------------------------------------------------------------
(* do_subprocess_kill. *)

\* Fault: the worker is not kept from reaping.
KillUnlocked(p) ==
    /\ pc[p] = "idle" /\ WaitFree
    /\ \E v \in Procs : owner[v] = p /\ cur' = [cur EXCEPT ![p] = v]
    /\ Goto(p, "kill")
    /\ UNCHANGED <<kernel, values, tables, child_wait_lock, status, worker, reused>>

\* centralized_wait_suspend.
Kill(p) ==
    /\ pc[p] = "idle" /\ WaitFree
    /\ \E v \in Procs : owner[v] = p /\ cur' = [cur EXCEPT ![p] = v]
    /\ child_wait_lock' = p
    /\ Goto(p, "kill")
    /\ UNCHANGED <<kernel, values, tables, status, worker, reused>>

\* It is done already; centralized_wait_resume.
KillTakes(p) ==
    /\ pc[p] = "kill" /\ Known(pid[cur[p]])
    /\ Take(cur[p])
    /\ child_wait_lock' = Nobody
    /\ Goto(p, "ended")
    /\ UNCHANGED <<kernel, cur, status, worker, reused>>

KillFinds(p) ==
    /\ pc[p] = "kill" /\ ~Known(pid[cur[p]])
    /\ Goto(p, "send")
    /\ UNCHANGED <<kernel, values, tables, child_wait_lock, cur, status, worker, reused>>

\* kill or killpg; the process may exit, now or later.
KillSends(p) ==
    /\ pc[p] = "send"
    /\ child_wait_lock' = Nobody
    /\ Idle(p)
    /\ UNCHANGED <<kernel, values, tables, status, worker, reused>>
-----------------------------------------------------------------------------
(* rktio_process_forget. *)

\* centralized_done_with_process_id.
Forget(p) ==
    /\ pc[p] = "idle" /\ WaitFree
    /\ \E v \in Procs :
        LET c == pid[v]
            st == child_statuses[c]
            alive == st.present /\ ~st.done
        IN
        /\ owner[v] = p
        /\ unused_pid_statuses' = IF alive THEN <<c>> \o unused_pid_statuses ELSE unused_pid_statuses
        /\ IF alive /\ st.signal_fd # Nobody /\ st.in_group
           THEN RemoveGroupSignalFd(st.signal_fd) ELSE UNCHANGED refcount
        /\ child_statuses' = [child_statuses EXCEPT ![c] = None]
        /\ Drop(v)
    /\ Goto(p, "ended")
    /\ UNCHANGED <<kernel, result, signalled, pending_children, child_wait_lock, cur, status,
                   worker, reused>>
-----------------------------------------------------------------------------
(* thread_signal_worker. *)

Sigwait ==
    /\ wpc = "sigwait" /\ sigchld
    /\ sigchld' = FALSE
    /\ wpc' = "groups"
    /\ UNCHANGED <<os, group, proc, forks, values, tables, child_wait_lock, place, unused_status, wpid, wstatus,
                   reused>>

\* Fault: the places with process groups are not woken.
GroupSignalsNone ==
    /\ wpc = "groups"
    /\ wpc' = "lock"
    /\ UNCHANGED <<kernel, values, tables, child_wait_lock, place, unused_status, wpid, wstatus, reused>>

\* do_group_signal_fds.
GroupSignals ==
    /\ wpc = "groups"
    /\ signalled' = signalled \cup {p \in Places : refcount[p] > 0}
    /\ wpc' = "lock"
    /\ UNCHANGED <<kernel, values, child_statuses, unused_pid_statuses, refcount, pending_children,
                   child_wait_lock, place, unused_status, wpid, wstatus, reused>>

WorkerLocks ==
    /\ wpc = "lock" /\ WaitFree
    /\ child_wait_lock' = "worker"
    /\ unused_status' = 1
    /\ wpc' = "scan"
    /\ UNCHANGED <<kernel, values, tables, place, wpid, wstatus, reused>>

\* Fault: the position moves on after an entry is removed.
CheckUnusedSkips ==
    /\ wpc = "scan" /\ unused_status <= Len(unused_pid_statuses)
    /\ LET c == unused_pid_statuses[unused_status]
       IN  IF os[c] = "zombie"
           THEN Reap(c) /\ unused_pid_statuses' = RemoveAt(unused_pid_statuses, unused_status)
           ELSE UNCHANGED <<kernel, unused_pid_statuses>>
    /\ unused_status' = unused_status + 1
    /\ UNCHANGED <<values, child_statuses, refcount, signalled, pending_children,
                   child_wait_lock, place, wpc, wpid, wstatus, reused>>

\* waitpid for a process that was forgotten.  When there is no such process, the
\* worker goes on with the next record of child_statuses, which is NULL, or not
\* one that was forgotten, or not allocated any more: then it is astray, holds
\* child_wait_lock, and what it does is not followed.
CheckUnused ==
    /\ wpc = "scan" /\ unused_status <= Len(unused_pid_statuses)
    /\ LET c == unused_pid_statuses[unused_status]
       IN  \/ /\ os[c] = "zombie"
              /\ Reap(c)
              /\ unused_pid_statuses' = RemoveAt(unused_pid_statuses, unused_status)
              /\ UNCHANGED <<unused_status, wpc>>
           \/ /\ os[c] = "running"
              /\ unused_status' = unused_status + 1
              /\ UNCHANGED <<kernel, unused_pid_statuses, wpc>>
           \/ /\ os[c] = "free"
              /\ unused_status' = Len(unused_pid_statuses) + 1
              /\ wpc' \in {"scan", "astray"}
              /\ UNCHANGED <<kernel, unused_pid_statuses>>
    /\ UNCHANGED <<values, child_statuses, refcount, signalled, pending_children,
                   child_wait_lock, place, wpid, wstatus, reused>>

Anyone == {c \in Pids : os[c] = "zombie" /\ group[c] = "ours"}
AtEnd == wpc = "scan" /\ unused_status > Len(unused_pid_statuses)

\* Fault: the list of forgotten processes is not looked at again.
ReapGroupTakesAny ==
    /\ AtEnd /\ pending_children > 0
    /\ \E c \in Anyone :
        /\ Reap(c)
        /\ wpid' = c /\ wstatus' = proc[c]
        /\ wpc' = "add"
    /\ UNCHANGED <<values, tables, child_wait_lock, place, unused_status, reused>>

\* waitpid for any process of our group; it may be one that was forgotten.
ReapGroup ==
    /\ AtEnd /\ pending_children > 0
    /\ \E c \in Anyone :
        /\ Reap(c)
        /\ \/ \E i \in 1..Len(unused_pid_statuses) :
                /\ unused_pid_statuses[i] = c
                /\ \A j \in 1..(i - 1) : unused_pid_statuses[j] # c
                /\ unused_pid_statuses' = RemoveAt(unused_pid_statuses, i)
                /\ unused_status' = Len(unused_pid_statuses)
                /\ UNCHANGED <<wpc, wpid, wstatus>>
           \/ /\ c \notin Unused
              /\ wpid' = c /\ wstatus' = proc[c]
              /\ wpc' = "add"
              /\ UNCHANGED <<unused_pid_statuses, unused_status>>
    /\ UNCHANGED <<values, child_statuses, refcount, signalled, pending_children, child_wait_lock,
                   place, reused>>

WorkerAdds ==
    /\ wpc = "add"
    /\ AddChildStatus(wpid, wstatus)
    /\ wpc' = "scan" /\ wpid' = Nobody /\ wstatus' = 0
    /\ UNCHANGED <<kernel, values, unused_pid_statuses, pending_children, child_wait_lock,
                   place, unused_status, reused>>

WorkerDone ==
    /\ AtEnd /\ (pending_children = 0 \/ Anyone = {})
    /\ child_wait_lock' = Nobody
    /\ wpc' = "sigwait" /\ unused_status' = 1
    /\ UNCHANGED <<kernel, values, tables, place, wpid, wstatus, reused>>
-----------------------------------------------------------------------------
Init ==
    /\ os = [c \in Pids |-> "free"] /\ group = [c \in Pids |-> "ours"]
    /\ proc = [c \in Pids |-> 0] /\ forks = 0 /\ sigchld = FALSE
    /\ pid = [v \in Procs |-> Nobody] /\ owner = [v \in Procs |-> Nobody]
    /\ in_group = [v \in Procs |-> FALSE] /\ result = [v \in Procs |-> 0]
    /\ child_statuses = [c \in Pids |-> None]
    /\ unused_pid_statuses = <<>>
    /\ refcount = [p \in Places |-> 0] /\ signalled = {}
    /\ pending_children = 0
    /\ child_wait_lock = Nobody
    /\ pc = [p \in Places |-> "idle"] /\ cur = [p \in Places |-> Nobody]
    /\ status = [p \in Places |-> 0]
    /\ wpc = "sigwait" /\ unused_status = 1 /\ wpid = Nobody /\ wstatus = 0
    /\ reused = FALSE

\* An operation that has been started.
Continue(p) ==
    \/ Fork(p) \/ ForkFails(p) \/ Setpgid(p) \/ RegisterChild(p) \/ EndedChild(p)
    \/ PollReaps(p) \/ PollReapsNot(p) \/ PollAdds(p) \/ PollTakes(p) \/ PollFails(p)
    \/ Wake(p)
    \/ KillTakes(p) \/ KillFinds(p) \/ KillSends(p)

Worker ==
    \/ Sigwait \/ GroupSignals \/ WorkerLocks \/ CheckUnused
    \/ ReapGroup \/ WorkerAdds \/ WorkerDone

Astray == wpc = "astray" /\ UNCHANGED vars

Next ==
    \/ \E c \in Pids : Exit(c) \/ Regroup(c)
    \/ \E p \in Places :
        Continue(p) \/ StartingChild(p) \/ Poll(p) \/ Disturb(p) \/ Kill(p) \/ Forget(p)
    \/ Worker
    \/ Astray

Spec == Init /\ [][Next]_vars

\* Threads run, and the worker obtains a lock that is free again and again.
\* Nothing makes a child exit, and nothing makes a place start an operation.
FairSpec ==
    /\ Spec
    /\ WF_vars(Worker) /\ SF_vars(WorkerLocks)
    /\ \A p \in Places : WF_vars(Continue(p))
-----------------------------------------------------------------------------
TypeOK ==
    /\ os \in [Pids -> {"free", "running", "zombie"}]
    /\ group \in [Pids -> {"ours", "other"}]
    /\ proc \in [Pids -> {0} \cup Procs] /\ forks \in 0..MaxForks /\ sigchld \in BOOLEAN
    /\ pid \in [Procs -> Pids \cup {Nobody}] /\ owner \in [Procs -> Places \cup {Nobody}]
    /\ in_group \in [Procs -> BOOLEAN] /\ result \in [Procs -> {0} \cup Procs]
    /\ \A c \in Pids : child_statuses[c].present =>
            child_statuses[c].signal_fd \in Places \cup {Nobody}
    /\ \A i \in 1..Len(unused_pid_statuses) : unused_pid_statuses[i] \in Pids
    /\ refcount \in [Places -> Nat] /\ signalled \subseteq Places
    /\ pending_children \in Nat
    /\ child_wait_lock \in Places \cup {"worker", Nobody}
    /\ cur \in [Places -> Procs \cup {Nobody}] /\ wpid \in Pids \cup {Nobody}
    /\ status \in [Places -> {0} \cup Procs] /\ wstatus \in {0} \cup Procs
    /\ reused \in BOOLEAN

Registering(v) == pc[owner[v]] \in {"setpgid", "register"} /\ cur[owner[v]] = v
InHand(v) ==
    \/ wpc = "add" /\ wpid = pid[v]
    \/ pc[owner[v]] = "add" /\ cur[owner[v]] = v

\* The status of a process that somebody still wants is never lost, whoever of
\* the worker, with waitpid for the group, and the place, with waitpid for the
\* process, reaps it, and whether that is before or after it is registered.
WantedKept ==
    \A v \in Procs : owner[v] # Nobody =>
        LET c == pid[v]
            st == child_statuses[c]
        IN  /\ os[c] = "free" => (InHand(v) <=> ~Known(c))
            /\ os[c] # "free" => /\ proc[c] = v
                                /\ IF Registering(v) THEN ~st.present ELSE st.present /\ ~st.done

\* A process that is not wanted any more is listed, once, until it is reaped, so
\* that no waitpid for a listed process fails ("unexpected error from waitpid").
UnwantedListed ==
    /\ \A c \in Pids : ~Wanted(c) =>
        ~child_statuses[c].present /\ (os[c] # "free" <=> c \in Unused)
    /\ Len(unused_pid_statuses) = Cardinality(Unused)

\* A process value that is done has the status of its own process, which is gone,
\* and not that of another one that had the same id before or after it.
StatusRight ==
    \A v \in Procs : result[v] # 0 =>
        result[v] = v /\ \A c \in Pids : proc[c] # v

\* The worker wakes a place for every SIGCHLD exactly while the place has a
\* process in a group of its own that is not known to be done.
RefcountExact ==
    \A p \in Places : refcount[p] = Cardinality({c \in Pids :
        LET st == child_statuses[c]
        IN  st.present /\ st.signal_fd = p /\ st.in_group /\ ~st.done})

\* pending_children counts the processes whose end nobody has seen yet, also
\* when a fork fails and when a process is killed or forgotten: if it were too
\* small, the worker would not look for them.
PendingExact ==
    pending_children = Cardinality({v \in Procs : owner[v] # Nobody})
                         + Cardinality({p \in Places : pc[p] \in {"fork", "ended"}})

\* Until the kernel uses an id while a process value that is not done has it, the
\* tables agree with the processes: every status is kept for the process value
\* that it belongs to, and both counts are exact.  Ids of processes that are done
\* or forgotten may be used again at once.
StatusInv ==
    \/ reused
    \/ TypeOK /\ WantedKept /\ UnwantedListed /\ StatusRight /\ RefcountExact /\ PendingExact

\* Until an id is used that early, a signal is sent only to the process it is
\* meant for, which has not been reaped, and never to another one that got its id
\* (do_subprocess_kill suspends waiting before it looks at the status).
KillsOwnChild ==
    \/ reused
    \/ \A p \in Places : pc[p] = "send" =>
            proc[pid[cur[p]]] = cur[p]

\* A place waits for the process.
Awaited(v) == \E p \in Places : pc[p] \in {"poll", "get", "add", "asleep"} /\ cur[p] = v

\* A place that sleeps until a process is done notices that it has exited,
\* unless the process moved itself to another group, since nobody is told of
\* that, or an id is used too early.
ExitNoticed ==
    \A v \in Procs :
        (Awaited(v) /\ os[pid[v]] # "running" /\ (group[pid[v]] = "ours" \/ in_group[v]))
            ~> (~Awaited(v) \/ reused)

\* A process that was forgotten is reaped when it exits: at the latest when the
\* worker gets the next SIGCHLD, it leaves no zombie, unless an id is used too
\* early.
UnusedReaped ==
    \A c \in Pids : (c \in Unused /\ os[c] = "zombie" /\ sigchld) ~> (c \notin Unused \/ reused)
=============================================================================
