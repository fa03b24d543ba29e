---------------------------- MODULE SocketPolling ----------------------------
(***************************************************************************)
(* The thread that waits for sockets before their calls go to the pool:    *)
(* SocketPollingThread of vm/ThreadPool.cpp, over MultiplexIO::Poll of     *)
(* os/PSP2/MultiplexIO.cpp.  Epoll is external: what has happened on a     *)
(* socket stays to be seen.  ThreadPool has what becomes of a call that    *)
(* has been handed on to QueueWorkItem.                                    *)
(***************************************************************************)
EXTENDS Naturals, Sequences, FiniteSets

CONSTANTS
    Sockets,    \* the calls on sockets
    Fd,         \* call -> the descriptor of its socket when its request is dequeued
    NoFd,       \* -1, the descriptor of a socket that is closed by then
    Interest,   \* call -> the event it waits for, "in" or "out"
    MaxEvents   \* MAX_EVENTS (16 in the code)

ASSUME PollingAssumption ==
    /\ DOMAIN Fd = Sockets /\ Interest \in [Sockets -> {"in", "out"}]
    /\ MaxEvents \in Nat \ {0}

VARIABLES
    stage,         \* where the caller of a call stands in ThreadPool::Queue
    requests,      \* the queue of the polling thread
    acknowledged,  \* threadStartupAcknowledged
    poller,        \* where the polling thread stands, "none" before it exists
    pollRequests,  \* the list it polls
    registered,    \* the requests that epoll has got
    ready,         \* the requests whose revents are set
    forwarded,     \* the calls that have been handed on to the pool
    active,        \* what has happened on sockets: pairs of descriptor and event
    aborted        \* sceNetEpollAbort has been called, and no wait has ended by it

listVars == <<pollRequests, ready, forwarded>>
pollVars == <<stage, requests, acknowledged, poller, listVars, registered, active, aborted>>

PollInit ==
    /\ stage = [i \in Sockets |-> "none"]
    /\ requests = <<>> /\ acknowledged = FALSE
    /\ poller = "none" /\ pollRequests = <<>>
    /\ registered = {} /\ ready = {} /\ forwarded = {}
    /\ active = {} /\ aborted = FALSE

Event(i) == <<Fd[i], Interest[i]>>
StageGoes(i, from, to) == stage[i] = from /\ stage' = [stage EXCEPT ![i] = to]
PollerGoes(from, to) == poller = from /\ poller' = to

-----------------------------------------------------------------------------
(* The caller. *)

\* SpawnSocketPollingThreadIfNeeded: a caller that comes when there is a thread
\* goes on at once; one that has come before waits for it to have started.
SpawnIfNeeded(i) ==
    /\ \/ PollerGoes("none", "started") /\ StageGoes(i, "none", "spawn")
       \/ poller # "none" /\ UNCHANGED poller
          /\ (StageGoes(i, "none", "spawn") \/ StageGoes(i, "none", "request"))
    /\ UNCHANGED <<requests, acknowledged, listVars, registered, active, aborted>>

StartupAcknowledged(i) ==
    /\ acknowledged
    /\ StageGoes(i, "spawn", "request")
    /\ UNCHANGED <<requests, acknowledged, poller, listVars, registered, active, aborted>>

QueueRequest(i) ==
    /\ StageGoes(i, "request", "interrupt")
    /\ requests' = Append(requests, i)
    /\ UNCHANGED <<acknowledged, poller, listVars, registered, active, aborted>>

\* Mutant: without SCE_NET_EPOLL_ABORT_FLAG_PRESERVATION.
InterruptWaitOnly(i) ==
    /\ StageGoes(i, "interrupt", "queued")
    /\ aborted' = (aborted \/ poller = "wait")
    /\ UNCHANGED <<requests, acknowledged, poller, listVars, registered, active>>

InterruptPoll(i) ==
    /\ StageGoes(i, "interrupt", "queued")
    /\ aborted' = TRUE
    /\ UNCHANGED <<requests, acknowledged, poller, listVars, registered, active>>

-----------------------------------------------------------------------------
(* The polling thread: RunLoop. *)

AcknowledgeStartup ==
    /\ PollerGoes("started", "queue")
    /\ acknowledged' = TRUE
    /\ UNCHANGED <<stage, requests, listVars, registered, active, aborted>>

DequeueRequest ==
    /\ poller = "queue" /\ requests # <<>>
    /\ requests' = Tail(requests)
    /\ pollRequests' = Append(pollRequests, Head(requests))
    /\ UNCHANGED <<stage, acknowledged, poller, registered, ready, forwarded, active,
                   aborted>>

NoMoreRequests ==
    /\ requests = <<>>
    /\ PollerGoes("queue", "add")
    /\ UNCHANGED <<stage, requests, acknowledged, listVars, registered, active, aborted>>

\* The k-th request of a list gets to epoll: it has a descriptor, it is one of the
\* first that have, and no request before it is for the same one.
Registers(list, k) ==
    /\ Fd[list[k]] # NoFd
    /\ LET before == {j \in 1 .. k - 1 : Fd[list[j]] # NoFd} IN
         /\ Cardinality(before) < MaxEvents
         /\ \A j \in before : Fd[list[j]] # Fd[list[k]]

\* Poll adds the requests, and an addition fails without a word.
AddRequests ==
    /\ PollerGoes("add", "wait")
    /\ registered' = {pollRequests[k] :
                         k \in {k \in DOMAIN pollRequests : Registers(pollRequests, k)}}
    /\ UNCHANGED <<stage, requests, acknowledged, listVars, active, aborted>>

\* sceNetEpollWait returns, with the events there are or because of the abort; the
\* additions are revoked, and an event counts for every request of its descriptor.
EndPoll ==
    /\ PollerGoes("wait", "forward")
    /\ LET events == {i \in registered : Event(i) \in active} IN
         \/ /\ events # {}
            /\ ready' = {i \in Sockets : (\E j \in events : Fd[i] = Fd[j])
                                        /\ (\E k \in DOMAIN pollRequests : pollRequests[k] = i)}
            /\ UNCHANGED aborted
         \/ aborted /\ aborted' = FALSE /\ UNCHANGED ready
    /\ registered' = {}
    /\ UNCHANGED <<stage, requests, acknowledged, pollRequests, forwarded, active>>

\* A request with revents goes to the pool: QueueWorkItem.
Forward ==
    /\ poller = "forward"
    /\ \E k \in DOMAIN pollRequests :
         /\ pollRequests[k] \in ready
         /\ forwarded' = forwarded \cup {pollRequests[k]}
         /\ ready' = ready \ {pollRequests[k]}
         /\ pollRequests' = SubSeq(pollRequests, 1, k - 1)
                              \o SubSeq(pollRequests, k + 1, Len(pollRequests))
    /\ UNCHANGED <<stage, requests, acknowledged, poller, registered, active, aborted>>

AllForwarded ==
    /\ ready = {}
    /\ PollerGoes("forward", "queue")
    /\ UNCHANGED <<stage, requests, acknowledged, listVars, registered, active, aborted>>

\* The other end of a connection does something.
Activity(i) ==
    /\ Fd[i] # NoFd /\ Event(i) \notin active
    /\ active' = active \cup {Event(i)}
    /\ UNCHANGED <<stage, requests, acknowledged, poller, listVars, registered, aborted>>

-----------------------------------------------------------------------------
Requester(i) == StartupAcknowledged(i) \/ QueueRequest(i) \/ InterruptPoll(i)

Poller ==
    \/ AcknowledgeStartup \/ DequeueRequest \/ NoMoreRequests \/ AddRequests \/ EndPoll
    \/ Forward \/ AllForwarded

PollNext ==
    \/ \E i \in Sockets : SpawnIfNeeded(i) \/ Requester(i) \/ Activity(i)
    \/ Poller

\* The polling thread and the callers, which take finitely many steps, are scheduled.
PollFairness == WF_pollVars(Poller) /\ WF_pollVars(\E i \in Sockets : Requester(i))

PollSpec == PollInit /\ [][PollNext]_pollVars /\ PollFairness

-----------------------------------------------------------------------------
\* The variables have the types of the code's, and what has revents is polled.
PollTypeOK ==
    /\ stage \in [Sockets -> {"none", "spawn", "request", "interrupt", "queued"}]
    /\ requests \in Seq(Sockets)
    /\ acknowledged \in BOOLEAN
    /\ poller \in {"none", "started", "queue", "add", "wait", "forward"}
    /\ pollRequests \in Seq(Sockets)
    /\ registered \subseteq Sockets /\ forwarded \subseteq Sockets
    /\ ready \subseteq {pollRequests[k] : k \in DOMAIN pollRequests}
    /\ active \subseteq {Event(i) : i \in Sockets}
    /\ aborted \in BOOLEAN

\* The requests in the order in which they are polled.
Pending == pollRequests \o requests

\* A request whose event has happened is handed on to the pool, even if it was
\* queued just as the polling thread went to sleep: there are finitely many, and
\* in the end none of them waits.  Known exceptions: a request behind another one
\* for the same socket, whose addition fails, one that is too far down the list,
\* for as long as those before it stay, and one whose socket was closed before
\* the polling thread came to it, which waits for ever.
ReadyIsForwarded ==
    <>[](\A k \in DOMAIN Pending : Registers(Pending, k) => Event(Pending[k]) \notin active)

=============================================================================
